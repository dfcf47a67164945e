---------------------------- MODULE MemoryProofs -----------------------------
(***************************************************************************)
(* Proofs about a project's memory, for any outputs of the model, any      *)
(* digests and any number of entries.                                      *)
(***************************************************************************)
EXTENDS MemoryDir, FiniteOrders, SequenceTheorems

-----------------------------------------------------------------------------
(***************************************************************************)
(* Sequences of lines.                                                     *)
(***************************************************************************)
LEMMA SequenceOf ==
  ASSUME NEW S, NEW s \in Seq(S)
  PROVE  IsSequence(s)
<1>1. Len(s) \in Nat /\ s \in [1 .. Len(s) -> S] /\ DOMAIN s = 1 .. Len(s)
  BY LenProperties
<1>2. s \in [1 .. Len(s) -> {s[i] : i \in DOMAIN s}]
  BY <1>1
<1> QED
  BY <1>1, <1>2, SeqDef DEF IsSequence

LEMMA Pairs ==
  ASSUME NEW a, NEW b
  PROVE  IsSequence(<<a, b>>) /\ Len(<<a, b>>) = 2
<1> DEFINE S == {a, b}
<1>1. <<a, b>> \in Seq(S) /\ Len(<<a, b>>) = 2
  OBVIOUS
<1> HIDE DEF S
<1> QED
  BY <1>1, SequenceOf

LEMMA SequenceLength ==
  ASSUME NEW s, IsSequence(s)
  PROVE  Len(s) \in Nat /\ DOMAIN s = 1 .. Len(s) /\ s = [i \in 1 .. Len(s) |-> s[i]]
<1>1. Len(s) \in Nat /\ s \in [1 .. Len(s) -> {s[i] : i \in DOMAIN s}] /\ DOMAIN s = 1 .. Len(s)
  BY LenProperties DEF IsSequence
<1> QED
  BY <1>1

\* Sequences are equal when they have the same length and the same lines.
LEMMA SequencesEqual ==
  ASSUME NEW s, IsSequence(s), NEW t, IsSequence(t), Len(s) = Len(t),
         \A i \in 1 .. Len(s) : s[i] = t[i]
  PROVE  s = t
<1>1. s = [i \in 1 .. Len(s) |-> s[i]] /\ t = [i \in 1 .. Len(t) |-> t[i]]
  BY SequenceLength
<1> QED
  BY <1>1

LEMMA SameInterval ==
  ASSUME NEW a \in Nat, NEW b \in Nat, 1 .. a = 1 .. b
  PROVE  a = b
<1>1. CASE a < b
  <2>1. b \in 1 .. b /\ b \notin 1 .. a
    BY <1>1
  <2> QED
    BY <2>1
<1>2. CASE b < a
  <2>1. a \in 1 .. a /\ a \notin 1 .. b
    BY <1>2
  <2> QED
    BY <2>1
<1> QED
  BY <1>1, <1>2

\* Two sequences have a common set of lines.
LEMMA InCommon ==
  ASSUME NEW s, IsSequence(s), NEW t, IsSequence(t)
  PROVE  LET S == {s[i] : i \in DOMAIN s} \cup {t[i] : i \in DOMAIN t}
         IN s \in Seq(S) /\ t \in Seq(S)
<1> DEFINE S1 == {s[i] : i \in DOMAIN s}
<1> DEFINE S2 == {t[i] : i \in DOMAIN t}
<1>1. s \in Seq(S1) /\ t \in Seq(S2)
  BY DEF IsSequence
<1> HIDE DEF S1, S2
<1>2. s \in Seq(S1 \cup S2) /\ t \in Seq(S1 \cup S2)
  BY <1>1, SeqMonotonic
<1> QED
  BY <1>2 DEF S1, S2

LEMMA Concatenated ==
  ASSUME NEW s, IsSequence(s), NEW t, IsSequence(t)
  PROVE  /\ IsSequence(s \o t)
         /\ Len(s \o t) = Len(s) + Len(t)
         /\ \A i \in 1 .. Len(s) + Len(t) :
              (s \o t)[i] = IF i <= Len(s) THEN s[i] ELSE t[i - Len(s)]
<1>1. PICK S : s \in Seq(S) /\ t \in Seq(S)
  BY InCommon
<1> QED
  BY <1>1, ConcatProperties, SequenceOf

LEMMA Associative ==
  ASSUME NEW s, IsSequence(s), NEW t, IsSequence(t), NEW u, IsSequence(u)
  PROVE  (s \o t) \o u = s \o (t \o u)
<1>1. PICK S : s \in Seq(S) /\ t \in Seq(S)
  BY InCommon
<1>2. PICK U : u \in Seq(U)
  BY DEF IsSequence
<1> DEFINE T == S \cup U
<1>3. s \in Seq(T) /\ t \in Seq(T) /\ u \in Seq(T)
  BY <1>1, <1>2, SeqMonotonic
<1> HIDE DEF T
<1> QED
  BY <1>3, ConcatAssociative

LEMMA Cut ==
  ASSUME NEW s, IsSequence(s), NEW m \in 1 .. Len(s) + 1, NEW n \in m - 1 .. Len(s)
  PROVE  /\ IsSequence(SubSeq(s, m, n))
         /\ Len(SubSeq(s, m, n)) = n - m + 1
         /\ \A i \in 1 .. n - m + 1 : SubSeq(s, m, n)[i] = s[m + i - 1]
<1>1. PICK S : s \in Seq(S)
  BY DEF IsSequence
<1>2. Len(s) \in Nat
  BY SequenceLength
<1>3. m \in Int /\ n \in Int /\ \A i \in m .. n : s[i] \in S
  BY <1>1, <1>2, ElementOfSeq
<1>4. /\ SubSeq(s, m, n) \in Seq(S)
      /\ Len(SubSeq(s, m, n)) = IF m <= n THEN n - m + 1 ELSE 0
      /\ \A i \in 1 .. n - m + 1 : SubSeq(s, m, n)[i] = s[m + i - 1]
  BY <1>3, SubSeqProperties
<1>5. (IF m <= n THEN n - m + 1 ELSE 0) = n - m + 1
  BY <1>2
<1> QED
  BY <1>4, <1>5, SequenceOf

LEMMA Longer ==
  ASSUME NEW history, IsSequence(history), NEW commit
  PROVE  LET longer == Append(history, commit)
         IN /\ IsSequence(longer) /\ longer # <<>>
            /\ Len(longer) = Len(history) + 1
            /\ DOMAIN longer = DOMAIN history \cup {Len(history) + 1}
            /\ \A i \in DOMAIN history : longer[i] = history[i]
            /\ longer[Len(history) + 1] = commit
<1>1. PICK S : history \in Seq(S)
  BY DEF IsSequence
<1> DEFINE T == S \cup {commit}
<1>2. history \in Seq(T) /\ commit \in T
  BY <1>1, SeqMonotonic
<1> HIDE DEF T
<1> DEFINE longer == Append(history, commit)
<1>3. /\ longer \in Seq(T) /\ longer # <<>>
      /\ Len(longer) = Len(history) + 1
      /\ \A i \in 1 .. Len(history) : longer[i] = history[i]
      /\ longer[Len(history) + 1] = commit
  BY <1>2, AppendProperties
<1> HIDE DEF longer
<1>4. IsSequence(longer)
  BY <1>3, SequenceOf
<1>5. /\ Len(history) \in Nat /\ DOMAIN history = 1 .. Len(history)
      /\ DOMAIN longer = 1 .. Len(longer)
  BY <1>4, SequenceLength
<1>6. DOMAIN longer = DOMAIN history \cup {Len(history) + 1}
  BY <1>3, <1>5
<1> QED
  BY <1>3, <1>4, <1>5, <1>6 DEF longer

LEMMA Shortened ==
  ASSUME NEW s, IsSequence(s), s # <<>>
  PROVE  /\ Len(s) >= 1
         /\ IsSequence(Tail(s)) /\ Len(Tail(s)) = Len(s) - 1
         /\ \A i \in 1 .. Len(s) - 1 : Tail(s)[i] = s[i + 1]
<1>1. PICK S : s \in Seq(S)
  BY DEF IsSequence
<1>2. /\ Tail(s) \in Seq(S) /\ Len(Tail(s)) = Len(s) - 1
      /\ \A i \in 1 .. Len(Tail(s)) : Tail(s)[i] = s[i + 1]
  BY <1>1, HeadTailProperties
<1>3. Len(s) \in Nat /\ Len(s) # 0
  BY <1>1, EmptySeq, LenProperties
<1>4. IsSequence(Tail(s))
  BY <1>2, SequenceOf
<1> QED
  BY <1>2, <1>3, <1>4

\* Without its last line.
LEMMA WithoutLast ==
  ASSUME NEW s, IsSequence(s), s # <<>>
  PROVE  /\ Len(s) >= 1
         /\ IsSequence(Front(s)) /\ Len(Front(s)) = Len(s) - 1
         /\ \A i \in 1 .. Len(s) - 1 : Front(s)[i] = s[i]
<1>1. Len(s) >= 1 /\ Len(s) \in Nat
  BY Shortened, SequenceLength
<1>2. 1 \in 1 .. Len(s) + 1 /\ Len(s) - 1 \in 1 - 1 .. Len(s)
  BY <1>1
<1>3. /\ IsSequence(SubSeq(s, 1, Len(s) - 1))
      /\ Len(SubSeq(s, 1, Len(s) - 1)) = (Len(s) - 1) - 1 + 1
      /\ \A i \in 1 .. (Len(s) - 1) - 1 + 1 : SubSeq(s, 1, Len(s) - 1)[i] = s[1 + i - 1]
  BY <1>2, Cut
<1>4. (Len(s) - 1) - 1 + 1 = Len(s) - 1 /\ \A i \in 1 .. Len(s) - 1 : 1 + i - 1 = i
  BY <1>1
<1> QED
  BY <1>1, <1>3, <1>4 DEF Front

LEMMA GreatestIn ==
  ASSUME NEW n \in Nat, NEW S \in SUBSET (1 .. n), S # {}
  PROVE  Max(S) \in S /\ \A y \in S : y <= Max(S)
<1>1. IsFiniteSet(1 .. n) /\ 1 .. n \subseteq Nat
  BY FS_Interval
<1>2. IsFiniteSet(S) /\ S \subseteq Nat
  BY <1>1, FS_Subset
<1> DEFINE same == [x \in S |-> x]
<1>3. \A f \in [S -> Nat] : \E s \in S : \A t \in S : f[t] <= f[s]
  BY <1>2, NoAscent
<1>4. same \in [S -> Nat]
  BY <1>2
<1>5. PICK s \in S : \A t \in S : same[t] <= same[s]
  BY <1>3, <1>4
<1>6. \E x \in S : \A y \in S : x >= y
  BY <1>2, <1>5
<1>7. Max(S) \in S /\ \A y \in S : Max(S) >= y
  BY <1>6 DEF Max
<1> QED
  BY <1>2, <1>7

LEMMA LeastIn ==
  ASSUME NEW n \in Nat, NEW S \in SUBSET (0 .. n), S # {}
  PROVE  Min(S) \in S /\ \A y \in S : Min(S) <= y
<1>1. IsFiniteSet(0 .. n) /\ 0 .. n \subseteq Nat
  BY FS_Interval
<1>2. IsFiniteSet(S) /\ S \in SUBSET Nat
  BY <1>1, FS_Subset
<1>3. \E x \in S : \A y \in S : x =< y
  BY <1>2, Least
<1> QED
  BY <1>3 DEF Min

\* Where the bullets of an index begin.
LEMMA FirstBullet ==
  ASSUME NEW s, IsSequence(s)
  PROVE  LET first == SelectInSeq(s, IsBullet)
         IN \/ first = 0 /\ \A i \in 1 .. Len(s) : ~IsBullet(s[i])
            \/ /\ first \in 1 .. Len(s) /\ IsBullet(s[first])
               /\ \A i \in 1 .. first - 1 : ~IsBullet(s[i])
<1> DEFINE bullets == {i \in 1 .. Len(s) : IsBullet(s[i])}
<1>1. Len(s) \in Nat
  BY SequenceLength
<1>2. SelectInSeq(s, IsBullet) = IF bullets # {} THEN Min(bullets) ELSE 0
  BY DEF SelectInSeq
<1>3. bullets \in SUBSET (0 .. Len(s))
  BY <1>1
<1>4. CASE bullets = {}
  BY <1>2, <1>4
<1>5. CASE bullets # {}
  <2>1. Min(bullets) \in bullets /\ \A y \in bullets : Min(bullets) <= y
    <3> HIDE DEF bullets
    <3> QED
      BY <1>1, <1>3, <1>5, LeastIn
  <2>2. \A i \in 1 .. Min(bullets) - 1 : i \notin bullets /\ i \in 1 .. Len(s)
    BY <1>1, <2>1
  <2> QED
    BY <1>2, <1>5, <2>1, <2>2
<1> QED
  BY <1>4, <1>5

\* Where the last marker of a kind is.
LEMMA LastMarker ==
  ASSUME NEW s, IsSequence(s), NEW marker
  PROVE  LET last == LastOf(s, marker)
         IN \/ last = 0 /\ \A i \in 1 .. Len(s) : s[i] # marker
            \/ /\ last \in 1 .. Len(s) /\ s[last] = marker
               /\ \A i \in last + 1 .. Len(s) : s[i] # marker
<1> DEFINE marked == {i \in 1 .. Len(s) : s[i] = marker}
<1>1. Len(s) \in Nat
  BY SequenceLength
<1>2. LastOf(s, marker) = IF marked # {} THEN Max(marked) ELSE 0
  BY DEF LastOf, SelectLastInSeq
<1>3. marked \in SUBSET (1 .. Len(s))
  OBVIOUS
<1>4. CASE marked = {}
  BY <1>2, <1>4
<1>5. CASE marked # {}
  <2>1. Max(marked) \in marked /\ \A y \in marked : y <= Max(marked)
    <3> HIDE DEF marked
    <3> QED
      BY <1>1, <1>3, <1>5, GreatestIn
  <2>2. \A i \in Max(marked) + 1 .. Len(s) : i \notin marked /\ i \in 1 .. Len(s)
    BY <1>1, <2>1
  <2> QED
    BY <1>2, <1>5, <2>1, <2>2
<1> QED
  BY <1>4, <1>5

-----------------------------------------------------------------------------
(***************************************************************************)
(* What a rebuild of the index keeps and what it writes anew.              *)
(***************************************************************************)

\* The lines of the index before its first bullet stay, none of them a bullet.
LEMMA HeaderLines ==
  ASSUME NEW file, IsSequence(file)
  PROVE  /\ IsSequence(Header(file))
         /\ \A i \in 1 .. Len(Header(file)) : ~IsBullet(Header(file)[i])
         /\ file = <<>> => Header(file) = DefaultHeader
         /\ file # <<>> =>
              /\ Len(Header(file)) <= Len(file)
              /\ \A i \in 1 .. Len(Header(file)) : Header(file)[i] = file[i]
              /\ Len(Header(file)) < Len(file) => IsBullet(file[Len(Header(file)) + 1])
<1> DEFINE first == SelectInSeq(file, IsBullet)
<1>1. \/ first = 0 /\ \A i \in 1 .. Len(file) : ~IsBullet(file[i])
      \/ /\ first \in 1 .. Len(file) /\ IsBullet(file[first])
         /\ \A i \in 1 .. first - 1 : ~IsBullet(file[i])
  BY FirstBullet
<1>2. Len(file) \in Nat
  BY SequenceLength
<1>3. Header(file) = CASE file = <<>> -> DefaultHeader
                       [] file # <<>> /\ first = 0 -> file
                       [] OTHER -> SubSeq(file, 1, first - 1)
  BY DEF Header
<1> HIDE DEF first
<1>4. CASE file = <<>>
  <2>1. Header(file) = DefaultHeader
    BY <1>3, <1>4
  <2>2. /\ IsSequence(DefaultHeader) /\ Len(DefaultHeader) = 2
        /\ DefaultHeader[1] = <<"# Memory index">> /\ DefaultHeader[2] = Blank
    <3> DEFINE a == <<"# Memory index">>
    <3> DEFINE S == {a, Blank}
    <3>1. DefaultHeader = <<a, Blank>>
      BY DEF DefaultHeader
    <3> HIDE DEF a
    <3>2. <<a, Blank>> \in Seq(S) /\ Len(<<a, Blank>>) = 2 /\ <<a, Blank>>[1] = a /\ <<a, Blank>>[2] = Blank
      OBVIOUS
    <3>3. IsSequence(<<a, Blank>>)
      <4> HIDE DEF S
      <4> QED
        BY <3>2, SequenceOf
    <3> QED
      BY <3>1, <3>2, <3>3 DEF a
  <2>3. ~IsBullet(DefaultHeader[1]) /\ ~IsBullet(DefaultHeader[2])
    <3>1. <<"# Memory index">>[1] # "- [" /\ <<"">>[1] # "- ["
      OBVIOUS
    <3> QED
      BY <2>2, <3>1 DEF IsBullet, Blank
  <2>4. \A i \in 1 .. 2 : ~IsBullet(DefaultHeader[i])
    <3>1. \A i \in 1 .. 2 : i = 1 \/ i = 2
      OBVIOUS
    <3> QED
      BY <2>3, <3>1
  <2> QED
    BY <1>4, <2>1, <2>2, <2>4
<1>5. CASE file # <<>> /\ first = 0
  <2>1. Header(file) = file
    BY <1>3, <1>5
  <2> QED
    BY <1>1, <1>2, <1>5, <2>1
<1>6. CASE file # <<>> /\ first # 0
  <2>1. Header(file) = SubSeq(file, 1, first - 1)
    BY <1>3, <1>6
  <2>2. first \in 1 .. Len(file)
    BY <1>1, <1>6
  <2>3. /\ IsSequence(SubSeq(file, 1, first - 1))
        /\ Len(SubSeq(file, 1, first - 1)) = first - 1
        /\ \A i \in 1 .. first - 1 : SubSeq(file, 1, first - 1)[i] = file[i]
    <3>1. 1 \in 1 .. Len(file) + 1 /\ first - 1 \in 1 - 1 .. Len(file)
      BY <1>2, <2>2
    <3>2. /\ IsSequence(SubSeq(file, 1, first - 1))
          /\ Len(SubSeq(file, 1, first - 1)) = (first - 1) - 1 + 1
          /\ \A i \in 1 .. (first - 1) - 1 + 1 : SubSeq(file, 1, first - 1)[i] = file[1 + i - 1]
      BY <3>1, Cut
    <3> QED
      BY <2>2, <3>2
  <2> QED
    BY <1>1, <1>2, <1>6, <2>1, <2>2, <2>3
<1> QED
  BY <1>4, <1>5, <1>6

\* The names of the entries that there are, in some order.
LEMMA NamesInOrder ==
  ASSUME NEW S, IsFiniteSet(S)
  PROVE  LET names == SetToSeq(S)
         IN names \in Seq(S) /\ S = {names[i] : i \in DOMAIN names}
<1> DEFINE names == SetToSeq(S)
<1> DEFINE D == 1 .. Cardinality(S)
<1>1. Cardinality(S) \in Nat /\ ExistsBijection(D, S)
  BY FS_CardinalityType
<1>2. \E f \in [D -> S] : IsInjective(f)
  <2>1. PICK f : f \in Bijection(D, S)
    BY <1>1 DEF ExistsBijection
  <2>2. f \in [D -> S] /\ \A a, b \in D : f[a] = f[b] => a = b
    BY <2>1 DEF Bijection, Injection, IsInjective
  <2> QED
    BY <2>2 DEF IsInjective
<1>3. names \in [D -> S] /\ IsInjective(names)
  BY <1>2 DEF SetToSeq
<1> HIDE DEF names
<1>4. names \in Injection(D, S)
  BY <1>3 DEF Injection
<1>5. IsFiniteSet(D) /\ Cardinality(D) = Cardinality(S)
  <2>1. Cardinality(S) \in Int /\ 1 \in Int
    BY <1>1
  <2>2. IsFiniteSet(1 .. Cardinality(S))
        /\ Cardinality(1 .. Cardinality(S)) = IF 1 > Cardinality(S) THEN 0 ELSE Cardinality(S) - 1 + 1
    BY <2>1, FS_Interval
  <2> QED
    BY <1>1, <2>2
<1>6. names \in Surjection(D, S)
  BY <1>4, <1>5, FS_Injection
<1>7. \A s \in S : \E d \in D : names[d] = s
  BY <1>6 DEF Surjection
<1>8. names \in Seq(S)
  BY <1>1, <1>3, SeqDef
<1> QED
  BY <1>3, <1>7, <1>8 DEF names

\* The rebuilt index is a header without a bullet and one bullet for every entry.
Parts(file, entries, header, bullets) ==
  /\ Rebuilt(file, entries) = Joined(header, bullets)
  /\ header = IF file = NoFile THEN DefaultHeader ELSE Header(file)
  /\ IsSequence(header) /\ \A i \in 1 .. Len(header) : ~IsBullet(header[i])
  /\ IsSequence(bullets) /\ \A i \in 1 .. Len(bullets) : IsBullet(bullets[i])
  /\ {bullets[i] : i \in 1 .. Len(bullets)} =
       {Bullet(n, entries[n]) : n \in {m \in DOMAIN entries : entries[m] # NoFile}}

\* A file of lines: NoNewline is not all there is in it.
IsLines(file) == IsSequence(file) /\ (file # <<>> => file[1] # NoNewline)

IsFile(file) == file = NoFile \/ IsLines(file)

LEMMA RebuiltIndex ==
  ASSUME NEW file, IsFile(file), NEW entries, IsFiniteSet(DOMAIN entries)
  PROVE  \E header, bullets : Parts(file, entries, header, bullets)
<1> DEFINE S == {n \in DOMAIN entries : entries[n] # NoFile}
<1> DEFINE names == SetToSeq(S)
<1> DEFINE bullets == [i \in DOMAIN names |-> Bullet(names[i], entries[names[i]])]
<1> DEFINE header == IF file = NoFile THEN DefaultHeader ELSE Header(file)
<1>1. names \in Seq(S) /\ S = {names[i] : i \in DOMAIN names}
  <2>1. IsFiniteSet(S)
    BY FS_Subset
  <2> HIDE DEF S
  <2> QED
    BY <2>1, NamesInOrder
<1>2. Rebuilt(file, entries) = Joined(header, bullets)
  BY DEF Rebuilt
<1>3. IsSequence(header) /\ \A i \in 1 .. Len(header) : ~IsBullet(header[i])
  <2>1. CASE file # NoFile
    <3> IsSequence(file)
      BY <2>1 DEF IsFile, IsLines
    <3>1. IsSequence(Header(file)) /\ \A i \in 1 .. Len(Header(file)) : ~IsBullet(Header(file)[i])
      BY <2>1, HeaderLines
    <3> QED
      BY <2>1, <3>1
  <2>2. CASE file = NoFile
    <3>1. IsSequence(<<>>)
      <4>1. <<>> \in Seq({})
        OBVIOUS
      <4> QED
        BY <4>1, SequenceOf
    <3>2. /\ IsSequence(Header(<<>>)) /\ Header(<<>>) = DefaultHeader
          /\ \A i \in 1 .. Len(Header(<<>>)) : ~IsBullet(Header(<<>>)[i])
      BY <3>1, HeaderLines
    <3> QED
      BY <2>2, <3>2
  <2> QED
    BY <2>1, <2>2
<1>4. DOMAIN names = 1 .. Len(names) /\ Len(names) \in Nat
  BY <1>1, LenProperties
<1>5. \A i \in DOMAIN names : IsBullet(bullets[i])
  BY DEF IsBullet, Bullet
<1>6. /\ bullets \in Seq({Bullet(n, entries[n]) : n \in S})
      /\ Len(bullets) = Len(names)
  <2> HIDE DEF S, names
  <2>1. bullets \in [1 .. Len(names) -> {Bullet(n, entries[n]) : n \in S}]
    BY <1>1, <1>4
  <2> HIDE DEF bullets
  <2>2. bullets \in Seq({Bullet(n, entries[n]) : n \in S})
    BY <1>4, <2>1, SeqDef
  <2>3. DOMAIN bullets = 1 .. Len(bullets) /\ Len(bullets) \in Nat /\ DOMAIN bullets = 1 .. Len(names)
    BY <2>1, <2>2, LenProperties
  <2>4. Len(bullets) = Len(names)
    <3>1. Len(bullets) \in Nat /\ Len(names) \in Nat
      BY <1>4, <2>3
    <3>2. 1 .. Len(bullets) = 1 .. Len(names)
      BY <2>3
    <3> QED
      BY <3>1, <3>2, SameInterval
  <2> QED
    BY <2>2, <2>4
<1>7. IsSequence(bullets)
  <2> HIDE DEF bullets, S
  <2> QED
    BY <1>6, SequenceOf
<1>8. {bullets[i] : i \in 1 .. Len(bullets)} = {Bullet(n, entries[n]) : n \in S}
  <2> HIDE DEF S, names
  <2> QED
    BY <1>1, <1>4, <1>6
<1>9. \A i \in 1 .. Len(bullets) : IsBullet(bullets[i])
  <2> HIDE DEF S, names, bullets
  <2> QED
    BY <1>4, <1>5, <1>6
<1>10. header = IF file = NoFile THEN DefaultHeader ELSE Header(file)
  OBVIOUS
<1> HIDE DEF names, bullets, header
<1>11. Parts(file, entries, header, bullets)
  BY <1>2, <1>3, <1>7, <1>8, <1>9, <1>10 DEF Parts
<1> QED
  BY <1>11

\* A header that may end without a newline and the bullets: two parts again, the
\* first one without the end of the header and with the bullet that took its place.
JoinedParts(header, bullets, above, below) ==
  /\ Joined(header, bullets) = above \o below
  /\ IsSequence(above) /\ IsSequence(below)
  /\ \/ above = header /\ below = bullets /\ (Torn(header) => bullets = <<>>)
     \/ /\ Torn(header) /\ bullets # <<>>
        /\ Len(header) >= 2 /\ Len(above) = Len(header) - 1
        /\ \A i \in 1 .. Len(header) - 2 : above[i] = header[i]
        /\ above[Len(header) - 1] = Glued(bullets[1])
        /\ Len(below) = Len(bullets) - 1
        /\ \A i \in 1 .. Len(bullets) - 1 : below[i] = bullets[i + 1]

LEMMA JoinedIndex ==
  ASSUME NEW header, IsLines(header), NEW bullets, IsSequence(bullets)
  PROVE  \E above, below : JoinedParts(header, bullets, above, below)
<1>1. CASE Torn(header) /\ bullets # <<>>
  <2> DEFINE once == Front(header)
  <2> DEFINE twice == Front(once)
  <2> DEFINE above == Append(twice, Glued(bullets[1]))
  <2> DEFINE below == Tail(bullets)
  <2>1. Joined(header, bullets) = above \o below
    BY <1>1 DEF Joined
  <2>2. IsSequence(header) /\ header # <<>> /\ Len(header) \in Nat
    BY <1>1, SequenceLength DEF IsLines, Torn
  <2>3. Len(header) # 1
    BY <1>1 DEF Torn, IsLines
  <2>4. /\ Len(header) >= 1 /\ IsSequence(once) /\ Len(once) = Len(header) - 1
        /\ \A i \in 1 .. Len(header) - 1 : once[i] = header[i]
    BY <2>2, WithoutLast
  <2> HIDE DEF once
  <2>5. once # <<>>
    <3>1. Len(once) # 0
      BY <2>2, <2>3, <2>4
    <3> QED
      BY <3>1
  <2>6. /\ IsSequence(twice) /\ Len(twice) = Len(once) - 1
        /\ \A i \in 1 .. Len(once) - 1 : twice[i] = once[i]
    BY <2>4, <2>5, WithoutLast
  <2> HIDE DEF twice
  <2>7. /\ IsSequence(above) /\ Len(above) = Len(twice) + 1
        /\ \A i \in DOMAIN twice : above[i] = twice[i]
        /\ above[Len(twice) + 1] = Glued(bullets[1])
    BY <2>6, Longer
  <2>8. DOMAIN twice = 1 .. Len(twice)
    BY <2>6, SequenceLength
  <2>9. /\ IsSequence(below) /\ Len(below) = Len(bullets) - 1
        /\ \A i \in 1 .. Len(bullets) - 1 : below[i] = bullets[i + 1]
    BY <1>1, Shortened
  <2> HIDE DEF above, below
  <2>10. Len(header) >= 2 /\ Len(twice) = Len(header) - 2
    BY <2>2, <2>3, <2>4, <2>6
  <2>11. Len(above) = Len(header) - 1 /\ above[Len(header) - 1] = Glued(bullets[1])
    <3>1. Len(twice) + 1 = Len(header) - 1
      BY <2>2, <2>10
    <3> QED
      BY <2>7, <3>1
  <2>12. ASSUME NEW i \in 1 .. Len(header) - 2 PROVE above[i] = header[i]
    <3>1. i \in DOMAIN twice /\ i \in 1 .. Len(once) - 1 /\ i \in 1 .. Len(header) - 1
      BY <2>2, <2>4, <2>8, <2>10
    <3> QED
      BY <2>4, <2>6, <2>7, <3>1
  <2>13. JoinedParts(header, bullets, above, below)
    BY <1>1, <2>1, <2>7, <2>9, <2>10, <2>11, <2>12 DEF JoinedParts
  <2> QED
    BY <2>13
<1>2. CASE ~(Torn(header) /\ bullets # <<>>)
  <2>1. Joined(header, bullets) = header \o bullets
    BY <1>2 DEF Joined
  <2>2. JoinedParts(header, bullets, header, bullets)
    BY <1>2, <2>1 DEF JoinedParts, IsLines
  <2> QED
    BY <2>2
<1> QED
  BY <1>1, <1>2

\* What is at the end of a line that was cut off is no bullet and no marker.
LEMMA GluedLine ==
  ASSUME NEW bullet
  PROVE  /\ ~IsBullet(Glued(bullet)) /\ Glued(bullet) # NoNewline
         /\ Glued(bullet) # HotBegin /\ Glued(bullet) # HotEnd
<1>1. Glued(bullet)[1] = "glued"
  BY DEF Glued
<1>2. /\ NoNewline[1] = "no newline" /\ HotBegin[1] = "<!-- HOT:BEGIN -->"
      /\ HotEnd[1] = "<!-- HOT:END -->"
  BY DEF NoNewline, HotBegin, HotEnd
<1> HIDE DEF Glued
<1> QED
  BY <1>1, <1>2 DEF IsBullet

\* The header of a file of lines is one.
LEMMA HeaderStarts ==
  ASSUME NEW file, IsFile(file)
  PROVE  IsLines(IF file = NoFile THEN DefaultHeader ELSE Header(file))
<1>1. IsLines(DefaultHeader)
  <2>1. IsSequence(DefaultHeader)
    BY Pairs DEF DefaultHeader
  <2>2. DefaultHeader[1] # NoNewline
    <3>1. DefaultHeader[1][1] = "# Memory index" /\ NoNewline[1] = "no newline"
      BY DEF DefaultHeader, NoNewline
    <3> QED
      BY <3>1
  <2> QED
    BY <2>1, <2>2 DEF IsLines
<1>2. ASSUME file # NoFile PROVE IsLines(Header(file))
  <2>1. IsSequence(file) /\ (file # <<>> => file[1] # NoNewline)
    BY <1>2 DEF IsFile, IsLines
  <2>2. /\ IsSequence(Header(file))
        /\ file = <<>> => Header(file) = DefaultHeader
        /\ file # <<>> => \A i \in 1 .. Len(Header(file)) : Header(file)[i] = file[i]
    BY <2>1, HeaderLines
  <2>3. ASSUME Header(file) # <<>>, file # <<>> PROVE Header(file)[1] # NoNewline
    <3>1. Len(Header(file)) >= 1 /\ Len(Header(file)) \in Nat
      BY <2>2, <2>3, Shortened, SequenceLength
    <3>2. 1 \in 1 .. Len(Header(file))
      BY <3>1
    <3> QED
      BY <2>1, <2>2, <2>3, <3>2
  <2> QED
    BY <1>1, <2>2, <2>3 DEF IsLines
<1> QED
  BY <1>1, <1>2

-----------------------------------------------------------------------------
(***************************************************************************)
(* The files of the memory, and what a commit takes of them.               *)
(***************************************************************************)
Files == EntryPaths \cup {IndexPath}

IsTree(files) == files = [t \in Files |-> files[t]]

LEMMA FirstSegments ==
  ASSUME NEW n
  PROVE  SubSeq(PathOf(n), 1, 2) = <<Projects, Project>>
<1> DEFINE path == PathOf(n)
<1> DEFINE S == {Projects, Project, Memory, n}
<1>1. /\ path \in Seq(S) /\ Len(path) = 4 /\ path[1] = Projects /\ path[2] = Project
  BY DEF PathOf
<1> DEFINE two == <<Projects, Project>>
<1>2. two \in Seq(S) /\ Len(two) = 2 /\ two[1] = Projects /\ two[2] = Project
  OBVIOUS
<1> HIDE DEF path, S, two
<1>3. IsSequence(path) /\ IsSequence(two)
  BY <1>1, <1>2, SequenceOf
<1>4. /\ IsSequence(SubSeq(path, 1, 2)) /\ Len(SubSeq(path, 1, 2)) = 2
      /\ \A i \in 1 .. 2 : SubSeq(path, 1, 2)[i] = path[i]
  <2>1. 1 \in 1 .. Len(path) + 1 /\ 2 \in 1 - 1 .. Len(path)
    BY <1>1
  <2>2. /\ IsSequence(SubSeq(path, 1, 2)) /\ Len(SubSeq(path, 1, 2)) = 2 - 1 + 1
        /\ \A i \in 1 .. 2 - 1 + 1 : SubSeq(path, 1, 2)[i] = path[1 + i - 1]
    BY <1>3, <2>1, Cut
  <2> QED
    BY <2>2
<1>5. \A i \in 1 .. 2 : SubSeq(path, 1, 2)[i] = two[i]
  <2>1. \A i \in 1 .. 2 : i = 1 \/ i = 2
    OBVIOUS
  <2> QED
    BY <1>1, <1>2, <1>4, <2>1
<1>6. SubSeq(path, 1, 2) = two
  BY <1>2, <1>3, <1>4, <1>5, SequencesEqual
<1> QED
  BY <1>6 DEF path, two

\* No entry has the path of the index, every path tells its entry, and all of them
\* are in the pathspec of the memory.
LEMMA EntryPath ==
  ASSUME NEW n \in Names
  PROVE  /\ PathOf(n) \in EntryPaths /\ PathOf(n) # IndexPath
         /\ Base(PathOf(n)) = n
         /\ PathspecOf(PathOf(n)) = Pathspec
<1>1. PathOf(n) \in EntryPaths
  BY DEF EntryPaths
<1>2. n # MemoryIndex
  <2>1. ValidName(n) /\ "MEMORY" \notin Words
    BY MemoryAssumption
  <2>2. 1 \in DOMAIN MemoryIndex /\ MemoryIndex[1] = "MEMORY" /\ 1 % 2 = 1
    BY DEF MemoryIndex
  <2>3. ValidName(MemoryIndex) => MemoryIndex[1] \in Words
    <3> DEFINE name == MemoryIndex
    <3>1. ValidName(name) =>
            \A i \in DOMAIN name : CASE i % 2 = 1    -> name[i] \in Words
                                     [] i = Len(name) -> name[i] = ".md"
                                     [] OTHER         -> name[i] = "-"
      BY DEF ValidName
    <3>2. Len(name) = 2
      BY DEF MemoryIndex
    <3> HIDE DEF name
    <3>3. ASSUME ValidName(name) PROVE name[1] \in Words
      <4>1. (CASE 1 % 2 = 1    -> name[1] \in Words
               [] 1 = Len(name) -> name[1] = ".md"
               [] OTHER         -> name[1] = "-")
        BY <2>2, <3>1, <3>3 DEF name
      <4> QED
        BY <2>2, <3>2, <4>1
    <3> QED
      BY <3>3 DEF name
  <2> QED
    BY <2>1, <2>2, <2>3
<1>3. /\ Len(PathOf(n)) = 4 /\ PathOf(n)[4] = n /\ PathOf(n)[1] = Projects
      /\ Len(IndexPath) = 4 /\ IndexPath[4] = MemoryIndex /\ IndexPath[1] = Projects
  BY DEF PathOf, IndexPath
<1>4. SubSeq(PathOf(n), 1, 2) = SubSeq(IndexPath, 1, 2)
  BY FirstSegments DEF IndexPath
<1>5. PathspecOf(PathOf(n)) = SubSeq(PathOf(n), 1, 2) /\ Pathspec = SubSeq(IndexPath, 1, 2)
  BY <1>3 DEF PathspecOf, Pathspec
<1> QED
  BY <1>1, <1>2, <1>3, <1>4, <1>5 DEF Base

\* What is written into the files is read from them.
LEMMA WrittenFiles ==
  ASSUME NEW entries, NEW file
  PROVE  /\ IsTree(WithFiles(entries, file))
         /\ IndexIn(WithFiles(entries, file)) = file
         /\ \A n \in Names : EntriesIn(WithFiles(entries, file))[n] = entries[n]
<1>1. IsTree(WithFiles(entries, file))
  BY DEF IsTree, WithFiles, Files
<1>2. IndexIn(WithFiles(entries, file)) = file
  BY DEF IndexIn, WithFiles
<1>3. ASSUME NEW n \in Names PROVE EntriesIn(WithFiles(entries, file))[n] = entries[n]
  <2>1. PathOf(n) \in EntryPaths /\ PathOf(n) # IndexPath /\ Base(PathOf(n)) = n
    BY EntryPath
  <2> QED
    BY <2>1 DEF EntriesIn, WithFiles
<1> QED
  BY <1>1, <1>2, <1>3

\* The pathspec of the memory takes all its files.
LEMMA WholeTree ==
  ASSUME NEW now, IsTree(now), NEW base
  PROVE  Git!Part(now, base, Pathspec) = now
<1>1. \A t \in Files : PathspecOf(t) = Pathspec
  BY EntryPath DEF Files, EntryPaths, Pathspec
<1>2. \A t : Git!PathspecOf(t) = PathspecOf(t)
  BY DEF Git!PathspecOf, PathspecOf, Git!Projects, Projects, Git!GlobalDir, GlobalDir
<1>3. Git!Part(now, base, Pathspec) = [t \in Files |-> now[t]]
  BY <1>1, <1>2 DEF Git!Part, Files
<1> QED
  BY <1>3 DEF IsTree

\* A commit of the memory adds the tree as it is to the history, or the tree is what
\* the history ends with.
LEMMA CommitOfMemory ==
  ASSUME NEW now, IsTree(now), NEW by, Git!CommitPathspec(now, Pathspec, by)
  PROVE  /\ tree' = now /\ canonical' = canonical
         /\ \/ head' = head /\ now = Git!TreeOf(head)
            \/ head' = Append(head, [tree |-> now, by |-> by])
<1>1. Git!Part(now, Git!TreeOf(head), Pathspec) = now /\ Git!Added(now, Pathspec) = now
  BY WholeTree DEF Git!Added
<1> QED
  BY <1>1 DEF Git!CommitPathspec, Git!HasStagedChanges

-----------------------------------------------------------------------------
(***************************************************************************)
(* The lines of an index with a digest in it.                              *)
(***************************************************************************)
\* A file without the sign that its last line has no newline has lines.
LEMMA LinesOfFile ==
  ASSUME NEW file, IsLines(file), file # <<>>
  PROVE  /\ IsSequence(Lines(file)) /\ Lines(file) # <<>>
         /\ Lines(file)[1] = file[1]
         /\ Len(Lines(file)) \in 1 .. Len(file)
         /\ \A i \in 1 .. Len(Lines(file)) : Lines(file)[i] = file[i]
         /\ Lines(file) = file \/ (Torn(file) /\ Len(Lines(file)) = Len(file) - 1)
<1>1. IsSequence(file) /\ Len(file) \in Nat /\ Len(file) >= 1
  BY SequenceLength, Shortened DEF IsLines
<1>2. CASE Torn(file)
  <2>1. Len(file) # 1
    BY <1>2 DEF Torn, IsLines
  <2>2. Lines(file) = Front(file)
    BY <1>2 DEF Lines
  <2>3. /\ IsSequence(Front(file)) /\ Len(Front(file)) = Len(file) - 1
        /\ \A i \in 1 .. Len(file) - 1 : Front(file)[i] = file[i]
    BY <1>1, WithoutLast
  <2>4. Front(file) # <<>> /\ 1 \in 1 .. Len(file) - 1
    <3>1. Len(Front(file)) # 0 /\ 1 \in 1 .. Len(file) - 1
      BY <1>1, <2>1, <2>3
    <3> QED
      BY <3>1
  <2> QED
    BY <1>1, <1>2, <2>2, <2>3, <2>4
<1>3. CASE ~Torn(file)
  <2>1. Lines(file) = file
    BY <1>3 DEF Lines
  <2>2. Len(file) \in 1 .. Len(file)
    BY <1>1
  <2>3. /\ IsSequence(file) /\ file # <<>> /\ file[1] = file[1]
        /\ \A i \in 1 .. Len(file) : file[i] = file[i]
    BY <1>1
  <2> QED
    BY <2>1, <2>2, <2>3
<1> QED
  BY <1>2, <1>3

\* The lines that the digest is put between.
LEMMA HotBlockParts ==
  ASSUME NEW old, IsFile(old)
  PROVE  LET lines == IF old \in {NoFile, <<>>} THEN DefaultHeader ELSE Lines(old)
         IN IsSequence(lines) /\ lines # <<>> /\ lines[1] # NoNewline
<1>1. IsSequence(DefaultHeader) /\ DefaultHeader # <<>>
  <2>1. IsSequence(DefaultHeader) /\ Len(DefaultHeader) = 2
    BY Pairs DEF DefaultHeader
  <2> QED
    BY <2>1
<1>2. DefaultHeader[1] # NoNewline
  <2>1. DefaultHeader[1][1] = "# Memory index" /\ NoNewline[1] = "no newline"
    BY DEF DefaultHeader, NoNewline
  <2> QED
    BY <2>1
<1>3. ASSUME old \notin {NoFile, <<>>}
      PROVE  IsSequence(Lines(old)) /\ Lines(old) # <<>> /\ Lines(old)[1] # NoNewline
  <2>1. IsLines(old) /\ old # <<>> /\ old[1] # NoNewline
    BY <1>3 DEF IsFile, IsLines
  <2> QED
    BY <2>1, LinesOfFile
<1> QED
  BY <1>1, <1>2, <1>3

\* What begins with a line still does when more follows.
LEMMA Continued ==
  ASSUME NEW s, IsSequence(s), Len(s) >= 1, s[1] # NoNewline, NEW t, IsSequence(t)
  PROVE  /\ IsSequence(s \o t) /\ Len(s \o t) >= 1 /\ (s \o t)[1] # NoNewline
         /\ IsLines(s \o t)
<1>1. Len(s) \in Nat /\ Len(t) \in Nat
  BY SequenceLength
<1>2. 1 \in 1 .. Len(s) + Len(t) /\ 1 <= Len(s) /\ Len(s) + Len(t) >= 1
  BY <1>1
<1>3. IsSequence(s \o t) /\ Len(s \o t) >= 1 /\ (s \o t)[1] = s[1]
  BY <1>2, Concatenated
<1> QED
  BY <1>3 DEF IsLines

LEMMA WithHotBlockFile ==
  ASSUME NEW old, IsFile(old), NEW digest, IsSequence(digest)
  PROVE  IsLines(WithHotBlock(old, digest))
<1> DEFINE lines == IF old \in {NoFile, <<>>} THEN DefaultHeader ELSE Lines(old)
<1> DEFINE begin == LastOf(lines, HotBegin)
<1> DEFINE end == LastOf(lines, HotEnd)
<1>1. IsSequence(lines) /\ lines # <<>> /\ lines[1] # NoNewline
  BY HotBlockParts
<1>2. WithHotBlock(old, digest) =
        IF begin = 0 \/ end = 0
        THEN <<lines[1], HotBegin>> \o digest \o <<HotEnd, Blank>> \o Tail(lines)
        ELSE SubSeq(lines, 1, begin) \o digest \o SubSeq(lines, end, Len(lines))
  BY DEF WithHotBlock
<1> HIDE DEF lines
<1>3. /\ begin = 0 \/ begin \in 1 .. Len(lines)
      /\ end = 0 \/ end \in 1 .. Len(lines)
  BY <1>1, LastMarker
<1>4. Len(lines) \in Nat
  BY <1>1, SequenceLength
<1> HIDE DEF begin, end
<1>5. CASE begin = 0 \/ end = 0
  <2> DEFINE above == <<lines[1], HotBegin>>
  <2> DEFINE pair == <<HotEnd, Blank>>
  <2>1. /\ IsSequence(above) /\ Len(above) >= 1 /\ above[1] # NoNewline
        /\ IsSequence(pair) /\ IsSequence(Tail(lines))
    <3>1. IsSequence(above) /\ Len(above) = 2 /\ above[1] = lines[1] /\ IsSequence(pair)
      BY Pairs
    <3> QED
      BY <1>1, <3>1, Shortened
  <2> HIDE DEF above, pair
  <2>2. /\ IsSequence(above \o digest) /\ Len(above \o digest) >= 1
        /\ (above \o digest)[1] # NoNewline
    BY <2>1, Continued
  <2>3. /\ IsSequence(above \o digest \o pair) /\ Len(above \o digest \o pair) >= 1
        /\ (above \o digest \o pair)[1] # NoNewline
    BY <2>1, <2>2, Continued
  <2>4. IsLines(above \o digest \o pair \o Tail(lines))
    BY <2>1, <2>3, Continued
  <2> QED
    BY <1>2, <1>5, <2>4 DEF above, pair
<1>6. CASE begin # 0 /\ end # 0
  <2> DEFINE above == SubSeq(lines, 1, begin)
  <2>1. IsSequence(above) /\ Len(above) >= 1 /\ above[1] # NoNewline
    <3>1. 1 \in 1 .. Len(lines) + 1 /\ begin \in 1 - 1 .. Len(lines) /\ 1 \in 1 .. begin - 1 + 1
      BY <1>3, <1>4, <1>6
    <3>2. /\ IsSequence(above) /\ Len(above) = begin - 1 + 1
          /\ \A i \in 1 .. begin - 1 + 1 : above[i] = lines[1 + i - 1]
      BY <1>1, <3>1, Cut
    <3> HIDE DEF above
    <3>3. above[1] = lines[1 + 1 - 1] /\ 1 + 1 - 1 = 1 /\ begin - 1 + 1 >= 1
      BY <1>3, <1>6, <3>1, <3>2
    <3> QED
      BY <1>1, <3>2, <3>3
  <2>2. IsSequence(SubSeq(lines, end, Len(lines)))
    <3>1. end \in 1 .. Len(lines) + 1 /\ Len(lines) \in end - 1 .. Len(lines)
      BY <1>3, <1>4, <1>6
    <3> QED
      BY <1>1, <3>1, Cut
  <2> HIDE DEF above
  <2>3. /\ IsSequence(above \o digest) /\ Len(above \o digest) >= 1
        /\ (above \o digest)[1] # NoNewline
    BY <2>1, Continued
  <2>4. IsLines(above \o digest \o SubSeq(lines, end, Len(lines)))
    BY <2>2, <2>3, Continued
  <2> QED
    BY <1>2, <1>6, <2>4 DEF above
<1> QED
  BY <1>5, <1>6

\* The lines of a file that was cut off: those of the whole file, a piece of one at
\* the end, and the sign that there is no newline.
CutFrom(lines, cut) ==
  /\ IsSequence(cut)
  /\ \A i \in 1 .. Len(cut) :
       \/ i <= Len(lines) /\ (cut[i] = lines[i] \/ cut[i] \in Pieces(lines[i]))
       \/ cut[i] = NoNewline /\ i = Len(cut) /\ i > 1

LEMMA CutLines ==
  ASSUME NEW file, IsLines(file), NEW cut \in CutOff(file)
  PROVE  CutFrom(Lines(file), cut)
<1> DEFINE lines == Lines(file)
<1>1. IsSequence(lines)
  <2>1. CASE file = <<>>
    BY <2>1 DEF Lines, Torn, IsLines
  <2>2. CASE file # <<>>
    BY <2>2, LinesOfFile
  <2> QED
    BY <2>1, <2>2
<1>2. \/ \E k \in 0 .. Len(lines) - 1 : cut = SubSeq(lines, 1, k)
      \/ \E k \in DOMAIN lines : cut = Append(SubSeq(lines, 1, k), NoNewline)
      \/ \E k \in DOMAIN lines : \E piece \in Pieces(lines[k]) :
           cut = SubSeq(lines, 1, k - 1) \o <<piece, NoNewline>>
  BY DEF CutOff
<1> HIDE DEF lines
<1>3. Len(lines) \in Nat /\ DOMAIN lines = 1 .. Len(lines)
  BY <1>1, SequenceLength
<1>4. ASSUME NEW k \in 0 .. Len(lines)
      PROVE  /\ IsSequence(SubSeq(lines, 1, k)) /\ Len(SubSeq(lines, 1, k)) = k
             /\ \A i \in 1 .. k : SubSeq(lines, 1, k)[i] = lines[i]
  <2>1. 1 \in 1 .. Len(lines) + 1 /\ k \in 1 - 1 .. Len(lines)
    BY <1>3
  <2>2. /\ IsSequence(SubSeq(lines, 1, k)) /\ Len(SubSeq(lines, 1, k)) = k - 1 + 1
        /\ \A i \in 1 .. k - 1 + 1 : SubSeq(lines, 1, k)[i] = lines[1 + i - 1]
    BY <1>1, <2>1, Cut
  <2>3. k - 1 + 1 = k /\ \A i \in 1 .. k : 1 + i - 1 = i
    BY <1>3
  <2> QED
    BY <2>2, <2>3
<1>5. ASSUME NEW k \in 0 .. Len(lines) - 1, cut = SubSeq(lines, 1, k)
      PROVE  CutFrom(lines, cut)
  <2>1. k \in 0 .. Len(lines)
    BY <1>3
  <2>2. IsSequence(cut) /\ Len(cut) = k /\ \A i \in 1 .. k : cut[i] = lines[i]
    BY <1>4, <1>5, <2>1
  <2>3. \A i \in 1 .. k : i <= Len(lines)
    BY <1>3
  <2> QED
    BY <2>2, <2>3 DEF CutFrom
<1>6. ASSUME NEW k \in DOMAIN lines, cut = Append(SubSeq(lines, 1, k), NoNewline)
      PROVE  CutFrom(lines, cut)
  <2> DEFINE part == SubSeq(lines, 1, k)
  <2>1. k \in 0 .. Len(lines) /\ k >= 1
    BY <1>3
  <2>2. IsSequence(part) /\ Len(part) = k /\ \A i \in 1 .. k : part[i] = lines[i]
    BY <1>4, <2>1
  <2> HIDE DEF part
  <2>3. DOMAIN part = 1 .. k
    BY <2>2, SequenceLength
  <2>4. /\ IsSequence(cut) /\ Len(cut) = k + 1
        /\ \A i \in 1 .. k : cut[i] = part[i]
        /\ cut[k + 1] = NoNewline
    <3>1. cut = Append(part, NoNewline)
      BY <1>6 DEF part
    <3>2. LET longer == Append(part, NoNewline)
          IN /\ IsSequence(longer)
             /\ Len(longer) = Len(part) + 1
             /\ \A i \in DOMAIN part : longer[i] = part[i]
             /\ longer[Len(part) + 1] = NoNewline
      BY <2>2, Longer
    <3> QED
      BY <2>2, <2>3, <3>1, <3>2
  <2>5. ASSUME NEW i \in 1 .. k + 1
        PROVE  (i \in 1 .. k /\ i <= Len(lines)) \/ (i = k + 1 /\ i > 1)
    <3> DEFINE n == Len(lines)
    <3>1. k \in Nat /\ k >= 1 /\ k <= n /\ n \in Nat
      BY <1>3, <2>1
    <3> HIDE DEF n
    <3>2. (i \in 1 .. k /\ i <= n) \/ (i = k + 1 /\ i > 1)
      BY <3>1
    <3> QED
      BY <3>2 DEF n
  <2> QED
    BY <2>2, <2>4, <2>5 DEF CutFrom
<1>7. ASSUME NEW k \in DOMAIN lines, NEW piece \in Pieces(lines[k]),
             cut = SubSeq(lines, 1, k - 1) \o <<piece, NoNewline>>
      PROVE  CutFrom(lines, cut)
  <2> DEFINE part == SubSeq(lines, 1, k - 1)
  <2> DEFINE pair == <<piece, NoNewline>>
  <2>1. k - 1 \in 0 .. Len(lines) /\ k >= 1 /\ k \in 1 .. Len(lines)
    BY <1>3
  <2>2. IsSequence(part) /\ Len(part) = k - 1 /\ \A i \in 1 .. k - 1 : part[i] = lines[i]
    BY <1>4, <2>1
  <2>3. IsSequence(pair) /\ Len(pair) = 2 /\ pair[1] = piece /\ pair[2] = NoNewline
    BY Pairs
  <2> HIDE DEF part, pair
  <2>4. /\ IsSequence(cut) /\ Len(cut) = (k - 1) + 2
        /\ \A i \in 1 .. (k - 1) + 2 : cut[i] = IF i <= k - 1 THEN part[i] ELSE pair[i - (k - 1)]
    <3>1. cut = part \o pair
      BY <1>7 DEF part, pair
    <3>2. /\ IsSequence(part \o pair) /\ Len(part \o pair) = Len(part) + Len(pair)
          /\ \A i \in 1 .. Len(part) + Len(pair) :
               (part \o pair)[i] = IF i <= Len(part) THEN part[i] ELSE pair[i - Len(part)]
      BY <2>2, <2>3, Concatenated
    <3> QED
      BY <2>2, <2>3, <3>1, <3>2
  <2>5. ASSUME NEW i \in 1 .. k + 1
        PROVE  \/ i <= Len(lines) /\ (cut[i] = lines[i] \/ cut[i] \in Pieces(lines[i]))
               \/ cut[i] = NoNewline /\ i = k + 1 /\ i > 1
    <3>1. CASE i <= k - 1
      <4>1. i \in 1 .. k - 1 /\ i \in 1 .. (k - 1) + 2 /\ i <= Len(lines)
        BY <1>3, <2>1, <3>1
      <4> QED
        BY <2>2, <2>4, <3>1, <4>1
    <3>2. CASE i = k
      <4>1. ~(i <= k - 1) /\ i - (k - 1) = 1 /\ i \in 1 .. (k - 1) + 2 /\ i <= Len(lines)
        BY <1>3, <2>1, <3>2
      <4> QED
        BY <2>3, <2>4, <3>2, <4>1
    <3>3. CASE i = k + 1
      <4>1. ~(i <= k - 1) /\ i - (k - 1) = 2 /\ i \in 1 .. (k - 1) + 2 /\ i > 1
        BY <1>3, <2>1, <3>3
      <4> QED
        BY <2>3, <2>4, <3>3, <4>1
    <3> QED
      BY <1>3, <2>1, <3>1, <3>2, <3>3
  <2>6. (k - 1) + 2 = k + 1
    BY <2>1
  <2> QED
    BY <2>4, <2>5, <2>6 DEF CutFrom
<1>8. CutFrom(lines, cut)
  BY <1>2, <1>5, <1>6, <1>7
<1> QED
  BY <1>8 DEF lines

\* A piece of a line is neither a marker nor the sign of the end, and no bullet unless
\* the line is one.
LEMMA PieceOfLine ==
  ASSUME NEW line, NEW piece \in Pieces(line)
  PROVE  /\ piece # HotBegin /\ piece # HotEnd /\ piece # NoNewline
         /\ IsBullet(piece) => IsBullet(line)
<1>1. piece = <<"part">> \/ piece = <<line[1], "part">>
  BY DEF Pieces
<1>2. <<"part">>[1] = "part" /\ <<"part">> # HotBegin /\ <<"part">> # HotEnd /\ <<"part">> # NoNewline
  BY DEF HotBegin, HotEnd, NoNewline
<1>3. /\ Len(<<line[1], "part">>) = 2 /\ <<line[1], "part">>[1] = line[1]
      /\ Len(HotBegin) = 1 /\ Len(HotEnd) = 1 /\ Len(NoNewline) = 1
  BY DEF HotBegin, HotEnd, NoNewline
<1>4. CASE piece = <<"part">>
  BY <1>2, <1>4 DEF IsBullet
<1>5. CASE piece = <<line[1], "part">>
  <2> DEFINE two == <<line[1], "part">>
  <2>1. Len(two) = 2 /\ two[1] = line[1] /\ piece = two
    BY <1>3, <1>5
  <2> HIDE DEF two
  <2>2. piece # HotBegin /\ piece # HotEnd /\ piece # NoNewline
    BY <1>3, <2>1
  <2> QED
    BY <2>1, <2>2 DEF IsBullet
<1> QED
  BY <1>1, <1>4, <1>5

LEMMA CutOffFile ==
  ASSUME NEW file, IsLines(file), NEW cut \in CutOff(file)
  PROVE  IsLines(cut)
<1>1. CutFrom(Lines(file), cut)
  BY CutLines
<1>2. IsSequence(cut)
  BY <1>1 DEF CutFrom
<1>3. ASSUME cut # <<>> PROVE cut[1] # NoNewline
  <2>1. Len(cut) >= 1 /\ Len(cut) \in Nat
    BY <1>2, <1>3, Shortened, SequenceLength
  <2>2. 1 \in 1 .. Len(cut) /\ ~(1 > 1)
    BY <2>1
  <2>3. 1 <= Len(Lines(file)) /\ (cut[1] = Lines(file)[1] \/ cut[1] \in Pieces(Lines(file)[1]))
    BY <1>1, <2>2 DEF CutFrom
  <2>4. file # <<>>
    <3>1. ASSUME file = <<>> PROVE Lines(file) = <<>>
      BY <3>1 DEF Lines, Torn
    <3>2. Len(<<>>) = 0
      OBVIOUS
    <3> QED
      BY <2>3, <3>1, <3>2
  <2>5. Lines(file)[1] # NoNewline
    BY <2>4, LinesOfFile DEF IsLines
  <2> QED
    BY <2>3, <2>5, PieceOfLine
<1> QED
  BY <1>2, <1>3 DEF IsLines

LEMMA RebuiltFile ==
  ASSUME NEW file, IsFile(file), NEW entries, IsFiniteSet(DOMAIN entries)
  PROVE  IsLines(Rebuilt(file, entries))
<1>1. PICK header, bullets : Parts(file, entries, header, bullets)
  BY RebuiltIndex
<1>2. /\ Rebuilt(file, entries) = Joined(header, bullets) /\ IsLines(header)
      /\ IsSequence(bullets) /\ \A i \in 1 .. Len(bullets) : IsBullet(bullets[i])
  BY <1>1, HeaderStarts DEF Parts
<1>3. PICK above, below : JoinedParts(header, bullets, above, below)
  BY <1>2, JoinedIndex
<1> DEFINE new == above \o below
<1>4. Rebuilt(file, entries) = new /\ IsSequence(above) /\ IsSequence(below)
  BY <1>2, <1>3 DEF JoinedParts
<1>5. /\ IsSequence(new) /\ Len(new) = Len(above) + Len(below)
      /\ \A i \in 1 .. Len(above) + Len(below) :
           new[i] = IF i <= Len(above) THEN above[i] ELSE below[i - Len(above)]
  BY <1>4, Concatenated
<1>6. /\ Len(above) \in Nat /\ Len(below) \in Nat /\ Len(bullets) \in Nat
      /\ IsSequence(header) /\ Len(header) \in Nat
  BY <1>2, <1>4, SequenceLength DEF IsLines
<1> HIDE DEF new
<1>7. NoNewline[1] = "no newline"
  BY DEF NoNewline
<1>8. ASSUME Len(above) >= 1 PROVE above[1] # NoNewline
  <2>1. CASE above = header
    <3>1. header # <<>>
      BY <1>8, <2>1
    <3> QED
      BY <1>2, <2>1, <3>1 DEF IsLines
  <2>2. CASE above # header
    <3>1. /\ Torn(header) /\ Len(header) >= 2
          /\ \A i \in 1 .. Len(header) - 2 : above[i] = header[i]
          /\ above[Len(header) - 1] = Glued(bullets[1])
      BY <1>3, <2>2 DEF JoinedParts
    <3>2. CASE Len(header) = 2
      <4>1. Len(header) - 1 = 1
        BY <3>2
      <4> QED
        BY <3>1, <4>1, GluedLine
    <3>3. CASE Len(header) > 2
      <4>1. 1 \in 1 .. Len(header) - 2
        BY <1>6, <3>3
      <4>2. header # <<>>
        BY <3>1 DEF Torn
      <4>3. above[1] = header[1] /\ header[1] # NoNewline
        BY <1>2, <3>1, <4>1, <4>2 DEF IsLines
      <4> QED
        BY <4>3
    <3> DEFINE n == Len(header)
    <3>4. n \in Nat /\ n >= 2
      BY <1>6, <3>1
    <3> HIDE DEF n
    <3>5. n = 2 \/ n > 2
      BY <3>4
    <3> QED
      BY <3>2, <3>3, <3>5 DEF n
  <2> QED
    BY <2>1, <2>2
<1>9. ASSUME Len(below) >= 1 PROVE below[1] # NoNewline
  <2>1. 1 \in 1 .. Len(below)
    BY <1>6, <1>9
  <2>2. IsBullet(below[1])
    <3>1. CASE below = bullets
      BY <1>2, <2>1, <3>1
    <3>2. CASE below # bullets
      <4>1. /\ Len(below) = Len(bullets) - 1
            /\ \A i \in 1 .. Len(bullets) - 1 : below[i] = bullets[i + 1]
        BY <1>3, <3>2 DEF JoinedParts
      <4>2. below[1] = bullets[2] /\ 2 \in 1 .. Len(bullets)
        BY <1>6, <2>1, <4>1
      <4> QED
        BY <1>2, <4>2
    <3> QED
      BY <3>1, <3>2
  <2> QED
    BY <1>7, <2>2 DEF IsBullet
<1>10. ASSUME new # <<>> PROVE new[1] # NoNewline
  <2>1. Len(new) >= 1
    BY <1>5, <1>10, Shortened
  <2>2. CASE Len(above) >= 1
    BY <1>5, <1>6, <1>8, <2>2
  <2>3. CASE Len(above) = 0
    <3>1. 1 \in 1 .. Len(above) + Len(below) /\ ~(1 <= Len(above)) /\ 1 - Len(above) = 1
      BY <1>5, <1>6, <2>1, <2>3
    <3>2. Len(below) >= 1
      BY <1>5, <1>6, <2>1, <2>3
    <3> QED
      BY <1>5, <1>9, <3>1, <3>2
  <2> QED
    BY <1>6, <2>2, <2>3
<1> QED
  BY <1>4, <1>5, <1>10 DEF IsLines

\* The rebuilt index lists the entries, all of them and nothing else; only the bullet
\* of one may be at the end of a line that was cut off.
AlmostListed(file, bullets) ==
  /\ Listed(file) \subseteq bullets
  /\ \A bullet \in bullets \ Listed(file) :
       /\ bullets \ Listed(file) = {bullet}
       /\ \E j \in DOMAIN file : file[j] = Glued(bullet)

LEMMA RebuiltLists ==
  ASSUME NEW file, IsFile(file), NEW entries, IsFiniteSet(DOMAIN entries)
  PROVE  AlmostListed(Rebuilt(file, entries),
                      {Bullet(n, entries[n]) : n \in {m \in DOMAIN entries : entries[m] # NoFile}})
<1> DEFINE all == {Bullet(n, entries[n]) : n \in {m \in DOMAIN entries : entries[m] # NoFile}}
<1>0. PICK header, bullets : Parts(file, entries, header, bullets)
  BY RebuiltIndex
<1>1. /\ Rebuilt(file, entries) = Joined(header, bullets) /\ IsLines(header)
      /\ IsSequence(header) /\ \A i \in 1 .. Len(header) : ~IsBullet(header[i])
      /\ IsSequence(bullets) /\ \A i \in 1 .. Len(bullets) : IsBullet(bullets[i])
      /\ {bullets[i] : i \in 1 .. Len(bullets)} = all
  BY <1>0, HeaderStarts DEF Parts
<1> HIDE DEF all
<1>2. PICK above, below : JoinedParts(header, bullets, above, below)
  BY <1>1, JoinedIndex
<1> DEFINE new == above \o below
<1>3. Rebuilt(file, entries) = new /\ IsSequence(above) /\ IsSequence(below)
  BY <1>1, <1>2 DEF JoinedParts
<1>4. /\ IsSequence(new) /\ Len(new) = Len(above) + Len(below)
      /\ \A i \in 1 .. Len(above) + Len(below) :
           new[i] = IF i <= Len(above) THEN above[i] ELSE below[i - Len(above)]
  BY <1>3, Concatenated
<1>5. /\ Len(above) \in Nat /\ Len(below) \in Nat /\ DOMAIN new = 1 .. Len(above) + Len(below)
      /\ Len(header) \in Nat /\ Len(bullets) \in Nat
  BY <1>1, <1>3, <1>4, SequenceLength
<1> HIDE DEF new
<1>6. ASSUME NEW i \in 1 .. Len(above) PROVE ~IsBullet(above[i])
  <2>1. CASE above = header
    BY <1>1, <2>1
  <2>2. CASE above # header
    <3>1. /\ Len(header) >= 2 /\ Len(above) = Len(header) - 1
          /\ \A j \in 1 .. Len(header) - 2 : above[j] = header[j]
          /\ above[Len(header) - 1] = Glued(bullets[1])
      BY <1>2, <2>2 DEF JoinedParts
    <3>2. (i \in 1 .. Len(header) - 2 /\ i \in 1 .. Len(header)) \/ i = Len(header) - 1
      BY <1>5, <3>1
    <3> QED
      BY <1>1, <3>1, <3>2, GluedLine
  <2> QED
    BY <2>1, <2>2
<1>7. ASSUME NEW i \in 1 .. Len(below)
      PROVE  IsBullet(below[i]) /\ below[i] \in all
  <2>1. CASE below = bullets
    BY <1>1, <2>1
  <2>2. CASE below # bullets
    <3>1. /\ Len(below) = Len(bullets) - 1
          /\ \A j \in 1 .. Len(bullets) - 1 : below[j] = bullets[j + 1]
      BY <1>2, <2>2 DEF JoinedParts
    <3>2. below[i] = bullets[i + 1] /\ i + 1 \in 1 .. Len(bullets)
      BY <1>5, <3>1
    <3> QED
      BY <1>1, <3>2
  <2> QED
    BY <2>1, <2>2
<1>8. Listed(new) = {below[i] : i \in 1 .. Len(below)}
  <2>1. ASSUME NEW i \in DOMAIN new, IsBullet(new[i])
        PROVE  \E k \in 1 .. Len(below) : new[i] = below[k]
    <3>1. i > Len(above)
      BY <1>4, <1>5, <1>6, <2>1
    <3>2. new[i] = below[i - Len(above)] /\ i - Len(above) \in 1 .. Len(below)
      BY <1>4, <1>5, <3>1
    <3> QED
      BY <3>2
  <2>2. ASSUME NEW k \in 1 .. Len(below)
        PROVE  \E i \in DOMAIN new : IsBullet(new[i]) /\ new[i] = below[k]
    <3>1. /\ k + Len(above) \in DOMAIN new
          /\ ~(k + Len(above) <= Len(above)) /\ (k + Len(above)) - Len(above) = k
      BY <1>5
    <3>2. new[k + Len(above)] = below[k]
      BY <1>4, <1>5, <3>1
    <3> QED
      BY <1>7, <3>1, <3>2
  <2> QED
    BY <2>1, <2>2 DEF Listed
<1>9. Listed(new) \subseteq all
  BY <1>7, <1>8
<1>10. CASE below = bullets
  <2>1. Listed(new) = all
    BY <1>1, <1>8, <1>10
  <2> QED
    BY <1>3, <2>1 DEF AlmostListed, all
<1>11. CASE below # bullets
  <2>1. /\ bullets # <<>> /\ Len(header) >= 2 /\ Len(above) = Len(header) - 1
        /\ above[Len(header) - 1] = Glued(bullets[1])
        /\ Len(below) = Len(bullets) - 1
        /\ \A j \in 1 .. Len(bullets) - 1 : below[j] = bullets[j + 1]
    BY <1>2, <1>11 DEF JoinedParts
  <2>2. new[Len(above)] = Glued(bullets[1]) /\ Len(above) \in DOMAIN new
    BY <1>4, <1>5, <2>1
  <2>3. ASSUME NEW bullet \in all, bullet # bullets[1] PROVE bullet \in Listed(new)
    <3>1. PICK i \in 1 .. Len(bullets) : bullet = bullets[i]
      BY <1>1
    <3>2. i - 1 \in 1 .. Len(bullets) - 1 /\ i - 1 \in 1 .. Len(below) /\ (i - 1) + 1 = i
      BY <1>5, <2>1, <2>3, <3>1
    <3>3. below[i - 1] = bullet
      BY <2>1, <3>1, <3>2
    <3> QED
      BY <1>8, <3>2, <3>3
  <2>4. \A bullet \in all \ Listed(new) : bullet = bullets[1]
    BY <2>3
  <2>5. AlmostListed(new, all)
    BY <1>9, <2>2, <2>4 DEF AlmostListed
  <2> QED
    BY <1>3, <2>5 DEF all
<1> QED
  BY <1>10, <1>11

-----------------------------------------------------------------------------
(***************************************************************************)
(* What a step does: it leaves files in the tree, with or without a        *)
(* commit of them, or moves a history and takes files from it.             *)
(***************************************************************************)
AllOperations == Operations \cup CutOperations

\* The entries a step leaves, and the index file, with the mark of the commit.
EntriesWritten(entries) ==
  \/ entries = EntriesIn(tree)
  \/ \E ops \in AllOperations, mayDelete \in BOOLEAN : \E left :
       /\ \A i \in DOMAIN left : left[i] \in {NoFile} \cup partial'
       /\ entries = Applied(ops, mayDelete, left).entries

IndexWritten(entries, file, by) ==
  \/ file = IndexIn(tree) /\ by = "nothing"
  \/ file = Rebuilt(IndexIn(tree), entries) /\ by \in {"applied", "nothing"}
  \/ /\ by \in Digests \ {<<>>} /\ file = WithHotBlock(IndexIn(tree), by)
     /\ Clean(by) \/ spoiled'
  \/ IsLines(file) /\ by = "nothing" /\ spoiled'
  \/ /\ file \in CutOff(Rebuilt(IndexIn(tree), entries)) /\ by = "nothing"
     /\ Hot(IndexIn(tree)) = <<>>

FilesMove ==
  \E entries, file, by :
    /\ EntriesWritten(entries) /\ IndexWritten(entries, file, by)
    /\ tree' = WithFiles(entries, file)
    /\ canonical' = canonical
    /\ \/ head' = Append(head, [tree |-> tree', by |-> by])
       \/ head' = head /\ (by # "nothing" => tree' = Git!TreeOf(head))

GitMove ==
  /\ <<head', canonical'>> \in {<<head, canonical>>, <<canonical, canonical>>, <<head, head>>}
  /\ IsTree(tree')
  /\ \A t \in Files :
       \/ tree'[t] = Git!TreeOf(head')[t]
       \/ tree'[t] = tree[t] /\ (head' # head =>
            Git!TreeOf(head)[t] = NoFile /\ Git!TreeOf(head')[t] = NoFile)
  /\ Git!IsAncestor(head, head') /\ Git!IsAncestor(canonical, canonical')

ProperTree(files) == IsTree(files) /\ IsFile(IndexIn(files))

ProperHistory(history) ==
  /\ IsSequence(history) /\ history # <<>>
  /\ \A i \in DOMAIN history : ProperTree(history[i].tree)

\* The trees of the directory and of all commits have entries, and an index with lines.
DirShape ==
  /\ ProperTree(tree)
  /\ ProperHistory(head) /\ ProperHistory(canonical)

LEMMA TipIsProper ==
  ASSUME NEW history, ProperHistory(history)
  PROVE  /\ Len(history) \in DOMAIN history
         /\ ProperTree(Git!TreeOf(history))
<1>1. PICK S : history \in Seq(S)
  BY DEF ProperHistory, IsSequence
<1>2. Len(history) \in Nat /\ Len(history) # 0 /\ DOMAIN history = 1 .. Len(history)
  BY <1>1, EmptySeq, LenProperties DEF ProperHistory
<1>3. Len(history) \in DOMAIN history
  BY <1>2
<1> QED
  BY <1>3 DEF ProperHistory, Git!TreeOf

\* The tree is its entries and its index.
LEMMA TreeOfFiles ==
  ASSUME IsTree(tree)
  PROVE  tree = WithFiles(EntriesIn(tree), IndexIn(tree))
<1>1. \A n \in Names : PathOf(n) # IndexPath /\ Base(PathOf(n)) = n
  BY EntryPath
<1>2. \A t \in Files : WithFiles(EntriesIn(tree), IndexIn(tree))[t] = tree[t]
  BY <1>1 DEF WithFiles, EntriesIn, IndexIn, Files, EntryPaths
<1>3. IsTree(WithFiles(EntriesIn(tree), IndexIn(tree)))
  BY WrittenFiles
<1> QED
  BY <1>2, <1>3 DEF IsTree

LEMMA AppliedEntries ==
  ASSUME NEW ops, NEW mayDelete, NEW left
  PROVE  /\ DOMAIN Applied(ops, mayDelete, left).entries = Names
         /\ IsFiniteSet(DOMAIN Applied(ops, mayDelete, left).entries)
<1>1. DOMAIN Applied(ops, mayDelete, left).entries = Names
  BY DEF Applied
<1> QED
  BY <1>1, MemoryAssumption

\* What ops-apply leaves, as the moves have it.
LEMMA ResultOfOps ==
  ASSUME NEW ops \in AllOperations, NEW mayDelete \in BOOLEAN, NEW left,
         \A i \in DOMAIN left : left[i] \in {NoFile} \cup partial'
  PROVE  \E file :
           /\ Result(Applied(ops, mayDelete, left)) =
                WithFiles(Applied(ops, mayDelete, left).entries, file)
           /\ EntriesWritten(Applied(ops, mayDelete, left).entries)
           /\ IndexWritten(Applied(ops, mayDelete, left).entries, file,
                           Mark(Applied(ops, mayDelete, left)))
           /\ IndexWritten(Applied(ops, mayDelete, left).entries, file, "nothing")
<1> DEFINE applied == Applied(ops, mayDelete, left)
<1> DEFINE needed == NeedsIndex(applied.changed, applied.gone)
<1> DEFINE file == IF needed THEN Rebuilt(IndexIn(tree), applied.entries) ELSE IndexIn(tree)
<1>1. EntriesWritten(applied.entries)
  BY DEF EntriesWritten
<1> HIDE DEF applied
<1>2. Result(applied) = WithFiles(applied.entries, file)
  BY DEF Result
<1>3. Mark(applied) = IF needed THEN "applied" ELSE "nothing"
  BY DEF Mark, NeedsIndex
<1> HIDE DEF needed
<1>4. IndexWritten(applied.entries, file, Mark(applied))
  BY <1>3 DEF IndexWritten
<1>5. IndexWritten(applied.entries, file, "nothing")
  BY DEF IndexWritten
<1> HIDE DEF file
<1>6. \E f : /\ Result(applied) = WithFiles(applied.entries, f)
             /\ EntriesWritten(applied.entries)
             /\ IndexWritten(applied.entries, f, Mark(applied))
             /\ IndexWritten(applied.entries, f, "nothing")
  BY <1>1, <1>2, <1>4, <1>5
<1> QED
  BY <1>6 DEF applied

LEMMA OpsStepMoves ==
  ASSUME DirShape, NEW ops \in Operations, NEW mayDelete \in BOOLEAN, NEW left,
         OpsStep(ops, mayDelete, left)
  PROVE  FilesMove /\ (spoiled => spoiled') /\ partial \subseteq partial'
<1> DEFINE applied == Applied(ops, mayDelete, left)
<1>0. /\ partial' = partial \cup ({left[i] : i \in DOMAIN left} \ {NoFile})
      /\ spoiled' = spoiled
  BY DEF OpsStep
<1>00. \A i \in DOMAIN left : left[i] \in {NoFile} \cup partial'
  BY <1>0
<1>1. PICK file :
        /\ Result(applied) = WithFiles(applied.entries, file)
        /\ EntriesWritten(applied.entries) /\ IndexWritten(applied.entries, file, Mark(applied))
  BY <1>00, ResultOfOps DEF AllOperations
<1>2. Git!CommitPathspec(Result(applied), Pathspec, Mark(applied))
  BY DEF OpsStep
<1> HIDE DEF applied
<1>3. IsTree(Result(applied))
  BY <1>1, WrittenFiles
<1>4. /\ tree' = Result(applied) /\ canonical' = canonical
      /\ \/ head' = head /\ tree' = Git!TreeOf(head)
         \/ head' = Append(head, [tree |-> tree', by |-> Mark(applied)])
  BY <1>2, <1>3, CommitOfMemory
<1> QED
  BY <1>0, <1>1, <1>4 DEF FilesMove

LEMMA OpsUncommittedMoves ==
  ASSUME DirShape, NEW ops \in CutOperations, NEW mayDelete \in BOOLEAN,
         OpsUncommitted(ops, mayDelete)
  PROVE  FilesMove
<1> DEFINE applied == Applied(ops, mayDelete, <<>>)
<1>1. PICK file :
        /\ Result(applied) = WithFiles(applied.entries, file)
        /\ EntriesWritten(applied.entries) /\ IndexWritten(applied.entries, file, "nothing")
  <2>1. \A i \in DOMAIN <<>> : <<>>[i] \in {NoFile} \cup partial'
    OBVIOUS
  <2> QED
    BY <2>1, ResultOfOps DEF AllOperations
<1>2. tree' = Result(applied) /\ head' = head /\ canonical' = canonical
  BY DEF OpsUncommitted, Git!CommitFails
<1> HIDE DEF applied
<1> QED
  BY <1>1, <1>2 DEF FilesMove

LEMMA SubmitFailsMoves ==
  ASSUME DirShape, NEW ops \in Operations, SubmitFails(ops)
  PROVE  FilesMove
<1> DEFINE applied == Applied(ops, TRUE, <<>>)
<1>1. EntriesWritten(applied.entries)
  <2>1. \A i \in DOMAIN <<>> : <<>>[i] \in {NoFile} \cup partial'
    OBVIOUS
  <2>2. ops \in AllOperations /\ TRUE \in BOOLEAN
    BY DEF AllOperations
  <2> QED
    BY <2>1, <2>2 DEF EntriesWritten
<1>2. tree' = WithFiles(applied.entries, IndexIn(tree)) /\ head' = head /\ canonical' = canonical
  BY DEF SubmitFails
<1> HIDE DEF applied
<1>3. IndexWritten(applied.entries, IndexIn(tree), "nothing")
  BY DEF IndexWritten
<1> QED
  BY <1>1, <1>2, <1>3 DEF FilesMove

LEMMA IndexFailsMoves ==
  ASSUME DirShape, NEW ops \in Operations, NEW mayDelete \in BOOLEAN, IndexFails(ops, mayDelete)
  PROVE  FilesMove
<1> DEFINE applied == Applied(ops, mayDelete, <<>>)
<1>1. /\ NeedsIndex(applied.changed, applied.gone) /\ head' = head /\ canonical' = canonical
      /\ \/ tree' = WithFiles(applied.entries, IndexIn(tree))
         \/ /\ \E file \in CutOff(IndexIn(Result(applied))) : tree' = WithFiles(applied.entries, file)
            /\ spoiled' = (spoiled \/ Hot(IndexIn(tree)) # <<>>)
  BY DEF IndexFails
<1>2. IsFiniteSet(DOMAIN applied.entries) /\ EntriesWritten(applied.entries)
  <2>1. \A i \in DOMAIN <<>> : <<>>[i] \in {NoFile} \cup partial'
    OBVIOUS
  <2>2. ops \in AllOperations
    BY DEF AllOperations
  <2> QED
    BY <2>1, <2>2, AppliedEntries DEF EntriesWritten
<1> HIDE DEF applied
<1>3. CASE tree' = WithFiles(applied.entries, IndexIn(tree))
  <2>1. IndexWritten(applied.entries, IndexIn(tree), "nothing")
    BY DEF IndexWritten
  <2> QED
    BY <1>1, <1>2, <1>3, <2>1 DEF FilesMove
<1>4. CASE /\ \E file \in CutOff(IndexIn(Result(applied))) : tree' = WithFiles(applied.entries, file)
           /\ spoiled' = (spoiled \/ Hot(IndexIn(tree)) # <<>>)
  <2>1. PICK file \in CutOff(IndexIn(Result(applied))) : tree' = WithFiles(applied.entries, file)
    BY <1>4
  <2>2. IndexIn(Result(applied)) = Rebuilt(IndexIn(tree), applied.entries)
    BY <1>1, WrittenFiles DEF Result
  <2>3. IsFile(IndexIn(tree))
    BY DEF DirShape, ProperTree
  <2>4. IsLines(file)
    BY <1>2, <2>2, <2>3, RebuiltFile, CutOffFile
  <2>5. IndexWritten(applied.entries, file, "nothing")
    BY <1>4, <2>2, <2>4 DEF IndexWritten
  <2> QED
    BY <1>1, <1>2, <2>1, <2>5 DEF FilesMove
<1> QED
  BY <1>1, <1>3, <1>4

LEMMA HotStepMoves ==
  ASSUME DirShape, NEW digest \in Digests, HotStep(digest)
  PROVE  FilesMove
<1> DEFINE written == digest # <<>> /\ digest \notin TooLarge
<1> DEFINE now == IF written THEN WithDigest(digest) ELSE tree
<1> DEFINE by == IF written THEN digest ELSE "nothing"
<1> DEFINE file == IF written THEN WithHotBlock(IndexIn(tree), digest) ELSE IndexIn(tree)
<1> DEFINE entries == EntriesIn(tree)
<1>1. Git!CommitPathspec(now, Pathspec, by) /\ spoiled' = (spoiled \/ (written /\ ~Clean(digest)))
  BY DEF HotStep
<1>2. IsTree(tree)
  BY DEF DirShape, ProperTree
<1>3. now = WithFiles(entries, file)
  <2>1. CASE written
    BY <2>1 DEF WithDigest
  <2>2. CASE ~written
    <3> HIDE DEF written, entries
    <3>1. tree = WithFiles(entries, IndexIn(tree))
      BY <1>2, TreeOfFiles DEF entries
    <3> QED
      BY <2>2, <3>1
  <2> QED
    BY <2>1, <2>2
<1>4. IndexWritten(entries, file, by)
  <2>1. CASE written
    <3>1. by \in Digests \ {<<>>} /\ file = WithHotBlock(IndexIn(tree), by) /\ by = digest
      BY <2>1
    <3>2. Clean(by) \/ spoiled'
      BY <1>1, <2>1, <3>1
    <3> HIDE DEF by, file, entries
    <3> QED
      BY <3>1, <3>2 DEF IndexWritten
  <2>2. CASE ~written
    <3>1. by = "nothing" /\ file = IndexIn(tree)
      BY <2>2
    <3> HIDE DEF by, file, entries
    <3> QED
      BY <3>1 DEF IndexWritten
  <2> QED
    BY <2>1, <2>2
<1>5. EntriesWritten(entries)
  BY DEF EntriesWritten
<1> HIDE DEF now, by, file, entries
<1>6. IsTree(now)
  BY <1>3, WrittenFiles
<1>7. /\ tree' = now /\ canonical' = canonical
      /\ \/ head' = head /\ tree' = Git!TreeOf(head)
         \/ head' = Append(head, [tree |-> tree', by |-> by])
  BY <1>1, <1>6, CommitOfMemory
<1> QED
  BY <1>3, <1>4, <1>5, <1>7 DEF FilesMove

LEMMA HotUncommittedMoves ==
  ASSUME DirShape, NEW digest \in Digests, HotUncommitted(digest)
  PROVE  FilesMove
<1> DEFINE entries == EntriesIn(tree)
<1>1. PICK k \in 1 .. Len(digest) : Git!CommitFails(WithDigest(SubSeq(digest, 1, k)), Pathspec)
  BY DEF HotUncommitted
<1> DEFINE part == SubSeq(digest, 1, k)
<1> DEFINE file == WithHotBlock(IndexIn(tree), part)
<1>2. tree' = WithFiles(entries, file) /\ head' = head /\ canonical' = canonical /\ spoiled'
  BY <1>1 DEF HotUncommitted, Git!CommitFails, WithDigest
<1>3. IsSequence(part)
  <2>1. IsSequence(digest)
    BY MemoryAssumption
  <2>2. Len(digest) \in Nat
    BY <2>1, SequenceLength
  <2>3. 1 \in 1 .. Len(digest) + 1 /\ k \in 1 - 1 .. Len(digest)
    BY <2>2
  <2> QED
    BY <2>1, <2>3, Cut
<1>4. IsLines(file)
  <2>1. IsFile(IndexIn(tree))
    BY DEF DirShape, ProperTree
  <2> HIDE DEF part
  <2> QED
    BY <1>3, <2>1, WithHotBlockFile
<1>5. EntriesWritten(entries)
  BY DEF EntriesWritten
<1> HIDE DEF file, entries
<1>6. IndexWritten(entries, file, "nothing")
  BY <1>2, <1>4 DEF IndexWritten
<1> QED
  BY <1>2, <1>5, <1>6 DEF FilesMove

LEMMA HotFailsMoves ==
  ASSUME DirShape, NEW digest \in Digests, HotFails(digest)
  PROVE  FilesMove
<1> DEFINE entries == EntriesIn(tree)
<1> DEFINE whole == WithHotBlock(IndexIn(tree), digest)
<1>1. PICK file \in CutOff(IndexIn(WithDigest(digest))) : tree' = WithFiles(entries, file)
  BY DEF HotFails
<1>2. head' = head /\ canonical' = canonical /\ spoiled'
  BY DEF HotFails
<1>3. IndexIn(WithDigest(digest)) = whole
  BY WrittenFiles DEF WithDigest
<1>4. IsLines(whole)
  <2>1. IsFile(IndexIn(tree))
    BY DEF DirShape, ProperTree
  <2>2. IsSequence(digest)
    BY MemoryAssumption
  <2> QED
    BY <2>1, <2>2, WithHotBlockFile
<1> HIDE DEF whole
<1>5. IsLines(file)
  BY <1>1, <1>3, <1>4, CutOffFile
<1>6. EntriesWritten(entries)
  BY DEF EntriesWritten
<1> HIDE DEF entries
<1>7. IndexWritten(entries, file, "nothing")
  BY <1>2, <1>5 DEF IndexWritten
<1> QED
  BY <1>1, <1>2, <1>6, <1>7 DEF FilesMove

LEMMA AncestorOfItself ==
  ASSUME NEW history, IsSequence(history)
  PROVE  Git!IsAncestor(history, history)
<1>1. PICK S : history \in Seq(S)
  BY DEF IsSequence
<1>2. Len(history) \in Nat /\ SubSeq(history, 1, Len(history)) = history
  BY <1>1
<1> QED
  BY <1>2 DEF Git!IsAncestor

LEMMA AncestorOfLonger ==
  ASSUME NEW history, IsSequence(history), NEW commit
  PROVE  Git!IsAncestor(history, Append(history, commit))
<1>1. PICK S : history \in Seq(S)
  BY DEF IsSequence
<1> DEFINE T == S \cup {commit}
<1>2. history \in Seq(T) /\ commit \in T
  BY <1>1, SeqMonotonic
<1> HIDE DEF T
<1>3. /\ Len(history) \in Nat
      /\ Len(history) <= Len(Append(history, commit))
      /\ SubSeq(Append(history, commit), 1, Len(history)) = history
  BY <1>2
<1> QED
  BY <1>3 DEF Git!IsAncestor

LEMMA GitStepMoves ==
  ASSUME DirShape, Git!EnsureWork \/ Git!Push
  PROVE  GitMove
<1>1. \A t \in Files : Git!TreeOf(head)[t] = Git!TreeOf(head)[t]
  OBVIOUS
<1>2. IsTree(tree) /\ IsTree(Git!TreeOf(head)) /\ IsTree(Git!TreeOf(canonical))
  BY TipIsProper DEF DirShape, ProperTree
<1>3. Git!IsAncestor(head, head) /\ Git!IsAncestor(canonical, canonical)
  BY AncestorOfItself DEF DirShape, ProperHistory
<1>4. CASE Git!EnsureWork /\ Git!IsAncestor(head, canonical)
  <2>1. /\ head' = canonical /\ canonical' = canonical
        /\ tree' = [t \in Files |->
                      IF NoFile = index[t] /\ NoFile = Git!TreeOf(head)[t] /\ NoFile = Git!TreeOf(canonical)[t]
                      THEN tree[t] ELSE Git!TreeOf(canonical)[t]]
    BY <1>4 DEF Git!EnsureWork, Git!ResetHard, Files
  <2>2. IsTree(tree')
    BY <2>1 DEF IsTree
  <2> QED
    BY <1>3, <1>4, <2>1, <2>2 DEF GitMove, Git!TreeOf
<1>5. CASE Git!EnsureWork /\ ~Git!IsAncestor(head, canonical)
  <2>1. head' = head /\ canonical' = canonical /\ tree' = Git!TreeOf(head)
    BY <1>5 DEF Git!EnsureWork
  <2>2. IsTree(tree')
    BY <1>2, <2>1
  <2> QED
    BY <1>3, <2>1, <2>2 DEF GitMove, Git!TreeOf
<1>6. CASE Git!Push
  <2>1. head' = head /\ canonical' = head /\ tree' = tree
    BY <1>6 DEF Git!Push
  <2>2. IsTree(tree')
    BY <1>2, <2>1
  <2> QED
    BY <1>3, <1>6, <2>1, <2>2 DEF GitMove, Git!Push, Git!CanPush
<1> QED
  BY <1>4, <1>5, <1>6

\* Every step of the memory is one of the two kinds.
LEMMA Moves ==
  ASSUME DirShape, Next
  PROVE  (FilesMove \/ GitMove) /\ (spoiled => spoiled') /\ partial \subseteq partial'
<1>1. CASE Step
  <2>1. CASE \E ops \in Operations, mayDelete \in BOOLEAN : OpsStep(ops, mayDelete, <<>>)
    BY <2>1, OpsStepMoves
  <2>2. CASE \E digest \in Digests : HotStep(digest)
    BY <2>2, HotStepMoves DEF HotStep
  <2>3. CASE (Git!EnsureWork \/ Git!Push) /\ UNCHANGED <<spoiled, partial>>
    BY <2>3, GitStepMoves
  <2> QED
    BY <1>1, <2>1, <2>2, <2>3 DEF Step
<1>2. CASE Fault
  <2> DEFINE Kept == FilesMove /\ (spoiled => spoiled') /\ partial \subseteq partial'
  <2>1. ASSUME NEW ops \in Operations, NEW mayDelete \in BOOLEAN, OpsWriteFails(ops, mayDelete)
        PROVE  Kept
    <3>1. \E left : OpsStep(ops, mayDelete, left)
      BY <2>1 DEF OpsWriteFails
    <3> QED
      BY <3>1, OpsStepMoves
  <2>2. ASSUME NEW ops \in Operations, NEW mayDelete \in BOOLEAN, IndexFails(ops, mayDelete)
        PROVE  Kept
    <3>1. /\ spoiled' = spoiled \/ spoiled' = (spoiled \/ Hot(IndexIn(tree)) # <<>>)
          /\ partial' = partial
      BY <2>2 DEF IndexFails
    <3>2. spoiled => spoiled'
      BY <3>1
    <3> QED
      BY <2>2, <3>1, <3>2, IndexFailsMoves
  <2>3. ASSUME NEW ops \in CutOperations, NEW mayDelete \in BOOLEAN, OpsUncommitted(ops, mayDelete)
        PROVE  Kept
    BY <2>3, OpsUncommittedMoves DEF OpsUncommitted
  <2>4. ASSUME NEW ops \in Operations, SubmitFails(ops)
        PROVE  Kept
    BY <2>4, SubmitFailsMoves DEF SubmitFails
  <2>5. ASSUME NEW digest \in Digests, HotUncommitted(digest)
        PROVE  Kept
    BY <2>5, HotUncommittedMoves DEF HotUncommitted
  <2>6. ASSUME NEW digest \in Digests, HotFails(digest)
        PROVE  Kept
    BY <2>6, HotFailsMoves DEF HotFails
  <2> HIDE DEF Kept
  <2>7. Kept
    BY <1>2, <2>1, <2>2, <2>3, <2>4, <2>5, <2>6 DEF Fault
  <2> QED
    BY <2>7 DEF Kept
<1> QED
  BY <1>1, <1>2 DEF Next

LEMMA MovedFiles ==
  ASSUME DirShape, NEW entries, NEW file, NEW by,
         EntriesWritten(entries), IndexWritten(entries, file, by)
  PROVE  ProperTree(WithFiles(entries, file))
<1>1. IsFiniteSet(DOMAIN entries)
  <2>1. CASE entries = EntriesIn(tree)
    <3>1. DOMAIN entries = Names
      BY <2>1 DEF EntriesIn
    <3> QED
      BY <3>1, MemoryAssumption
  <2>2. CASE entries # EntriesIn(tree)
    BY <2>2, AppliedEntries DEF EntriesWritten
  <2> QED
    BY <2>1, <2>2
<1>2. IsFile(IndexIn(tree))
  BY DEF DirShape, ProperTree
<1>3. /\ IsLines(Rebuilt(IndexIn(tree), entries))
      /\ \A cut \in CutOff(Rebuilt(IndexIn(tree), entries)) : IsLines(cut)
  BY <1>1, <1>2, RebuiltFile, CutOffFile
<1>4. by \in Digests => IsLines(WithHotBlock(IndexIn(tree), by))
  <2>1. ASSUME by \in Digests PROVE IsSequence(by)
    BY <2>1, MemoryAssumption
  <2> QED
    BY <1>2, <2>1, WithHotBlockFile
<1>5. IsFile(file)
  BY <1>2, <1>3, <1>4 DEF IndexWritten, IsFile
<1> QED
  BY <1>5, WrittenFiles DEF ProperTree

LEMMA InitShape ==
  ASSUME Init
  PROVE  DirShape
<1> DEFINE commit == [tree |-> [t \in Files |-> NoFile], by |-> "seed"]
<1>1. canonical = <<commit>> /\ head = <<commit>> /\ tree = Git!TreeOf(head)
  BY DEF Init, Git!Init, Files
<1>2. IsTree(commit.tree) /\ IndexIn(commit.tree) = NoFile
  BY DEF IsTree, Files, IndexIn
<1> DEFINE S == {commit}
<1>3. <<commit>> \in Seq(S) /\ Len(<<commit>>) = 1 /\ <<commit>>[1] = commit
  <2> HIDE DEF commit
  <2> QED
    OBVIOUS
<1> HIDE DEF commit, S
<1>4. IsSequence(<<commit>>)
  BY <1>3, SequenceOf
<1>5. DOMAIN <<commit>> = {1} /\ <<commit>> # <<>>
  BY <1>3
<1>6. ProperTree(commit.tree)
  BY <1>2 DEF ProperTree, IsFile
<1>7. ProperHistory(head) /\ ProperHistory(canonical)
  BY <1>1, <1>3, <1>4, <1>5, <1>6 DEF ProperHistory
<1>8. ProperTree(tree)
  BY <1>1, <1>7, TipIsProper
<1> QED
  BY <1>7, <1>8 DEF DirShape

LEMMA StepShape ==
  ASSUME DirShape, [Next]_vars
  PROVE  DirShape'
<1>1. CASE UNCHANGED vars
  BY <1>1 DEF vars, DirShape
<1>2. CASE FilesMove
  <2>1. PICK entries, file, by :
          /\ EntriesWritten(entries) /\ IndexWritten(entries, file, by)
          /\ tree' = WithFiles(entries, file)
          /\ canonical' = canonical
          /\ \/ head' = Append(head, [tree |-> tree', by |-> by])
             \/ head' = head
    BY <1>2 DEF FilesMove
  <2>2. ProperTree(tree')
    BY <2>1, MovedFiles
  <2>3. ProperHistory(head')
    <3> DEFINE commit == [tree |-> tree', by |-> by]
    <3>1. ProperTree(commit.tree)
      BY <2>2
    <3>2. CASE head' = Append(head, commit)
      <4> HIDE DEF commit
      <4>1. IsSequence(head)
        BY DEF DirShape, ProperHistory
      <4>2. /\ IsSequence(head') /\ head' # <<>>
            /\ DOMAIN head' = DOMAIN head \cup {Len(head) + 1}
            /\ \A i \in DOMAIN head : head'[i] = head[i]
            /\ head'[Len(head) + 1] = commit
        BY <3>2, <4>1, Longer
      <4> QED
        BY <3>1, <4>2 DEF DirShape, ProperHistory
    <3>3. CASE head' = head
      BY <3>3 DEF DirShape
    <3> QED
      BY <2>1, <3>2, <3>3
  <2>4. ProperHistory(canonical')
    BY <2>1 DEF DirShape
  <2> QED
    BY <2>2, <2>3, <2>4 DEF DirShape
<1>3. CASE GitMove
  <2>1. ProperHistory(head') /\ ProperHistory(canonical')
    BY <1>3 DEF GitMove, DirShape
  <2>2. ProperTree(Git!TreeOf(head'))
    BY <2>1, TipIsProper
  <2>3. IsFile(tree'[IndexPath])
    BY <1>3, <2>2 DEF GitMove, DirShape, ProperTree, IndexIn, Files
  <2>4. ProperTree(tree')
    BY <1>3, <2>3 DEF GitMove, ProperTree, IndexIn
  <2> QED
    BY <2>1, <2>4 DEF DirShape
<1> QED
  BY <1>1, <1>2, <1>3, Moves

\* The work directory holds, and every commit, the entries of the project and an
\* index that is a file of lines or not there, after any write that was cut off.
THEOREM MemoryShape == Spec => []DirShape
<1>1. Init => DirShape
  BY InitShape
<1>2. DirShape /\ [Next]_vars => DirShape'
  BY StepShape
<1> QED
  BY <1>1, <1>2, PTL DEF Spec

LEMMA HistoriesGrow ==
  ASSUME DirShape, Next
  PROVE  Git!IsAncestor(head, head') /\ Git!IsAncestor(canonical, canonical')
<1>1. /\ Git!IsAncestor(head, head) /\ Git!IsAncestor(canonical, canonical)
      /\ \A commit : Git!IsAncestor(head, Append(head, commit))
  BY AncestorOfItself, AncestorOfLonger DEF DirShape, ProperHistory
<1> QED
  BY <1>1, Moves DEF FilesMove, GitMove

\* The steps of the memory, those that fail in the middle included, and ensure-work
\* after them never take a commit out of the work directory or out of canonical.
THEOREM MemoryIsKept == Spec => Git!NoCommitIsLost
<1>1. DirShape /\ [Next]_vars =>
        [Git!IsAncestor(head, head') /\ Git!IsAncestor(canonical, canonical')]_Git!workVars
  BY HistoriesGrow DEF vars, Git!workVars
<1> QED
  BY <1>1, MemoryShape, PTL DEF Spec, Git!NoCommitIsLost

-----------------------------------------------------------------------------
(***************************************************************************)
(* The index lists the entries.                                            *)
(***************************************************************************)
ListsEntries(files) ==
  AlmostListed(IndexIn(files),
    {Bullet(n, EntriesIn(files)[n]) : n \in {m \in Names : EntriesIn(files)[m] # NoFile}})

ListedIn(history) == \A i \in DOMAIN history : history[i].by = "applied" => ListsEntries(history[i].tree)

\* A history comes back from canonical.git, so that it is said of both.
AllListed == ListedIn(head) /\ ListedIn(canonical)

LEMMA RebuiltListsEntries ==
  ASSUME DirShape, NEW entries, EntriesWritten(entries)
  PROVE  ListsEntries(WithFiles(entries, Rebuilt(IndexIn(tree), entries)))
<1> DEFINE new == WithFiles(entries, Rebuilt(IndexIn(tree), entries))
<1>1. DOMAIN entries = Names
  BY AppliedEntries DEF EntriesWritten, EntriesIn
<1>2. IsFiniteSet(DOMAIN entries)
  BY <1>1, MemoryAssumption
<1>3. IsFile(IndexIn(tree))
  BY DEF DirShape, ProperTree
<1>4. AlmostListed(IndexIn(new),
        {Bullet(n, entries[n]) : n \in {m \in DOMAIN entries : entries[m] # NoFile}})
  <2>1. IndexIn(new) = Rebuilt(IndexIn(tree), entries)
    BY WrittenFiles
  <2> HIDE DEF new
  <2> QED
    BY <1>2, <1>3, <2>1, RebuiltLists
<1>5. \A n \in Names : EntriesIn(new)[n] = entries[n]
  BY WrittenFiles
<1> HIDE DEF new
<1>6. {Bullet(n, entries[n]) : n \in {m \in DOMAIN entries : entries[m] # NoFile}} =
        {Bullet(n, EntriesIn(new)[n]) : n \in {m \in Names : EntriesIn(new)[m] # NoFile}}
  BY <1>1, <1>5
<1>7. ListsEntries(new)
  BY <1>4, <1>6 DEF ListsEntries
<1> QED
  BY <1>7 DEF new

\* Every index that an ops-apply with a change commits lists the entries that are
\* there, and a reset to canonical.git brings no other one.  After a write of an index
\* that was cut off in a line, one bullet may be at the end of that line.
THEOREM IndexAlwaysListsEntries == Spec => []IndexListsEntries
<1>1. Init => AllListed
  <2>1. ASSUME Init PROVE AllListed
    <3>1. canonical = << [tree |-> [t \in Files |-> NoFile], by |-> "seed"] >> /\ head = canonical
      BY <2>1 DEF Init, Git!Init, Files
    <3> QED
      BY <3>1 DEF AllListed, ListedIn
  <2> QED
    BY <2>1
<1>2. DirShape /\ AllListed /\ [Next]_vars => AllListed'
  <2> SUFFICES ASSUME DirShape, AllListed, [Next]_vars
               PROVE  AllListed'
    OBVIOUS
  <2>1. CASE UNCHANGED vars
    BY <2>1 DEF vars, AllListed
  <2>2. CASE FilesMove
    <3>1. PICK entries, file, by :
            /\ EntriesWritten(entries) /\ IndexWritten(entries, file, by)
            /\ tree' = WithFiles(entries, file)
            /\ canonical' = canonical
            /\ \/ head' = Append(head, [tree |-> tree', by |-> by])
               \/ head' = head
      BY <2>2 DEF FilesMove
    <3> DEFINE commit == [tree |-> tree', by |-> by]
    <3>2. by = "applied" => ListsEntries(tree')
      <4>1. ASSUME by = "applied" PROVE file = Rebuilt(IndexIn(tree), entries)
        BY <3>1, <4>1, MemoryAssumption DEF IndexWritten
      <4> QED
        BY <3>1, <4>1, RebuiltListsEntries
    <3>3. commit.by = "applied" => ListsEntries(commit.tree)
      BY <3>2
    <3>4. CASE head' = Append(head, commit)
      <4> HIDE DEF commit
      <4>1. IsSequence(head)
        BY DEF DirShape, ProperHistory
      <4>2. /\ DOMAIN head' = DOMAIN head \cup {Len(head) + 1}
            /\ \A i \in DOMAIN head : head'[i] = head[i]
            /\ head'[Len(head) + 1] = commit
        BY <3>4, <4>1, Longer
      <4>3. ListedIn(head')
        BY <3>3, <4>2 DEF AllListed, ListedIn
      <4> QED
        BY <3>1, <4>3 DEF AllListed
    <3>5. CASE head' = head
      BY <3>1, <3>5 DEF AllListed
    <3> QED
      BY <3>1, <3>4, <3>5
  <2>3. CASE GitMove
    BY <2>3 DEF GitMove, AllListed
  <2> QED
    BY <2>1, <2>2, <2>3, Moves
<1>3. AllListed => IndexListsEntries
  BY DEF AllListed, ListedIn, ListsEntries, AlmostListed, IndexListsEntries
<1> QED
  BY <1>1, <1>2, <1>3, MemoryShape, PTL DEF Spec

-----------------------------------------------------------------------------
(***************************************************************************)
(* What is read of an output.                                              *)
(***************************************************************************)

\* The parser has a state after every line.
LEMMA ParserRuns ==
  ASSUME NEW out, Len(out) \in Nat
  PROVE  After(out) =
           [k \in 0 .. Len(out) |-> IF k = 0 THEN Parser ELSE HandleLine(After(out)[k - 1], out[k])]
<1> DEFINE Runs(f, n) ==
             f = [k \in 0 .. n |-> IF k = 0 THEN Parser ELSE HandleLine(f[k - 1], out[k])]
<1> DEFINE stuck == {n \in 0 .. Len(out) : ~\E f : Runs(f, n)}
<1>1. ASSUME stuck # {} PROVE FALSE
  <2>1. stuck \in SUBSET (0 .. Len(out))
    OBVIOUS
  <2> HIDE DEF stuck
  <2>2. Min(stuck) \in stuck /\ \A n \in stuck : Min(stuck) <= n
    BY <1>1, <2>1, LeastIn
  <2>3. PICK m \in 0 .. Len(out) : m \in stuck /\ \A n \in stuck : m <= n
    BY <2>1, <2>2
  <2>4. CASE m = 0
    <3> DEFINE f == [k \in 0 .. m |-> Parser]
    <3>1. Runs(f, m)
      BY <2>4
    <3> QED
      BY <2>3, <3>1 DEF stuck
  <2>5. CASE m # 0
    <3>1. m - 1 \in 0 .. Len(out) /\ m - 1 \notin stuck
      BY <2>3, <2>5
    <3>2. PICK f : Runs(f, m - 1)
      <4> HIDE DEF Runs
      <4> QED
        BY <3>1 DEF stuck
    <3> DEFINE g == [k \in 0 .. m |-> IF k = m THEN HandleLine(f[m - 1], out[m]) ELSE f[k]]
    <3>3. ASSUME NEW k \in 0 .. m
          PROVE  g[k] = IF k = 0 THEN Parser ELSE HandleLine(g[k - 1], out[k])
      <4>1. CASE k = 0
        BY <2>3, <2>5, <3>2, <4>1
      <4>2. CASE k # 0 /\ k # m
        <5>1. k \in 0 .. m - 1 /\ k - 1 \in 0 .. m /\ k - 1 # m
          BY <2>3, <4>2
        <5>2. f[k] = HandleLine(f[k - 1], out[k])
          BY <3>2, <4>2, <5>1
        <5> QED
          BY <4>2, <5>1, <5>2
      <4>3. CASE k = m
        <5>1. k - 1 \in 0 .. m /\ k - 1 # m
          BY <2>3, <2>5, <4>3
        <5> QED
          BY <2>5, <4>3, <5>1
      <4> QED
        BY <4>1, <4>2, <4>3
    <3>4. g = [k \in 0 .. m |-> g[k]]
      OBVIOUS
    <3>5. Runs(g, m)
      <4> HIDE DEF g
      <4> QED
        BY <3>3, <3>4
    <3> QED
      BY <2>3, <3>5 DEF stuck
  <2> QED
    BY <2>4, <2>5
<1>2. \E f : Runs(f, Len(out))
  <2> HIDE DEF Runs
  <2> QED
    BY <1>1
<1>3. After(out) = CHOOSE f : Runs(f, Len(out))
  BY DEF After
<1> QED
  BY <1>2, <1>3

\* What a file of an output is.
IsPut(out, k, file) ==
  \E a, b \in 1 .. k : out[a][1] = "===FILE:" /\ out[b] = End /\ file = SubSeq(out, a + 1, b - 1)

\* The file that is being read.
IsOpen(out, k, lines) ==
  \E a \in 1 .. k : out[a][1] = "===FILE:" /\ lines = SubSeq(out, a + 1, k)

LinesOf(out) == {out[i] : i \in DOMAIN out}
NamesOf(out) == {line[2] : line \in LinesOf(out)} \cup {<<>>}
OpsOf(out)   == [name : NamesOf(out), content : Seq(LinesOf(out))]

Parsers(out) ==
  [block : {"none", "file", "proposal"}, name : NamesOf(out), lines : Seq(LinesOf(out)),
   files : Seq(OpsOf(out)), deletes : Seq(NamesOf(out)), proposals : Seq(OpsOf(out)),
   failed : BOOLEAN]

\* What the parser has after k lines.
HasRead(out, k, parser) ==
  /\ parser \in Parsers(out)
  /\ \A i \in DOMAIN parser.files : IsPut(out, k, parser.files[i].content)
  /\ ~parser.failed /\ parser.block = "file" => IsOpen(out, k, parser.lines)

LEMMA PutStays ==
  ASSUME NEW out, NEW k \in Nat, NEW file, IsPut(out, k, file)
  PROVE  IsPut(out, k + 1, file)
<1>1. 1 .. k \subseteq 1 .. k + 1
  OBVIOUS
<1> QED
  BY <1>1 DEF IsPut

LEMMA OneLineMore ==
  ASSUME NEW out, IsSequence(out), NEW k \in Nat, k + 1 \in DOMAIN out,
         NEW a \in 1 .. k
  PROVE  Append(SubSeq(out, a + 1, k), out[k + 1]) = SubSeq(out, a + 1, k + 1)
<1>1. Len(out) \in Nat /\ DOMAIN out = 1 .. Len(out)
  BY SequenceLength
<1>2. /\ a + 1 \in 1 .. Len(out) + 1 /\ k \in (a + 1) - 1 .. Len(out)
      /\ k + 1 \in (a + 1) - 1 .. Len(out)
  BY <1>1
<1> DEFINE short == SubSeq(out, a + 1, k)
<1> DEFINE long == SubSeq(out, a + 1, k + 1)
<1>3. /\ IsSequence(short) /\ Len(short) = k - (a + 1) + 1
      /\ \A i \in 1 .. k - (a + 1) + 1 : short[i] = out[(a + 1) + i - 1]
  BY <1>2, Cut
<1>4. /\ IsSequence(long) /\ Len(long) = (k + 1) - (a + 1) + 1
      /\ \A i \in 1 .. (k + 1) - (a + 1) + 1 : long[i] = out[(a + 1) + i - 1]
  BY <1>2, Cut
<1> HIDE DEF short, long
<1> DEFINE more == Append(short, out[k + 1])
<1>5. /\ IsSequence(more) /\ Len(more) = Len(short) + 1
      /\ \A i \in DOMAIN short : more[i] = short[i]
      /\ more[Len(short) + 1] = out[k + 1]
  BY <1>3, Longer
<1>6. DOMAIN short = 1 .. Len(short) /\ Len(short) = k - a /\ Len(long) = k - a + 1
  BY <1>1, <1>3, <1>4, SequenceLength
<1> HIDE DEF more
<1>7. ASSUME NEW i \in 1 .. Len(more) PROVE more[i] = long[i]
  <2>1. CASE i \in 1 .. k - a
    BY <1>1, <1>3, <1>4, <1>5, <1>6, <2>1
  <2>2. CASE i = k - a + 1
    BY <1>1, <1>3, <1>4, <1>5, <1>6, <2>2
  <2> QED
    BY <1>5, <1>6, <2>1, <2>2
<1>8. more = long
  BY <1>4, <1>5, <1>6, <1>7, SequencesEqual
<1> QED
  BY <1>8 DEF more, short, long

LEMMA ParserStarts ==
  ASSUME NEW out, NEW k
  PROVE  HasRead(out, k, Parser)
<1>1. Parser \in Parsers(out) /\ Parser.files = <<>> /\ Parser.block = "none"
  BY DEF Parser, Parsers, NamesOf
<1> QED
  BY <1>1 DEF HasRead

\* A line more.
LEMMA ParserReads ==
  ASSUME NEW out, IsSequence(out), NEW k \in Nat, k + 1 \in DOMAIN out,
         NEW parser, HasRead(out, k, parser)
  PROVE  HasRead(out, k + 1, HandleLine(parser, out[k + 1]))
<1> DEFINE line == out[k + 1]
<1> DEFINE next == HandleLine(parser, line)
<1> SUFFICES HasRead(out, k + 1, next)
  OBVIOUS
<1>1. /\ line \in LinesOf(out) /\ line[2] \in NamesOf(out)
      /\ k + 1 \in 1 .. k + 1 /\ <<>> \in Seq(LinesOf(out))
  BY DEF LinesOf, NamesOf
<1>2. parser \in Parsers(out)
  BY DEF HasRead
<1>3. \A i \in DOMAIN parser.files : IsPut(out, k + 1, parser.files[i].content)
  BY PutStays DEF HasRead
<1>4. /\ parser.block \in {"none", "file", "proposal"} /\ parser.name \in NamesOf(out)
      /\ parser.lines \in Seq(LinesOf(out)) /\ parser.files \in Seq(OpsOf(out))
      /\ parser.deletes \in Seq(NamesOf(out)) /\ parser.proposals \in Seq(OpsOf(out))
      /\ parser.failed \in BOOLEAN
  BY <1>2 DEF Parsers
<1> DEFINE op == [name |-> parser.name, content |-> parser.lines]
<1>5. op \in OpsOf(out) /\ op.content = parser.lines
  BY <1>4 DEF OpsOf
<1>6. next.files = parser.files /\ next \in Parsers(out)
        /\ (~next.failed /\ next.block = "file" => IsOpen(out, k + 1, next.lines))
        => HasRead(out, k + 1, next)
  BY <1>3 DEF HasRead
<1> HIDE DEF op
<1>7. CASE parser.failed
  <2>1. next = parser
    BY <1>7 DEF HandleLine
  <2> HIDE DEF next
  <2> QED
    BY <1>2, <1>6, <1>7, <2>1
<1>8. CASE ~parser.failed /\ parser.block # "none" /\ line # End
  <2>1. next = [parser EXCEPT !.lines = Append(@, line)]
    BY <1>8 DEF HandleLine, InBlock
  <2> HIDE DEF next, line
  <2>2. Append(parser.lines, line) \in Seq(LinesOf(out))
    BY <1>1, <1>4, AppendProperties
  <2>3. next \in Parsers(out) /\ next.files = parser.files /\ next.block = parser.block
          /\ next.lines = Append(parser.lines, line) /\ next.failed = parser.failed
    BY <1>2, <2>1, <2>2 DEF Parsers
  <2>4. ASSUME parser.block = "file" PROVE IsOpen(out, k + 1, next.lines)
    <3>1. IsOpen(out, k, parser.lines)
      BY <1>8, <2>4 DEF HasRead
    <3>2. PICK a \in 1 .. k : out[a][1] = "===FILE:" /\ parser.lines = SubSeq(out, a + 1, k)
      BY <3>1 DEF IsOpen
    <3>3. next.lines = SubSeq(out, a + 1, k + 1)
      BY <2>3, <3>2, OneLineMore DEF line
    <3>4. a \in 1 .. k + 1
      OBVIOUS
    <3> QED
      BY <3>2, <3>3, <3>4 DEF IsOpen
  <2> QED
    BY <1>6, <2>3, <2>4
<1>9. CASE ~parser.failed /\ parser.block = "file" /\ line = End
  <2>1. next = [parser EXCEPT !.block = "none", !.files = Append(@, op)]
    BY <1>9 DEF HandleLine, InBlock, op
  <2> HIDE DEF next, line
  <2>2. /\ Append(parser.files, op) \in Seq(OpsOf(out))
        /\ Len(Append(parser.files, op)) = Len(parser.files) + 1
        /\ \A i \in 1 .. Len(parser.files) : Append(parser.files, op)[i] = parser.files[i]
        /\ Append(parser.files, op)[Len(parser.files) + 1] = op
    BY <1>4, <1>5, AppendProperties
  <2>3. next \in Parsers(out) /\ next.files = Append(parser.files, op) /\ next.block = "none"
    BY <1>2, <2>1, <2>2 DEF Parsers
  <2>4. IsPut(out, k + 1, op.content)
    <3>1. PICK a \in 1 .. k : out[a][1] = "===FILE:" /\ parser.lines = SubSeq(out, a + 1, k)
      BY <1>9 DEF HasRead, IsOpen
    <3>2. a \in 1 .. k + 1 /\ (k + 1) - 1 = k
      OBVIOUS
    <3>3. out[k + 1] = End
      BY <1>9 DEF line
    <3> QED
      BY <1>1, <1>5, <3>1, <3>2, <3>3 DEF IsPut
  <2>5. ASSUME NEW i \in DOMAIN next.files PROVE IsPut(out, k + 1, next.files[i].content)
    <3>1. /\ DOMAIN parser.files = 1 .. Len(parser.files) /\ Len(parser.files) \in Nat
          /\ DOMAIN next.files = 1 .. Len(parser.files) + 1
      BY <1>4, <2>2, <2>3, LenProperties
    <3>2. CASE i \in DOMAIN parser.files
      BY <1>3, <2>2, <2>3, <3>1, <3>2
    <3>3. CASE i = Len(parser.files) + 1
      BY <2>2, <2>3, <2>4, <3>3
    <3> QED
      BY <3>1, <3>2, <3>3
  <2> QED
    BY <2>3, <2>5 DEF HasRead
<1>10. CASE ~parser.failed /\ parser.block = "proposal" /\ line = End
  <2>1. next = [parser EXCEPT !.block = "none", !.proposals = Append(@, op)]
    BY <1>10 DEF HandleLine, InBlock, op
  <2> HIDE DEF next, line
  <2>2. Append(parser.proposals, op) \in Seq(OpsOf(out))
    BY <1>4, <1>5, AppendProperties
  <2>3. next \in Parsers(out) /\ next.files = parser.files /\ next.block = "none"
    BY <1>2, <2>1, <2>2 DEF Parsers
  <2> QED
    BY <1>6, <2>3
<1>11. CASE ~parser.failed /\ parser.block = "none"
  <2>1. next = TopLevel(parser, line)
    BY <1>11 DEF HandleLine
  <2> HIDE DEF next
  <2> DEFINE marker == line[1] \in {"===FILE:", "===PROPOSAL:", "===DELETE:"}
  <2>2. CASE marker /\ line[2] = <<>>
    <3>1. next = [parser EXCEPT !.failed = TRUE]
      BY <2>1, <2>2 DEF TopLevel
    <3>2. next \in Parsers(out) /\ next.files = parser.files /\ next.failed
      BY <1>2, <3>1 DEF Parsers
    <3> QED
      BY <1>6, <3>2
  <2>3. CASE line[1] = "===FILE:" /\ line[2] # <<>>
    <3>1. next = [parser EXCEPT !.block = "file", !.name = line[2], !.lines = <<>>]
      BY <2>1, <2>3 DEF TopLevel, Open
    <3>2. SubSeq(out, (k + 1) + 1, k + 1) = <<>>
      BY SubSeqEmpty
    <3>3. out[k + 1][1] = "===FILE:"
      BY <2>3
    <3> HIDE DEF line
    <3>4. next \in Parsers(out) /\ next.files = parser.files /\ next.lines = <<>>
      BY <1>1, <1>2, <3>1 DEF Parsers
    <3>5. IsOpen(out, k + 1, next.lines)
      BY <1>1, <3>2, <3>3, <3>4 DEF IsOpen
    <3> QED
      BY <1>6, <3>4, <3>5
  <2>4. CASE line[1] = "===PROPOSAL:" /\ line[2] # <<>>
    <3>1. next = [parser EXCEPT !.block = "proposal", !.name = line[2], !.lines = <<>>]
      BY <2>1, <2>4 DEF TopLevel, Open
    <3> HIDE DEF line
    <3>2. next \in Parsers(out) /\ next.files = parser.files /\ next.block = "proposal"
      BY <1>1, <1>2, <3>1 DEF Parsers
    <3> QED
      BY <1>6, <3>2
  <2>5. CASE line[1] = "===DELETE:" /\ line[2] # <<>>
    <3>1. next = [parser EXCEPT !.deletes = Append(@, line[2])]
      BY <2>1, <2>5 DEF TopLevel
    <3> HIDE DEF line
    <3>2. Append(parser.deletes, line[2]) \in Seq(NamesOf(out))
      BY <1>1, <1>4, AppendProperties
    <3>3. next \in Parsers(out) /\ next.files = parser.files /\ next.block = "none"
      BY <1>2, <1>11, <3>1, <3>2 DEF Parsers
    <3> QED
      BY <1>6, <3>3
  <2>6. CASE ~marker
    <3>1. next = parser
      BY <2>1, <2>6 DEF TopLevel
    <3> QED
      BY <1>2, <1>6, <1>11, <3>1
  <2> QED
    BY <2>2, <2>3, <2>4, <2>5, <2>6
<1> QED
  BY <1>4, <1>7, <1>8, <1>9, <1>10, <1>11

\* The parser is right after every line.
LEMMA ParserReadsAll ==
  ASSUME NEW out, IsSequence(out)
  PROVE  \A k \in 0 .. Len(out) : HasRead(out, k, After(out)[k])
<1>1. Len(out) \in Nat /\ DOMAIN out = 1 .. Len(out)
  BY SequenceLength
<1> DEFINE after == After(out)
<1>2. \A k \in 0 .. Len(out) :
        after[k] = IF k = 0 THEN Parser ELSE HandleLine(after[k - 1], out[k])
  <2>1. after = [k \in 0 .. Len(out) |-> IF k = 0 THEN Parser ELSE HandleLine(after[k - 1], out[k])]
    BY <1>1, ParserRuns
  <2> HIDE DEF after
  <2> QED
    BY <2>1
<1> HIDE DEF after
<1> DEFINE wrong == {k \in 0 .. Len(out) : ~HasRead(out, k, after[k])}
<1>3. ASSUME wrong # {} PROVE FALSE
  <2>1. wrong \in SUBSET (0 .. Len(out))
    OBVIOUS
  <2> HIDE DEF wrong
  <2>2. PICK m \in 0 .. Len(out) : m \in wrong /\ \A n \in wrong : m <= n
    BY <1>1, <1>3, <2>1, LeastIn
  <2>3. m # 0
    BY <1>1, <1>2, <2>2, ParserStarts DEF wrong
  <2>4. m - 1 \in 0 .. Len(out) /\ m - 1 \notin wrong /\ m - 1 \in Nat /\ (m - 1) + 1 = m
    BY <2>2, <2>3
  <2>5. HasRead(out, m - 1, after[m - 1])
    BY <2>4 DEF wrong
  <2>6. (m - 1) + 1 \in DOMAIN out
    BY <1>1, <2>2, <2>3
  <2>7. HasRead(out, (m - 1) + 1, HandleLine(after[m - 1], out[(m - 1) + 1]))
    BY <2>4, <2>5, <2>6, ParserReads
  <2>8. HasRead(out, m, after[m])
    BY <1>2, <2>3, <2>4, <2>7
  <2> QED
    BY <2>2, <2>8 DEF wrong
<1> QED
  BY <1>3 DEF after

LEMMA ParsedFiles ==
  ASSUME NEW out, IsSequence(out)
  PROVE  /\ IsSequence(Parse(out).files)
         /\ \A i \in DOMAIN Parse(out).files : IsPut(out, Len(out), Parse(out).files[i].content)
<1> DEFINE read == After(out)[Len(out)]
<1>1. Len(out) \in 0 .. Len(out)
  BY SequenceLength
<1>2. HasRead(out, Len(out), read)
  BY <1>1, ParserReadsAll
<1>3. Parse(out) = [read EXCEPT !.failed = @ \/ read.block # "none"]
  BY DEF Parse
<1> HIDE DEF read
<1>4. read.files \in Seq(OpsOf(out)) /\ Parse(out).files = read.files
  BY <1>2, <1>3 DEF HasRead, Parsers
<1>5. IsSequence(read.files)
  BY <1>4, SequenceOf
<1> QED
  BY <1>2, <1>4, <1>5 DEF HasRead

\* A file of an output that is cut off is a file of the whole output.
LEMMA PutBeforeCut ==
  ASSUME NEW out, IsSequence(out), NEW k \in DOMAIN out, NEW file,
         IsPut(SubSeq(out, 1, k), Len(SubSeq(out, 1, k)), file)
  PROVE  IsPut(out, Len(out), file)
<1> DEFINE cut == SubSeq(out, 1, k)
<1>1. Len(out) \in Nat /\ DOMAIN out = 1 .. Len(out)
  BY SequenceLength
<1>2. IsSequence(cut) /\ Len(cut) = k /\ \A i \in 1 .. k : cut[i] = out[i]
  <2>1. 1 \in 1 .. Len(out) + 1 /\ k \in 1 - 1 .. Len(out)
    BY <1>1
  <2>2. /\ IsSequence(cut) /\ Len(cut) = k - 1 + 1
        /\ \A i \in 1 .. k - 1 + 1 : cut[i] = out[1 + i - 1]
    BY <2>1, Cut
  <2> HIDE DEF cut
  <2> QED
    BY <1>1, <2>2
<1>3. PICK a \in 1 .. Len(cut) : \E b \in 1 .. Len(cut) :
        cut[a][1] = "===FILE:" /\ cut[b] = End /\ file = SubSeq(cut, a + 1, b - 1)
  BY DEF IsPut
<1>4. PICK b \in 1 .. Len(cut) :
        cut[a][1] = "===FILE:" /\ cut[b] = End /\ file = SubSeq(cut, a + 1, b - 1)
  BY <1>3
<1> HIDE DEF cut
<1>5. /\ a \in 1 .. k /\ b \in 1 .. k /\ a \in 1 .. Len(out) /\ b \in 1 .. Len(out)
      /\ out[a][1] = "===FILE:" /\ out[b] = End
  BY <1>1, <1>2, <1>4
<1>6. SubSeq(cut, a + 1, b - 1) = SubSeq(out, a + 1, b - 1)
  <2>1. CASE b < a
    <3>1. a + 1 \in Int /\ b - 1 \in Int /\ b - 1 < a + 1
      BY <1>5, <2>1
    <3> QED
      BY <3>1, SubSeqEmpty
  <2>2. CASE b >= a
    <3>1. a # b
      <4>1. End[1] # "===FILE:"
        BY DEF End
      <4> QED
        BY <1>5, <4>1
    <3>2. /\ a + 1 \in 1 .. Len(cut) + 1 /\ b - 1 \in (a + 1) - 1 .. Len(cut)
          /\ a + 1 \in 1 .. Len(out) + 1 /\ b - 1 \in (a + 1) - 1 .. Len(out)
      BY <1>1, <1>2, <1>5, <2>2, <3>1
    <3> DEFINE n == (b - 1) - (a + 1) + 1
    <3>3. /\ IsSequence(SubSeq(cut, a + 1, b - 1)) /\ Len(SubSeq(cut, a + 1, b - 1)) = n
          /\ \A i \in 1 .. n : SubSeq(cut, a + 1, b - 1)[i] = cut[(a + 1) + i - 1]
      BY <1>2, <3>2, Cut
    <3>4. /\ IsSequence(SubSeq(out, a + 1, b - 1)) /\ Len(SubSeq(out, a + 1, b - 1)) = n
          /\ \A i \in 1 .. n : SubSeq(out, a + 1, b - 1)[i] = out[(a + 1) + i - 1]
      BY <3>2, Cut
    <3>5. \A i \in 1 .. n : (a + 1) + i - 1 \in 1 .. k
      BY <1>1, <1>5, <2>2, <3>1
    <3> HIDE DEF n
    <3>6. \A i \in 1 .. n : SubSeq(cut, a + 1, b - 1)[i] = SubSeq(out, a + 1, b - 1)[i]
      BY <1>2, <3>3, <3>4, <3>5
    <3> QED
      BY <3>3, <3>4, <3>6, SequencesEqual
  <2> QED
    BY <1>5, <2>1, <2>2
<1> QED
  BY <1>4, <1>5, <1>6 DEF IsPut

LEMMA PutByModel ==
  ASSUME NEW out \in Outputs, NEW file, IsPut(out, Len(out), file)
  PROVE  PutOut(file)
<1>1. DOMAIN out = 1 .. Len(out)
  BY MemoryAssumption, SequenceLength
<1>2. PICK a \in 1 .. Len(out) : \E b \in 1 .. Len(out) :
        out[a][1] = "===FILE:" /\ out[b] = End /\ file = SubSeq(out, a + 1, b - 1)
  BY DEF IsPut
<1> QED
  BY <1>1, <1>2 DEF PutOut

\* The files of all operations are files the model has put out in full.
LEMMA OperationsArePut ==
  ASSUME NEW ops \in AllOperations
  PROVE  IsSequence(ops.files) /\ \A i \in DOMAIN ops.files : PutOut(ops.files[i].content)
<1>1. CASE \E out \in Outputs : ops = Parse(out)
  <2>1. PICK out \in Outputs : ops = Parse(out)
    BY <1>1
  <2>2. IsSequence(out)
    BY MemoryAssumption
  <2> QED
    BY <2>1, <2>2, ParsedFiles, PutByModel
<1>2. CASE \E out \in Outputs : \E k \in DOMAIN out : ops = Parse(SubSeq(out, 1, k))
  <2>1. PICK out \in Outputs : \E k \in DOMAIN out : ops = Parse(SubSeq(out, 1, k))
    BY <1>2
  <2>2. PICK k \in DOMAIN out : ops = Parse(SubSeq(out, 1, k))
    BY <2>1
  <2>3. IsSequence(out)
    BY MemoryAssumption
  <2>4. IsSequence(SubSeq(out, 1, k))
    <3>1. Len(out) \in Nat /\ DOMAIN out = 1 .. Len(out)
      BY <2>3, SequenceLength
    <3>2. 1 \in 1 .. Len(out) + 1 /\ k \in 1 - 1 .. Len(out)
      BY <3>1
    <3> QED
      BY <2>3, <3>2, Cut
  <2>5. /\ IsSequence(ops.files)
        /\ \A i \in DOMAIN ops.files :
             IsPut(SubSeq(out, 1, k), Len(SubSeq(out, 1, k)), ops.files[i].content)
    BY <2>2, <2>4, ParsedFiles
  <2>6. \A i \in DOMAIN ops.files : IsPut(out, Len(out), ops.files[i].content)
    BY <2>3, <2>5, PutBeforeCut
  <2> QED
    BY <2>5, <2>6, PutByModel
<1>3. (\E out \in Outputs : ops = Parse(out))
        \/ (\E out \in Outputs : \E k \in DOMAIN out : ops = Parse(SubSeq(out, 1, k)))
  BY DEF AllOperations, Operations, CutOperations
<1> QED
  BY <1>1, <1>2, <1>3

-----------------------------------------------------------------------------
(***************************************************************************)
(* The entries are files that the model put out and the guardrails accept. *)
(***************************************************************************)
Whole(entry, torn) ==
  entry \notin {NoFile} \cup torn =>
    PutOut(entry) /\ ValidFrontmatter(entry) /\ ~HasSecret(entry)

WholeIn(files) == \A n \in Names : Whole(EntriesIn(files)[n], partial)

\* In the work directory and in all commits.
AllWhole ==
  /\ WholeIn(tree)
  /\ \A i \in DOMAIN head : WholeIn(head[i].tree)
  /\ \A i \in DOMAIN canonical : WholeIn(canonical[i].tree)

LEMMA AppliedAreWhole ==
  ASSUME WholeIn(tree), partial \subseteq partial',
         NEW entries, EntriesWritten(entries), NEW n \in Names
  PROVE  Whole(entries[n], partial')
<1>1. CASE entries = EntriesIn(tree)
  <2>1. Whole(entries[n], partial)
    BY <1>1 DEF WholeIn
  <2> QED
    BY <2>1 DEF Whole
<1>2. CASE \E ops \in AllOperations, mayDelete \in BOOLEAN : \E left :
             /\ \A i \in DOMAIN left : left[i] \in {NoFile} \cup partial'
             /\ entries = Applied(ops, mayDelete, left).entries
  <2>1. PICK ops \in AllOperations, mayDelete \in BOOLEAN : \E left :
             /\ \A i \in DOMAIN left : left[i] \in {NoFile} \cup partial'
             /\ entries = Applied(ops, mayDelete, left).entries
    BY <1>2
  <2>2. PICK left : /\ \A i \in DOMAIN left : left[i] \in {NoFile} \cup partial'
                    /\ entries = Applied(ops, mayDelete, left).entries
    BY <2>1
  <2> DEFINE old == EntriesIn(tree)
  <2> DEFINE written == FilesApplied(old, ops.files, left)
  <2>3. entries[n] \in {NoFile, written[n]}
    BY <2>2 DEF Applied
  <2> DEFINE writes == {i \in DOMAIN ops.files :
                          /\ Normalized(ops.files[i].name) = n /\ Acceptable(ops.files[i])
                          /\ i \in DOMAIN left => left[i] # NoFile}
  <2>4. written[n] = CASE writes = {} -> old[n]
                       [] writes # {} /\ Max(writes) \in DOMAIN left -> left[Max(writes)]
                       [] OTHER -> ops.files[Max(writes)].content
    BY DEF FilesApplied
  <2>5. Whole(old[n], partial')
    <3>1. Whole(old[n], partial)
      BY DEF WholeIn
    <3> QED
      BY <3>1 DEF Whole
  <2>6. writes # {} => Max(writes) \in writes
    <3>1. Len(ops.files) \in Nat /\ DOMAIN ops.files = 1 .. Len(ops.files)
      BY OperationsArePut, SequenceLength
    <3>2. writes \in SUBSET (1 .. Len(ops.files))
      BY <3>1
    <3> HIDE DEF writes
    <3> QED
      BY <3>1, <3>2, GreatestIn
  <2>7. ASSUME NEW i \in writes PROVE Whole(ops.files[i].content, partial')
    BY OperationsArePut DEF Whole, Acceptable
  <2> HIDE DEF writes, written
  <2>8. CASE writes = {}
    BY <2>3, <2>4, <2>5, <2>8 DEF Whole
  <2>9. CASE writes # {} /\ Max(writes) \in DOMAIN left
    <3>1. entries[n] \in {NoFile} \cup partial'
      BY <2>2, <2>3, <2>4, <2>9
    <3> QED
      BY <3>1 DEF Whole
  <2>10. CASE writes # {} /\ Max(writes) \notin DOMAIN left
    BY <2>3, <2>4, <2>6, <2>7, <2>10 DEF Whole
  <2> QED
    BY <2>8, <2>9, <2>10
<1> QED
  BY <1>1, <1>2 DEF EntriesWritten

\* What is whole now is whole when more writes have failed.
Later(files) == \A n \in Names : Whole(EntriesIn(files)[n], partial')

LEMMA StillWhole ==
  ASSUME partial \subseteq partial', NEW files, WholeIn(files)
  PROVE  Later(files)
BY DEF Later, WholeIn, Whole

LEMMA WholeLater ==
  ASSUME Later(tree'),
         \A i \in DOMAIN head' : Later(head'[i].tree),
         \A i \in DOMAIN canonical' : Later(canonical'[i].tree)
  PROVE  AllWhole'
BY DEF Later, AllWhole, WholeIn, Whole, EntriesIn

\* Every entry that is committed is a file the model put out in full and that passed
\* the guardrails, or what the write of one that failed has left of it.
THEOREM EntriesAlwaysWhole == Spec => []EntriesAreWhole
<1>1. Init => AllWhole
  <2>1. ASSUME Init PROVE AllWhole
    <3> DEFINE seed == [t \in Files |-> NoFile]
    <3>1. canonical = << [tree |-> seed, by |-> "seed"] >> /\ head = canonical /\ tree = seed
      BY <2>1 DEF Init, Git!Init, Git!TreeOf, Files
    <3>2. \A n \in Names : EntriesIn(seed)[n] = NoFile
      BY EntryPath DEF EntriesIn, Files
    <3>3. WholeIn(seed)
      BY <3>2 DEF WholeIn, Whole
    <3> QED
      BY <3>1, <3>3 DEF AllWhole
  <2> QED
    BY <2>1
<1>2. DirShape /\ AllWhole /\ [Next]_vars => AllWhole'
  <2> SUFFICES ASSUME DirShape, AllWhole, [Next]_vars
               PROVE  AllWhole'
    OBVIOUS
  <2>0. partial \subseteq partial'
    BY Moves DEF vars
  <2>1. CASE UNCHANGED vars
    BY <2>1 DEF vars, AllWhole, WholeIn, Whole, EntriesIn
  <2>2. CASE FilesMove
    <3>1. PICK entries, file, by :
            /\ EntriesWritten(entries)
            /\ tree' = WithFiles(entries, file)
            /\ canonical' = canonical
            /\ \/ head' = Append(head, [tree |-> tree', by |-> by])
               \/ head' = head
      BY <2>2 DEF FilesMove
    <3>0. partial \subseteq partial'
      BY <2>0
    <3> DEFINE commit == [tree |-> tree', by |-> by]
    <3>2. Later(tree')
      <4>1. \A n \in Names : Whole(entries[n], partial')
        BY <3>0, <3>1, AppliedAreWhole DEF AllWhole
      <4> QED
        BY <3>1, <4>1, WrittenFiles DEF Later
    <3>3. Later(commit.tree)
      BY <3>2
    <3>30. \A i \in DOMAIN head : Later(head[i].tree)
      BY <3>0, StillWhole DEF AllWhole
    <3>31. \A i \in DOMAIN canonical : Later(canonical[i].tree)
      BY <3>0, StillWhole DEF AllWhole
    <3>4. \A i \in DOMAIN head' : Later(head'[i].tree)
      <4>1. CASE head' = Append(head, commit)
        <5> HIDE DEF commit
        <5>1. IsSequence(head)
          BY DEF DirShape, ProperHistory
        <5>2. /\ DOMAIN head' = DOMAIN head \cup {Len(head) + 1}
              /\ \A i \in DOMAIN head : head'[i] = head[i]
              /\ head'[Len(head) + 1] = commit
          BY <4>1, <5>1, Longer
        <5> QED
          BY <3>3, <3>30, <5>2
      <4>2. CASE head' = head
        BY <3>30, <4>2
      <4> QED
        BY <3>1, <4>1, <4>2
    <3>5. Later(tree')
      BY <3>3
    <3> QED
      BY <3>1, <3>31, <3>4, <3>5, WholeLater
  <2>3. CASE GitMove
    <3>0. partial \subseteq partial'
      BY <2>0
    <3>1. /\ \A i \in DOMAIN head' : WholeIn(head'[i].tree)
          /\ \A i \in DOMAIN canonical' : WholeIn(canonical'[i].tree)
      BY <2>3 DEF GitMove, AllWhole
    <3>2. WholeIn(Git!TreeOf(head'))
      <4>1. ProperHistory(head')
        BY <2>3 DEF GitMove, DirShape
      <4> QED
        BY <3>1, <4>1, TipIsProper DEF Git!TreeOf
    <3>3. ASSUME NEW n \in Names PROVE Whole(EntriesIn(tree')[n], partial)
      <4>1. PathOf(n) \in Files
        BY EntryPath DEF Files
      <4>2. tree'[PathOf(n)] \in {Git!TreeOf(head')[PathOf(n)], tree[PathOf(n)]}
        BY <2>3, <4>1 DEF GitMove
      <4>3. /\ Whole(Git!TreeOf(head')[PathOf(n)], partial)
            /\ Whole(tree[PathOf(n)], partial)
        BY <3>2 DEF WholeIn, EntriesIn, AllWhole
      <4> QED
        BY <4>2, <4>3 DEF EntriesIn
    <3>4. WholeIn(tree')
      BY <3>3 DEF WholeIn
    <3>5. /\ Later(tree') /\ \A i \in DOMAIN head' : Later(head'[i].tree)
          /\ \A i \in DOMAIN canonical' : Later(canonical'[i].tree)
      BY <3>0, <3>1, <3>4, StillWhole
    <3> QED
      BY <3>5, WholeLater
  <2> QED
    BY <2>1, <2>2, <2>3, Moves
<1>3. AllWhole => EntriesAreWhole
  BY DEF AllWhole, WholeIn, Whole, EntriesAreWhole
<1> QED
  BY <1>1, <1>2, <1>3, MemoryShape, PTL DEF Spec

-----------------------------------------------------------------------------
(***************************************************************************)
(* The digest in the index.                                                *)
(***************************************************************************)
Markers == {HotBegin, HotEnd}

\* There is no block.
Unmarked(file) == \A i \in DOMAIN file : file[i] \notin Markers

\* There is one that is not empty, between the lines b and e, and no bullet before its
\* end.
Framed(file, b, e) ==
  /\ b \in DOMAIN file /\ e \in DOMAIN file /\ b + 1 < e
  /\ file[b] = HotBegin /\ file[e] = HotEnd
  /\ \A i \in DOMAIN file : i \notin {b, e} => file[i] \notin Markers
  /\ \A i \in 1 .. e : ~IsBullet(file[i])

\* The first line is a heading, or a part of one.
Headed(file) == file # <<>> => ~IsBullet(file[1]) /\ file[1] \notin Markers

\* An index without a digest: empty, whole, or cut off at its end.
Plain(file) ==
  /\ IsLines(file) /\ Headed(file) /\ Unmarked(file)
  /\ \A i \in DOMAIN file : file[i] = NoNewline => i = Len(file)

\* A whole index with one digest.
Digested(file) ==
  /\ IsSequence(file) /\ Headed(file)
  /\ \A i \in DOMAIN file : file[i] # NoNewline
  /\ \E b, e \in DOMAIN file : Framed(file, b, e)

\* An index as the program leaves it.
Tidy(file) == file = NoFile \/ Plain(file) \/ Digested(file)

LEMMA MarkerLines ==
  /\ HotBegin # HotEnd
  /\ \A line \in Markers : ~IsBullet(line)
<1>1. /\ HotBegin[1] = "<!-- HOT:BEGIN -->" /\ HotEnd[1] = "<!-- HOT:END -->"
  BY DEF HotBegin, HotEnd
<1>2. HotBegin[1] # HotEnd[1] /\ HotBegin[1] # "- [" /\ HotEnd[1] # "- ["
  BY <1>1
<1> QED
  BY <1>2 DEF Markers, IsBullet

LEMMA UnmarkedDigest ==
  ASSUME NEW file, IsSequence(file), Unmarked(file)
  PROVE  LastOf(file, HotBegin) = 0 /\ LastOf(file, HotEnd) = 0 /\ HotDigest(file) = <<>>
<1>1. DOMAIN file = 1 .. Len(file)
  BY SequenceLength
<1>2. LastOf(file, HotBegin) = 0 /\ LastOf(file, HotEnd) = 0
  BY <1>1, LastMarker DEF Unmarked, Markers
<1> QED
  BY <1>2 DEF HotDigest

LEMMA FramedDigest ==
  ASSUME NEW file, IsSequence(file), NEW b, NEW e, Framed(file, b, e)
  PROVE  /\ LastOf(file, HotBegin) = b /\ LastOf(file, HotEnd) = e
         /\ HotDigest(file) = SubSeq(file, b + 1, e - 1)
<1>1. DOMAIN file = 1 .. Len(file) /\ Len(file) \in Nat
  BY SequenceLength
<1>2. b \in 1 .. Len(file) /\ e \in 1 .. Len(file) /\ b < e
  <2>1. b \in 1 .. Len(file) /\ e \in 1 .. Len(file) /\ b + 1 < e
    BY <1>1 DEF Framed
  <2> QED
    BY <2>1
<1>3. ASSUME NEW i \in 1 .. Len(file)
      PROVE  (file[i] = HotBegin => i = b) /\ (file[i] = HotEnd => i = e)
  BY <1>1, MarkerLines DEF Framed, Markers
<1>4. file[b] = HotBegin /\ file[e] = HotEnd
  BY DEF Framed
<1>5. LastOf(file, HotBegin) = b
  BY <1>2, <1>3, <1>4, LastMarker
<1>6. LastOf(file, HotEnd) = e
  BY <1>2, <1>3, <1>4, LastMarker
<1>7. ~(b = 0 \/ e <= b)
  BY <1>2
<1> QED
  BY <1>5, <1>6, <1>7 DEF HotDigest

LEMMA DefaultTidy ==
  /\ IsSequence(DefaultHeader) /\ DefaultHeader # <<>>
  /\ Len(DefaultHeader) = 2 /\ DOMAIN DefaultHeader = 1 .. 2
  /\ ~IsBullet(DefaultHeader[1]) /\ DefaultHeader[1] \notin Markers
  /\ Unmarked(DefaultHeader)
  /\ \A i \in DOMAIN DefaultHeader : DefaultHeader[i] # NoNewline
<1>1. IsSequence(DefaultHeader) /\ Len(DefaultHeader) = 2
  BY Pairs DEF DefaultHeader
<1>2. DOMAIN DefaultHeader = 1 .. 2
  BY <1>1, SequenceLength
<1>3. DefaultHeader[1][1] = "# Memory index" /\ DefaultHeader[2][1] = ""
  BY DEF DefaultHeader, Blank
<1>4. \A line : line \in Markers => line[1] \in {"<!-- HOT:BEGIN -->", "<!-- HOT:END -->"}
  <2>1. HotBegin[1] = "<!-- HOT:BEGIN -->" /\ HotEnd[1] = "<!-- HOT:END -->"
    BY DEF HotBegin, HotEnd
  <2> QED
    BY <2>1 DEF Markers
<1>5. DefaultHeader[1] \notin Markers /\ DefaultHeader[2] \notin Markers
  BY <1>3, <1>4
<1>6. ~IsBullet(DefaultHeader[1])
  BY <1>3 DEF IsBullet
<1>7. \A i \in 1 .. 2 : i = 1 \/ i = 2
  OBVIOUS
<1>8. Unmarked(DefaultHeader)
  BY <1>2, <1>5, <1>7 DEF Unmarked
<1>9. DefaultHeader # <<>>
  BY <1>1
<1>10. \A i \in DOMAIN DefaultHeader : DefaultHeader[i] # NoNewline
  <2>1. NoNewline[1] = "no newline"
    BY DEF NoNewline
  <2>2. DefaultHeader[1] # NoNewline /\ DefaultHeader[2] # NoNewline
    BY <1>3, <2>1
  <2> QED
    BY <1>2, <1>7, <2>2
<1> QED
  BY <1>1, <1>2, <1>5, <1>6, <1>8, <1>9, <1>10

\* The digest of a tidy index is empty when it has no block, and not when it has one.
LEMMA TidyDigest ==
  ASSUME ~IsSequence(NoFile), NEW file, Tidy(file)
  PROVE  /\ file = NoFile \/ Plain(file) => Hot(file) = <<>>
         /\ Digested(file) => Hot(file) # <<>> /\ Hot(file) = HotDigest(file)
<1>1. CASE file = NoFile
  BY <1>1 DEF Hot, Digested
<1>2. ASSUME Plain(file) PROVE Hot(file) = <<>>
  <2>1. HotDigest(file) = <<>>
    BY <1>2, UnmarkedDigest DEF Plain, IsLines
  <2> QED
    BY <2>1 DEF Hot
<1>3. ASSUME Digested(file) PROVE Hot(file) # <<>> /\ Hot(file) = HotDigest(file)
  <2>1. PICK b, e \in DOMAIN file : Framed(file, b, e)
    BY <1>3 DEF Digested
  <2>2. IsSequence(file) /\ HotDigest(file) = SubSeq(file, b + 1, e - 1)
    BY <1>3, <2>1, FramedDigest DEF Digested
  <2>3. DOMAIN file = 1 .. Len(file) /\ Len(file) \in Nat
    BY <2>2, SequenceLength
  <2>4. b \in 1 .. Len(file) /\ e \in 1 .. Len(file) /\ b + 1 < e
    BY <2>1, <2>3 DEF Framed
  <2>5. b + 1 \in 1 .. Len(file) + 1 /\ e - 1 \in (b + 1) - 1 .. Len(file)
    BY <2>3, <2>4
  <2>6. Len(SubSeq(file, b + 1, e - 1)) = (e - 1) - (b + 1) + 1
    BY <2>2, <2>5, Cut
  <2>7. Len(HotDigest(file)) # 0
    BY <2>2, <2>3, <2>4, <2>6
  <2>8. HotDigest(file) # <<>>
    BY <2>7
  <2>9. file # NoFile
    BY <2>2
  <2> QED
    BY <2>8, <2>9 DEF Hot
<1>4. file = NoFile => Hot(file) = <<>>
  BY DEF Hot
<1> QED
  BY <1>2, <1>3, <1>4

\* The lines of an index that may be cut off, or not be there.
LEMMA TidyLines ==
  ASSUME ~IsSequence(NoFile), NEW old, Tidy(old)
  PROVE  LET lines == IF old \in {NoFile, <<>>} THEN DefaultHeader ELSE Lines(old)
         IN /\ IsSequence(lines) /\ lines # <<>>
            /\ ~IsBullet(lines[1]) /\ lines[1] \notin Markers
            /\ \A i \in DOMAIN lines : lines[i] # NoNewline
            /\ Unmarked(lines) \/ \E b, e \in DOMAIN lines : Framed(lines, b, e)
<1>1. CASE old \in {NoFile, <<>>}
  BY <1>1, DefaultTidy
<1>2. CASE old \notin {NoFile, <<>>} /\ Plain(old)
  <2> DEFINE lines == Lines(old)
  <2>1. IsLines(old) /\ old # <<>> /\ Headed(old) /\ Unmarked(old)
    BY <1>2 DEF Plain
  <2>2. /\ IsSequence(lines) /\ lines # <<>> /\ lines[1] = old[1]
        /\ Len(lines) \in 1 .. Len(old)
        /\ \A i \in 1 .. Len(lines) : lines[i] = old[i]
        /\ lines = old \/ (Torn(old) /\ Len(lines) = Len(old) - 1)
    BY <2>1, LinesOfFile
  <2>3. lines = old => ~Torn(old)
    <3>1. ASSUME Torn(old), lines = old PROVE FALSE
      <4>1. lines = Front(old) /\ IsSequence(old) /\ Len(old) \in Nat
        BY <2>1, <3>1, SequenceLength DEF Lines, IsLines
      <4>2. Len(Front(old)) = Len(old) - 1
        BY <2>1, <4>1, WithoutLast
      <4>3. Front(old) = old
        BY <3>1, <4>1
      <4>4. Len(old) = Len(old) - 1
        BY <4>2, <4>3
      <4> QED
        BY <4>1, <4>4
    <3> QED
      BY <3>1
  <2> HIDE DEF lines
  <2>4. DOMAIN lines = 1 .. Len(lines) /\ DOMAIN old = 1 .. Len(old)
    BY <2>1, <2>2, SequenceLength DEF IsLines
  <2>9. Len(old) \in Nat /\ Len(lines) \in Nat
    BY <2>1, <2>2, SequenceLength DEF IsLines
  <2>5. ASSUME NEW i \in DOMAIN lines PROVE i \in DOMAIN old /\ lines[i] = old[i] /\ i \in 1 .. Len(lines)
    <3>1. i \in 1 .. Len(lines)
      BY <2>4
    <3>2. i \in 1 .. Len(old)
      BY <2>2, <2>9, <3>1
    <3> QED
      BY <2>2, <2>4, <3>1, <3>2
  <2>6. ASSUME NEW i \in DOMAIN lines PROVE lines[i] # NoNewline
    <3>1. ASSUME lines[i] = NoNewline PROVE FALSE
      <4>1. i = Len(old)
        BY <1>2, <2>5, <3>1 DEF Plain
      <4>2. lines = old
        <5>1. i \in 1 .. Len(lines)
          BY <2>5
        <5>2. Len(lines) # Len(old) - 1
          BY <2>9, <4>1, <5>1
        <5> QED
          BY <2>2, <5>2
      <4> QED
        BY <2>1, <2>3, <3>1, <4>1, <4>2 DEF Torn
    <3> QED
      BY <3>1
  <2>7. Unmarked(lines)
    BY <2>1, <2>5 DEF Unmarked
  <2>8. ~IsBullet(lines[1]) /\ lines[1] \notin Markers
    BY <2>1, <2>2 DEF Headed
  <2> QED
    BY <1>2, <2>2, <2>6, <2>7, <2>8 DEF lines
<1>3. CASE old \notin {NoFile, <<>>} /\ Digested(old)
  <2>1. DOMAIN old = 1 .. Len(old) /\ Len(old) \in Nat /\ Len(old) >= 1
    BY <1>3, SequenceLength, Shortened DEF Digested
  <2>2. ~Torn(old)
    <3>1. Len(old) \in DOMAIN old
      BY <2>1
    <3> QED
      BY <1>3, <3>1 DEF Torn, Digested
  <2>3. Lines(old) = old
    BY <2>2 DEF Lines
  <2> QED
    BY <1>3, <2>3 DEF Digested, Headed
<1> QED
  BY <1>1, <1>2, <1>3 DEF Tidy

\* The parts of an index between which a digest is put: the first has the heading of
\* the file and ends with the one marker, the second begins with the other.
Surround(lines, above, below) ==
  /\ IsSequence(above) /\ IsSequence(below)
  /\ Len(above) >= 2 /\ above[1] = lines[1] /\ above[Len(above)] = HotBegin
  /\ \A i \in 1 .. Len(above) - 1 : above[i] \notin Markers
  /\ \A i \in 1 .. Len(above) : ~IsBullet(above[i])
  /\ Len(below) >= 1 /\ below[1] = HotEnd
  /\ \A i \in 2 .. Len(below) : below[i] \notin Markers
  /\ \A i \in 1 .. Len(above) : above[i] # NoNewline
  /\ \A i \in 1 .. Len(below) : below[i] # NoNewline

\* A digest between two such parts is the digest of the index.
LEMMA PutBetween ==
  ASSUME NEW lines, NEW above, NEW below, Surround(lines, above, below),
         NEW digest, IsSequence(digest), digest # <<>>, Clean(digest),
         \A i \in DOMAIN digest : digest[i] # NoNewline
  PROVE  LET new == above \o digest \o below
         IN /\ IsSequence(new) /\ new # <<>> /\ new[1] = lines[1]
            /\ \A i \in DOMAIN new : new[i] # NoNewline
            /\ Framed(new, Len(above), Len(above) + Len(digest) + 1)
            /\ HotDigest(new) = digest
<1> DEFINE b == Len(above)
<1> DEFINE n == Len(digest)
<1> DEFINE m == Len(below)
<1> DEFINE e == b + n + 1
<1> DEFINE new == above \o digest \o below
<1>0. /\ IsSequence(above) /\ IsSequence(below)
      /\ Len(above) >= 2 /\ above[1] = lines[1] /\ above[Len(above)] = HotBegin
      /\ \A i \in 1 .. Len(above) - 1 : above[i] \notin Markers
      /\ \A i \in 1 .. Len(above) : ~IsBullet(above[i])
      /\ Len(below) >= 1 /\ below[1] = HotEnd
      /\ \A i \in 2 .. Len(below) : below[i] \notin Markers
      /\ \A i \in 1 .. Len(above) : above[i] # NoNewline
      /\ \A i \in 1 .. Len(below) : below[i] # NoNewline
  BY DEF Surround
<1>1. b \in Nat /\ n \in Nat /\ m \in Nat /\ DOMAIN digest = 1 .. n /\ n >= 1
  BY <1>0, SequenceLength, Shortened
<1>2. /\ IsSequence(above \o digest) /\ Len(above \o digest) = b + n
      /\ \A i \in 1 .. b + n : (above \o digest)[i] = IF i <= b THEN above[i] ELSE digest[i - b]
  BY <1>0, Concatenated
<1>3. /\ IsSequence(new) /\ Len(new) = (b + n) + m
      /\ \A i \in 1 .. (b + n) + m :
           new[i] = IF i <= b + n THEN (above \o digest)[i] ELSE below[i - (b + n)]
  BY <1>0, <1>2, Concatenated
<1>4. DOMAIN new = 1 .. (b + n) + m
  BY <1>3, SequenceLength
<1>5. b >= 2 /\ m >= 1
  BY <1>0
<1> HIDE DEF new, b, n, m
<1>6. \A i \in 1 .. b : new[i] = above[i]
  BY <1>1, <1>2, <1>3
<1>7. \A i \in 1 .. n : new[b + i] = digest[i]
  <2>1. ASSUME NEW i \in 1 .. n PROVE new[b + i] = digest[i]
    <3>1. b + i \in 1 .. b + n /\ b + i \in 1 .. (b + n) + m /\ ~(b + i <= b) /\ (b + i) - b = i
      BY <1>1
    <3>2. b + i <= b + n
      BY <1>1
    <3> QED
      BY <1>2, <1>3, <3>1, <3>2
  <2> QED
    BY <2>1
<1>8. \A i \in 1 .. m : new[b + n + i] = below[i]
  <2>1. ASSUME NEW i \in 1 .. m PROVE new[b + n + i] = below[i]
    <3>1. b + n + i \in 1 .. (b + n) + m /\ ~(b + n + i <= b + n) /\ (b + n + i) - (b + n) = i
      BY <1>1
    <3> QED
      BY <1>3, <3>1
  <2> QED
    BY <2>1
<1>9. new[b] = HotBegin /\ new[e] = HotEnd /\ b \in DOMAIN new /\ e \in DOMAIN new /\ b + 1 < e
  <2>1. b \in 1 .. b /\ 1 \in 1 .. m /\ e = b + n + 1
    BY <1>1, <1>5
  <2>2. new[b] = HotBegin /\ new[b + n + 1] = HotEnd
    BY <1>0, <1>6, <1>8, <2>1 DEF b
  <2>3. b \in 1 .. (b + n) + m /\ b + n + 1 \in 1 .. (b + n) + m /\ b + 1 < b + n + 1
    BY <1>1, <1>5
  <2> QED
    BY <1>4, <2>2, <2>3
<1>10. ASSUME NEW i \in DOMAIN new, i # b, i # e PROVE new[i] \notin Markers
  <2>1. CASE i \in 1 .. b - 1
    <3>1. i \in 1 .. b /\ above[i] \notin Markers
      BY <1>0, <1>1, <2>1 DEF b
    <3> QED
      BY <1>6, <3>1
  <2>2. CASE i \in b + 1 .. b + n
    <3>1. i - b \in 1 .. n /\ b + (i - b) = i
      BY <1>1, <2>2
    <3> QED
      BY <1>1, <1>7, <3>1 DEF Clean, Markers
  <2>3. CASE i \in b + n + 2 .. (b + n) + m
    <3>1. i - (b + n) \in 1 .. m /\ i - (b + n) \in 2 .. m /\ b + n + (i - (b + n)) = i
      BY <1>1, <2>3
    <3>2. below[i - (b + n)] \notin Markers
      BY <1>0, <3>1 DEF m
    <3> QED
      BY <1>8, <3>1, <3>2
  <2>4. i \in 1 .. (b + n) + m
    BY <1>4
  <2> HIDE DEF e
  <2>5. e = b + n + 1
    BY DEF e
  <2> QED
    BY <1>1, <1>10, <2>1, <2>2, <2>3, <2>4, <2>5
<1>11. ASSUME NEW i \in 1 .. e PROVE ~IsBullet(new[i])
  <2>1. CASE i \in 1 .. b
    BY <1>0, <1>6, <2>1 DEF b
  <2>2. CASE i \in b + 1 .. b + n
    <3>1. i - b \in 1 .. n /\ b + (i - b) = i
      BY <1>1, <2>2
    <3> QED
      BY <1>1, <1>7, <3>1 DEF Clean
  <2>3. CASE i = e
    BY <1>9, <2>3, MarkerLines DEF Markers
  <2>4. i \in 1 .. b \/ i \in b + 1 .. b + n \/ i = e
    BY <1>1
  <2> HIDE DEF e
  <2> QED
    BY <2>1, <2>2, <2>3, <2>4
<1>12. Framed(new, b, e)
  <2> HIDE DEF e
  <2> QED
    BY <1>9, <1>10, <1>11 DEF Framed
<1>13. HotDigest(new) = SubSeq(new, b + 1, e - 1)
  <2> HIDE DEF e
  <2> QED
    BY <1>3, <1>12, FramedDigest
<1>14. SubSeq(new, b + 1, e - 1) = digest
  <2>1. b + 1 \in 1 .. Len(new) + 1 /\ e - 1 \in (b + 1) - 1 .. Len(new)
    BY <1>1, <1>3, <1>5
  <2> DEFINE part == SubSeq(new, b + 1, e - 1)
  <2>2. /\ IsSequence(part) /\ Len(part) = (e - 1) - (b + 1) + 1
        /\ \A i \in 1 .. (e - 1) - (b + 1) + 1 : part[i] = new[(b + 1) + i - 1]
    BY <1>3, <2>1, Cut
  <2> HIDE DEF part
  <2>3. (e - 1) - (b + 1) + 1 = n /\ \A i \in 1 .. n : (b + 1) + i - 1 = b + i
    BY <1>1
  <2>4. Len(part) = Len(digest) /\ \A i \in 1 .. Len(part) : part[i] = digest[i]
    BY <1>7, <2>2, <2>3 DEF n
  <2>5. part = digest
    BY <2>2, <2>4, SequencesEqual
  <2> QED
    BY <2>5 DEF part
<1>15. new # <<>> /\ new[1] = lines[1]
  <2>1. 1 \in 1 .. b
    BY <1>1, <1>5
  <2>2. 1 \in DOMAIN new
    BY <1>1, <1>4, <1>5
  <2> QED
    BY <1>0, <1>6, <2>1, <2>2
<1>16. ASSUME NEW i \in DOMAIN new PROVE new[i] # NoNewline
  <2>1. CASE i \in 1 .. b
    BY <1>0, <1>6, <2>1 DEF b
  <2>2. CASE i \in b + 1 .. b + n
    <3>1. i - b \in 1 .. n /\ b + (i - b) = i
      BY <1>1, <2>2
    <3> QED
      BY <1>1, <1>7, <3>1
  <2>3. CASE i \in b + n + 1 .. (b + n) + m
    <3>1. i - (b + n) \in 1 .. m /\ b + n + (i - (b + n)) = i
      BY <1>1, <2>3
    <3>2. below[i - (b + n)] # NoNewline
      BY <1>0, <3>1 DEF m
    <3> QED
      BY <1>8, <3>1, <3>2
  <2>4. i \in 1 .. (b + n) + m
    BY <1>4
  <2> QED
    BY <1>1, <2>1, <2>2, <2>3, <2>4
<1> QED
  BY <1>3, <1>12, <1>13, <1>14, <1>15, <1>16 DEF new, b, n, e

\* A digest without a bullet or a marker is the digest of the index it is written
\* into, whether it replaces another one or not.
LEMMA WrittenDigest ==
  ASSUME ~IsSequence(NoFile), NEW old, Tidy(old),
         NEW digest, IsSequence(digest), digest # <<>>, Clean(digest),
         \A i \in DOMAIN digest : digest[i] # NoNewline
  PROVE  Tidy(WithHotBlock(old, digest)) /\ Hot(WithHotBlock(old, digest)) = digest
<1> DEFINE lines == IF old \in {NoFile, <<>>} THEN DefaultHeader ELSE Lines(old)
<1> DEFINE begin == LastOf(lines, HotBegin)
<1> DEFINE end == LastOf(lines, HotEnd)
<1> DEFINE new == WithHotBlock(old, digest)
<1>1. new = IF begin = 0 \/ end = 0
            THEN <<lines[1], HotBegin>> \o digest \o <<HotEnd, Blank>> \o Tail(lines)
            ELSE SubSeq(lines, 1, begin) \o digest \o SubSeq(lines, end, Len(lines))
  BY DEF WithHotBlock
<1>2. /\ IsSequence(lines) /\ lines # <<>>
      /\ ~IsBullet(lines[1]) /\ lines[1] \notin Markers
      /\ \A i \in DOMAIN lines : lines[i] # NoNewline
      /\ Unmarked(lines) \/ \E b, e \in DOMAIN lines : Framed(lines, b, e)
  BY TidyLines
<1> HIDE DEF lines, new
<1>3. Len(lines) \in Nat /\ DOMAIN lines = 1 .. Len(lines) /\ Len(lines) >= 1
  BY <1>2, SequenceLength, Shortened
<1> SUFFICES \E above, below : new = above \o digest \o below /\ Surround(lines, above, below)
  <2>1. PICK above, below : new = above \o digest \o below /\ Surround(lines, above, below)
    OBVIOUS
  <2> DEFINE e == Len(above) + Len(digest) + 1
  <2>2. /\ IsSequence(new) /\ new # <<>> /\ new[1] = lines[1]
        /\ \A i \in DOMAIN new : new[i] # NoNewline
        /\ Framed(new, Len(above), e) /\ HotDigest(new) = digest
    BY <2>1, PutBetween
  <2> HIDE DEF e
  <2>3. \E b, x \in DOMAIN new : Framed(new, b, x)
    BY <2>2 DEF Framed
  <2>4. Digested(new) /\ Tidy(new)
    BY <1>2, <2>2, <2>3 DEF Tidy, Digested, Headed
  <2>5. Hot(new) = digest
    BY <2>2 DEF Hot
  <2> QED
    BY <2>4, <2>5 DEF new
<1>4. CASE Unmarked(lines)
  <2> DEFINE above == <<lines[1], HotBegin>>
  <2> DEFINE pair == <<HotEnd, Blank>>
  <2> DEFINE rest == Tail(lines)
  <2> DEFINE below == pair \o rest
  <2>1. begin = 0 /\ end = 0
    BY <1>2, <1>4, UnmarkedDigest
  <2>2. new = above \o digest \o pair \o rest
    BY <1>1, <2>1
  <2>3. /\ IsSequence(above) /\ Len(above) = 2 /\ above[1] = lines[1] /\ above[2] = HotBegin
        /\ IsSequence(pair) /\ Len(pair) = 2 /\ pair[1] = HotEnd /\ pair[2] = Blank
    BY Pairs
  <2> HIDE DEF above, pair
  <2>4. /\ IsSequence(rest) /\ Len(rest) = Len(lines) - 1
        /\ \A i \in 1 .. Len(lines) - 1 : rest[i] = lines[i + 1]
    BY <1>2, Shortened
  <2> HIDE DEF rest
  <2>5. /\ IsSequence(below) /\ Len(below) = 2 + (Len(lines) - 1)
        /\ \A i \in 1 .. 2 + (Len(lines) - 1) :
             below[i] = IF i <= 2 THEN pair[i] ELSE rest[i - 2]
    <3>1. IsSequence(pair) /\ IsSequence(rest)
      BY <2>3, <2>4
    <3>2. /\ IsSequence(pair \o rest) /\ Len(pair \o rest) = Len(pair) + Len(rest)
          /\ \A i \in 1 .. Len(pair) + Len(rest) :
               (pair \o rest)[i] = IF i <= Len(pair) THEN pair[i] ELSE rest[i - Len(pair)]
      BY <3>1, Concatenated
    <3> QED
      BY <2>3, <2>4, <3>2
  <2>6. new = above \o digest \o below
    <3>1. IsSequence(above \o digest)
      BY <2>3, Concatenated
    <3> DEFINE first == above \o digest
    <3> HIDE DEF first
    <3>2. IsSequence(first) /\ IsSequence(pair) /\ IsSequence(rest)
      BY <2>3, <2>4, <3>1 DEF first
    <3>3. (first \o pair) \o rest = first \o (pair \o rest)
      BY <3>2, Associative
    <3> QED
      BY <2>2, <3>3 DEF first
  <2> HIDE DEF below
  <2>7. \A i \in 1 .. 1 : i = 1
    OBVIOUS
  <2>8. \A i \in 1 .. 2 : i = 1 \/ i = 2
    OBVIOUS
  <2>9. \A i \in 1 .. Len(above) - 1 : above[i] \notin Markers
    BY <1>2, <2>3, <2>7
  <2>10. \A i \in 1 .. Len(above) : ~IsBullet(above[i])
    BY <1>2, <2>3, <2>8, MarkerLines DEF Markers
  <2>11. Blank \notin Markers
    <3>1. Blank[1] = "" /\ HotBegin[1] = "<!-- HOT:BEGIN -->" /\ HotEnd[1] = "<!-- HOT:END -->"
      BY DEF Blank, HotBegin, HotEnd
    <3> QED
      BY <3>1 DEF Markers
  <2>12. ASSUME NEW i \in 2 .. Len(below) PROVE below[i] \notin Markers
    <3>1. CASE i = 2
      BY <1>3, <2>3, <2>5, <2>11, <3>1
    <3>2. CASE i > 2
      <4>1. i \in 1 .. 2 + (Len(lines) - 1) /\ ~(i <= 2) /\ i - 2 \in 1 .. Len(lines) - 1
        BY <1>3, <2>5, <3>2
      <4>2. below[i] = lines[(i - 2) + 1] /\ (i - 2) + 1 \in DOMAIN lines
        BY <1>3, <2>4, <2>5, <4>1
      <4> QED
        BY <1>4, <4>2 DEF Unmarked
    <3> QED
      BY <3>1, <3>2
  <2>13. Len(below) >= 1 /\ below[1] = HotEnd
    BY <1>3, <2>3, <2>5
  <2>14. HotBegin # NoNewline /\ HotEnd # NoNewline /\ Blank # NoNewline
    BY DEF HotBegin, HotEnd, Blank, NoNewline
  <2>15. \A i \in 1 .. Len(above) : above[i] # NoNewline
    BY <1>2, <1>3, <2>3, <2>8, <2>14
  <2>16. ASSUME NEW i \in 1 .. Len(below) PROVE below[i] # NoNewline
    <3>1. CASE i = 1 \/ i = 2
      BY <1>3, <2>3, <2>5, <2>14, <3>1
    <3>2. CASE i > 2
      <4>1. i \in 1 .. 2 + (Len(lines) - 1) /\ ~(i <= 2) /\ i - 2 \in 1 .. Len(lines) - 1
        BY <1>3, <2>5, <3>2
      <4>2. below[i] = lines[(i - 2) + 1] /\ (i - 2) + 1 \in DOMAIN lines
        BY <1>3, <2>4, <2>5, <4>1
      <4> QED
        BY <1>2, <4>2
    <3> QED
      BY <3>1, <3>2
  <2>17. Surround(lines, above, below)
    BY <2>3, <2>5, <2>9, <2>10, <2>12, <2>13, <2>15, <2>16 DEF Surround
  <2> QED
    BY <2>6, <2>17
<1>5. CASE \E b, e \in DOMAIN lines : Framed(lines, b, e)
  <2>1. PICK b \in DOMAIN lines, e \in DOMAIN lines : Framed(lines, b, e)
    BY <1>5
  <2>2. begin = b /\ end = e
    BY <1>2, <2>1, FramedDigest
  <2>3. b \in 1 .. Len(lines) /\ e \in 1 .. Len(lines) /\ b < e
    <3>1. b \in 1 .. Len(lines) /\ e \in 1 .. Len(lines) /\ b + 1 < e
      BY <1>3, <2>1 DEF Framed
    <3> QED
      BY <3>1
  <2> DEFINE above == SubSeq(lines, 1, b)
  <2> DEFINE below == SubSeq(lines, e, Len(lines))
  <2>4. new = above \o digest \o below
    <3>1. begin # 0 /\ end # 0
      BY <2>2, <2>3
    <3>2. new = SubSeq(lines, 1, begin) \o digest \o SubSeq(lines, end, Len(lines))
      BY <1>1, <3>1
    <3> QED
      BY <2>2, <3>2
  <2>5. IsSequence(above) /\ Len(above) = b /\ \A i \in 1 .. b : above[i] = lines[i]
    <3>1. 1 \in 1 .. Len(lines) + 1 /\ b \in 1 - 1 .. Len(lines)
      BY <1>3, <2>3
    <3>2. /\ IsSequence(above) /\ Len(above) = b - 1 + 1
          /\ \A i \in 1 .. b - 1 + 1 : above[i] = lines[1 + i - 1]
      BY <1>2, <3>1, Cut
    <3> HIDE DEF above
    <3> QED
      BY <2>3, <3>2
  <2>6. /\ IsSequence(below) /\ Len(below) = Len(lines) - e + 1
        /\ \A i \in 1 .. Len(lines) - e + 1 : below[i] = lines[e + i - 1]
    <3>1. e \in 1 .. Len(lines) + 1 /\ Len(lines) \in e - 1 .. Len(lines)
      BY <1>3, <2>3
    <3> QED
      BY <1>2, <3>1, Cut
  <2> HIDE DEF above, below
  <2>7. lines[b] = HotBegin /\ lines[e] = HotEnd
    BY <2>1 DEF Framed
  <2>8. \A i \in 1 .. Len(lines) : i # b /\ i # e => lines[i] \notin Markers
    BY <1>3, <2>1 DEF Framed
  <2>9. \A i \in 1 .. e : ~IsBullet(lines[i])
    BY <2>1 DEF Framed
  <2>10. b # 1
    BY <1>2, <2>7 DEF Markers
  <2>11. Len(above) >= 2 /\ above[1] = lines[1] /\ above[Len(above)] = HotBegin
    BY <2>3, <2>5, <2>7, <2>10
  <2>12. ASSUME NEW i \in 1 .. Len(above) - 1 PROVE above[i] \notin Markers
    <3>1. i \in 1 .. b /\ i \in 1 .. Len(lines) /\ i # b /\ i # e
      BY <1>3, <2>3, <2>5
    <3> QED
      BY <2>5, <2>8, <3>1
  <2>13. ASSUME NEW i \in 1 .. Len(above) PROVE ~IsBullet(above[i])
    <3>1. i \in 1 .. b /\ i \in 1 .. e
      BY <1>3, <2>3, <2>5
    <3> QED
      BY <2>5, <2>9, <3>1
  <2>14. Len(below) >= 1 /\ below[1] = HotEnd
    <3>1. 1 \in 1 .. Len(lines) - e + 1 /\ e + 1 - 1 = e
      BY <1>3, <2>3
    <3> QED
      BY <2>6, <2>7, <3>1
  <2>15. ASSUME NEW i \in 2 .. Len(below) PROVE below[i] \notin Markers
    <3>1. /\ i \in 1 .. Len(lines) - e + 1 /\ e + i - 1 \in 1 .. Len(lines)
          /\ e + i - 1 # b /\ e + i - 1 # e
      BY <1>3, <2>3, <2>6
    <3> QED
      BY <2>6, <2>8, <3>1
  <2>16. ASSUME NEW i \in 1 .. Len(above) PROVE above[i] # NoNewline
    <3>1. i \in 1 .. b /\ i \in DOMAIN lines
      BY <1>3, <2>3, <2>5
    <3> QED
      BY <1>2, <2>5, <3>1
  <2>17. ASSUME NEW i \in 1 .. Len(below) PROVE below[i] # NoNewline
    <3>1. i \in 1 .. Len(lines) - e + 1 /\ e + i - 1 \in DOMAIN lines
      BY <1>3, <2>3, <2>6
    <3> QED
      BY <1>2, <2>6, <3>1
  <2>18. Surround(lines, above, below)
    BY <2>5, <2>6, <2>11, <2>12, <2>13, <2>14, <2>15, <2>16, <2>17 DEF Surround
  <2> QED
    BY <2>4, <2>18
<1> QED
  BY <1>2, <1>4, <1>5

\* Bullets after a header without a block, which may be cut off.
LEMMA PlainJoined ==
  ASSUME NEW header, Plain(header), header # <<>>,
         NEW bullets, IsSequence(bullets), \A i \in 1 .. Len(bullets) : IsBullet(bullets[i])
  PROVE  Plain(Joined(header, bullets))
<1>0. DOMAIN header = 1 .. Len(header)
  BY SequenceLength DEF Plain, IsLines
<1>1. /\ IsLines(header) /\ IsSequence(header) /\ Len(header) \in Nat /\ Len(header) >= 1
      /\ Len(bullets) \in Nat
      /\ ~IsBullet(header[1]) /\ header[1] \notin Markers /\ header[1] # NoNewline
  BY SequenceLength, Shortened DEF Plain, IsLines, Headed
<1>17. \A i \in 1 .. Len(header) :
         header[i] \notin Markers /\ (header[i] = NoNewline => i = Len(header))
  BY <1>0 DEF Plain, Unmarked
<1>2. PICK above, below : JoinedParts(header, bullets, above, below)
  BY <1>1, JoinedIndex
<1> DEFINE new == above \o below
<1>3. Joined(header, bullets) = new /\ IsSequence(above) /\ IsSequence(below)
  BY <1>2 DEF JoinedParts
<1>4. /\ IsSequence(new) /\ Len(new) = Len(above) + Len(below)
      /\ \A i \in 1 .. Len(above) + Len(below) :
           new[i] = IF i <= Len(above) THEN above[i] ELSE below[i - Len(above)]
  BY <1>3, Concatenated
<1> HIDE DEF new
<1>5. /\ Len(above) \in Nat /\ Len(below) \in Nat
      /\ DOMAIN new = 1 .. Len(above) + Len(below)
  BY <1>3, <1>4, SequenceLength
<1>6. NoNewline \notin Markers /\ ~IsBullet(NoNewline)
  <2>1. /\ NoNewline[1] = "no newline" /\ HotBegin[1] = "<!-- HOT:BEGIN -->"
        /\ HotEnd[1] = "<!-- HOT:END -->"
    BY DEF NoNewline, HotBegin, HotEnd
  <2> QED
    BY <2>1 DEF Markers, IsBullet
<1>7. \A i \in 1 .. Len(below) : IsBullet(below[i])
  <2>1. CASE below = bullets
    BY <2>1
  <2>2. CASE Len(below) = Len(bullets) - 1 /\ \A i \in 1 .. Len(bullets) - 1 : below[i] = bullets[i + 1]
    BY <1>1, <2>2
  <2> QED
    BY <1>2, <2>1, <2>2 DEF JoinedParts
<1>8. /\ Len(above) >= 1 /\ ~IsBullet(above[1])
      /\ \A i \in 1 .. Len(above) :
           /\ above[i] \notin Markers
           /\ above[i] = NoNewline => above = header /\ below = bullets /\ i = Len(header) /\ i > 1
  <2>1. CASE above = header /\ below = bullets
    <3>1. ASSUME NEW i \in 1 .. Len(header), header[i] = NoNewline PROVE i = Len(header) /\ i > 1
      <4>1. i # 1
        BY <1>1, <3>1
      <4> QED
        BY <1>1, <1>17, <3>1, <4>1
    <3> QED
      BY <1>1, <1>17, <2>1, <3>1
  <2>2. CASE /\ Len(header) >= 2 /\ Len(above) = Len(header) - 1
             /\ \A i \in 1 .. Len(header) - 2 : above[i] = header[i]
             /\ above[Len(header) - 1] = Glued(bullets[1])
    <3>1. ASSUME NEW i \in 1 .. Len(above)
          PROVE  above[i] \notin Markers /\ above[i] # NoNewline /\ (i = 1 => ~IsBullet(above[i]))
      <4>1. CASE i = Len(header) - 1
        BY <2>2, <4>1, GluedLine DEF Markers
      <4>2. CASE i \in 1 .. Len(header) - 2
        <5>1. i \in 1 .. Len(header) /\ i # Len(header)
          BY <1>1, <4>2
        <5>2. above[i] = header[i]
          BY <2>2, <4>2
        <5> QED
          BY <1>1, <1>17, <5>1, <5>2
      <4>3. Len(above) = Len(header) - 1 /\ Len(header) \in Nat
        BY <1>1, <2>2
      <4>4. i = Len(header) - 1 \/ i \in 1 .. Len(header) - 2
        BY <4>3
      <4> QED
        BY <4>1, <4>2, <4>4
    <3>2. Len(above) >= 1 /\ 1 \in 1 .. Len(above)
      BY <1>1, <2>2
    <3> QED
      BY <3>1, <3>2
  <2> QED
    BY <1>2, <2>1, <2>2 DEF JoinedParts
<1>9. /\ \A i \in 1 .. Len(above) : new[i] = above[i]
      /\ \A i \in DOMAIN new : i > Len(above) => i - Len(above) \in 1 .. Len(below)
                                                 /\ new[i] = below[i - Len(above)]
  BY <1>4, <1>5
<1>10. ASSUME NEW i \in DOMAIN new, i > Len(above)
       PROVE  new[i] \notin Markers /\ new[i] # NoNewline
  <2>1. IsBullet(new[i])
    BY <1>7, <1>9, <1>10
  <2> QED
    BY <1>6, <2>1, MarkerLines
<1>11. ASSUME NEW i \in DOMAIN new PROVE i \in 1 .. Len(above) \/ i > Len(above)
  BY <1>5
<1>12. Unmarked(new)
  BY <1>8, <1>9, <1>10, <1>11 DEF Unmarked
<1>13. ASSUME NEW i \in DOMAIN new, new[i] = NoNewline PROVE i = Len(new)
  <2>1. i \in 1 .. Len(above) /\ above[i] = NoNewline
    BY <1>9, <1>10, <1>11, <1>13
  <2>2. above = header /\ below = bullets /\ i = Len(header)
    BY <1>8, <2>1
  <2>3. Torn(header)
    BY <1>1, <2>1, <2>2 DEF Torn
  <2>4. bullets = <<>>
    <3>2. Len(header) # Len(header) - 1
      BY <1>1
    <3>1. ~(Len(above) = Len(header) - 1)
      BY <2>2, <3>2
    <3> QED
      BY <1>2, <2>3, <3>1 DEF JoinedParts
  <2>5. Len(below) = 0
    BY <2>2, <2>4
  <2> QED
    BY <1>4, <1>5, <2>2, <2>5
<1>14. 1 \in 1 .. Len(above) /\ new[1] = above[1] /\ 1 \in DOMAIN new
  BY <1>5, <1>8, <1>9
<1>15. new[1] # NoNewline /\ ~IsBullet(new[1]) /\ new[1] \notin Markers
  BY <1>8, <1>14
<1>16. Plain(new)
  BY <1>4, <1>12, <1>13, <1>15 DEF Plain, IsLines, Headed
<1> QED
  BY <1>3, <1>16

\* A rebuild keeps the digest, with or without one.
LEMMA RebuiltDigest ==
  ASSUME ~IsSequence(NoFile), NEW file, Tidy(file),
         NEW entries, IsFiniteSet(DOMAIN entries)
  PROVE  /\ Tidy(Rebuilt(file, entries)) /\ Hot(Rebuilt(file, entries)) = Hot(file)
         /\ ~Digested(file) => Plain(Rebuilt(file, entries))
<1> DEFINE new == Rebuilt(file, entries)
<1>1. IsFile(file)
  <2>1. ASSUME Digested(file) PROVE IsLines(file)
    <3>1. IsSequence(file) /\ \A i \in DOMAIN file : file[i] # NoNewline
      BY <2>1 DEF Digested
    <3>2. file # <<>> => 1 \in DOMAIN file
      BY <3>1, SequenceLength, Shortened
    <3> QED
      BY <3>1, <3>2 DEF IsLines
  <2> QED
    BY <2>1 DEF Tidy, Plain, IsFile
<1>2. PICK header, bullets : Parts(file, entries, header, bullets)
  BY <1>1, RebuiltIndex
<1>3. /\ new = Joined(header, bullets)
      /\ header = IF file = NoFile THEN DefaultHeader ELSE Header(file)
      /\ IsSequence(header) /\ \A i \in 1 .. Len(header) : ~IsBullet(header[i])
      /\ IsSequence(bullets) /\ \A i \in 1 .. Len(bullets) : IsBullet(bullets[i])
  BY <1>2 DEF Parts
<1> HIDE DEF new
<1>4. ASSUME Plain(header), header # <<>>, Hot(file) = <<>>
      PROVE  Plain(new) /\ Tidy(new) /\ Hot(new) = Hot(file)
  <2>1. Plain(new) /\ Tidy(new)
    BY <1>3, <1>4, PlainJoined DEF Tidy
  <2> QED
    BY <1>4, <2>1, TidyDigest
<1>5. CASE file \in {NoFile, <<>>}
  <2>1. header = DefaultHeader
    <3>1. ASSUME file # NoFile PROVE Header(file) = DefaultHeader
      <4>1. file = <<>> /\ IsSequence(file)
        BY <1>1, <1>5, <3>1 DEF IsFile, IsLines
      <4> QED
        BY <4>1, HeaderLines
    <3> QED
      BY <1>3, <3>1
  <2>2. Plain(header) /\ header # <<>>
    <3>1. 1 \in DOMAIN DefaultHeader
      BY DefaultTidy
    <3> QED
      BY <2>1, <3>1, DefaultTidy DEF Plain, IsLines, Headed
  <2>3. Hot(file) = <<>> /\ (file # NoFile => Plain(file))
    <3>1. ASSUME file # NoFile PROVE Plain(file)
      <4>1. ~Digested(file)
        BY <1>5, <3>1 DEF Digested
      <4> QED
        BY <3>1, <4>1 DEF Tidy
    <3> QED
      BY <3>1, TidyDigest
  <2> QED
    BY <1>4, <2>2, <2>3 DEF new
<1>6. CASE file \notin {NoFile, <<>>}
  <2>1. IsSequence(file) /\ file # <<>> /\ Headed(file)
    BY <1>6 DEF Tidy, Plain, Digested, IsLines
  <2>2. /\ Len(header) <= Len(file)
        /\ \A i \in 1 .. Len(header) : header[i] = file[i]
        /\ Len(header) < Len(file) => IsBullet(file[Len(header) + 1])
    BY <1>3, <1>6, <2>1, HeaderLines
  <2>3. /\ Len(file) \in Nat /\ DOMAIN file = 1 .. Len(file) /\ Len(file) >= 1
        /\ Len(header) \in Nat /\ DOMAIN header = 1 .. Len(header)
    BY <1>3, <2>1, SequenceLength, Shortened
  <2>4. Len(header) >= 1
    <3>1. ASSUME Len(header) = 0 PROVE FALSE
      <4>1. Len(header) < Len(file) /\ Len(header) + 1 = 1
        BY <2>3, <3>1
      <4> QED
        BY <2>1, <2>2, <4>1 DEF Headed
    <3> QED
      BY <2>3, <3>1
  <2>5. header # <<>> /\ header[1] = file[1]
    BY <2>2, <2>3, <2>4
  <2>6. \A i \in DOMAIN header : i \in DOMAIN file /\ header[i] = file[i]
    BY <2>2, <2>3
  <2>7. CASE Plain(file)
    <3>1. Unmarked(header) /\ Headed(header)
      BY <2>1, <2>5, <2>6, <2>7 DEF Plain, Unmarked, Headed
    <3>2. ASSUME NEW i \in DOMAIN header, header[i] = NoNewline PROVE i = Len(header)
      <4>1. i = Len(file) /\ i \in 1 .. Len(header)
        BY <2>3, <2>6, <2>7, <3>2 DEF Plain
      <4>2. Len(header) <= Len(file) /\ Len(header) \in Nat /\ Len(file) \in Nat
        BY <2>2, <2>3
      <4> QED
        BY <4>1, <4>2
    <3>3. IsLines(header)
      BY <1>3, <2>1, <2>5, <2>7 DEF IsLines, Plain
    <3>4. Plain(header)
      BY <3>1, <3>2, <3>3 DEF Plain
    <3> QED
      BY <1>4, <2>5, <2>7, <3>4, TidyDigest DEF new
  <2>8. CASE Digested(file)
    <3>1. PICK b \in DOMAIN file, e \in DOMAIN file : Framed(file, b, e)
      BY <2>8 DEF Digested
    <3>2. /\ b \in 1 .. Len(file) /\ e \in 1 .. Len(file) /\ b + 1 < e
          /\ file[b] = HotBegin /\ file[e] = HotEnd
          /\ \A i \in DOMAIN file : i \notin {b, e} => file[i] \notin Markers
          /\ \A i \in 1 .. e : ~IsBullet(file[i])
      BY <2>3, <3>1 DEF Framed
    <3>3. e <= Len(header)
      <4>1. ASSUME Len(header) < e PROVE FALSE
        <5>1. Len(header) < Len(file) /\ Len(header) + 1 \in 1 .. e
          BY <2>3, <3>2, <4>1
        <5> QED
          BY <2>2, <3>2, <5>1
      <4> QED
        BY <2>3, <3>2, <4>1
    <3>4. new = header \o bullets
      <4>1. ~Torn(header)
        <5>1. Len(header) \in DOMAIN header
          BY <2>3, <2>4
        <5> QED
          BY <2>6, <2>8, <5>1 DEF Torn, Digested
      <4> QED
        BY <1>3, <4>1 DEF Joined
    <3>5. /\ IsSequence(new) /\ Len(new) = Len(header) + Len(bullets)
          /\ \A i \in 1 .. Len(header) + Len(bullets) :
               new[i] = IF i <= Len(header) THEN header[i] ELSE bullets[i - Len(header)]
      <4> DEFINE both == header \o bullets
      <4>1. /\ IsSequence(both) /\ Len(both) = Len(header) + Len(bullets)
            /\ \A i \in 1 .. Len(header) + Len(bullets) :
                 both[i] = IF i <= Len(header) THEN header[i] ELSE bullets[i - Len(header)]
        BY <1>3, Concatenated
      <4> HIDE DEF both
      <4>2. new = both
        BY <3>4 DEF both
      <4> QED
        BY <4>1, <4>2
    <3>6. Len(bullets) \in Nat /\ DOMAIN new = 1 .. Len(header) + Len(bullets)
      BY <1>3, <3>5, SequenceLength
    <3>7. \A i \in 1 .. Len(header) : new[i] = file[i]
      BY <2>2, <2>3, <3>5, <3>6
    <3>8. ASSUME NEW i \in DOMAIN new
          PROVE  \/ i \in 1 .. Len(header) /\ i \in DOMAIN file /\ new[i] = file[i]
                 \/ i > Len(header) /\ IsBullet(new[i])
      <4>1. CASE i > Len(header)
        <5>1. i - Len(header) \in 1 .. Len(bullets) /\ new[i] = bullets[i - Len(header)]
          BY <2>3, <3>5, <3>6, <4>1
        <5> QED
          BY <1>3, <4>1, <5>1
      <4>2. CASE i \in 1 .. Len(header)
        BY <2>3, <2>6, <3>7, <4>2
      <4> QED
        BY <2>3, <3>6, <4>1, <4>2
    <3>9. ~IsBullet(NoNewline)
      <4>1. NoNewline[1] = "no newline"
        BY DEF NoNewline
      <4> QED
        BY <4>1 DEF IsBullet
    <3>10. \A i \in DOMAIN new : new[i] # NoNewline
      BY <2>8, <3>8, <3>9 DEF Digested
    <3>11. b \in DOMAIN new /\ e \in DOMAIN new /\ new[b] = HotBegin /\ new[e] = HotEnd
      <4>1. b \in 1 .. Len(header) /\ e \in 1 .. Len(header)
        BY <2>3, <3>2, <3>3
      <4>2. b \in DOMAIN new /\ e \in DOMAIN new
        BY <2>3, <3>6, <4>1
      <4> QED
        BY <3>2, <3>7, <4>1, <4>2
    <3>12. ASSUME NEW i \in DOMAIN new, i \notin {b, e} PROVE new[i] \notin Markers
      BY <3>2, <3>8, <3>12, MarkerLines
    <3>13. \A i \in 1 .. e : i \in 1 .. Len(header) /\ ~IsBullet(new[i])
      BY <2>3, <3>2, <3>3, <3>7
    <3>14. Framed(new, b, e)
      BY <3>2, <3>11, <3>12, <3>13 DEF Framed
    <3>15. new[1] = file[1]
      BY <2>3, <2>4, <3>7
    <3>16. Digested(new) /\ Tidy(new)
      BY <2>1, <3>5, <3>10, <3>11, <3>14, <3>15 DEF Digested, Tidy, Headed
    <3>17. HotDigest(new) = SubSeq(new, b + 1, e - 1) /\ HotDigest(file) = SubSeq(file, b + 1, e - 1)
      BY <2>1, <3>1, <3>5, <3>14, FramedDigest
    <3>18. SubSeq(new, b + 1, e - 1) = SubSeq(file, b + 1, e - 1)
      <4> DEFINE n == (e - 1) - (b + 1) + 1
      <4> DEFINE kept == SubSeq(new, b + 1, e - 1)
      <4> DEFINE was == SubSeq(file, b + 1, e - 1)
      <4>1. /\ b + 1 \in 1 .. Len(new) + 1 /\ e - 1 \in (b + 1) - 1 .. Len(new)
            /\ b + 1 \in 1 .. Len(file) + 1 /\ e - 1 \in (b + 1) - 1 .. Len(file)
        BY <2>2, <2>3, <3>2, <3>3, <3>5, <3>6
      <4>2. /\ IsSequence(kept) /\ Len(kept) = n
            /\ \A i \in 1 .. n : kept[i] = new[(b + 1) + i - 1]
        BY <3>5, <4>1, Cut
      <4>3. /\ IsSequence(was) /\ Len(was) = n
            /\ \A i \in 1 .. n : was[i] = file[(b + 1) + i - 1]
        BY <2>1, <4>1, Cut
      <4>4. \A i \in 1 .. n : (b + 1) + i - 1 \in 1 .. Len(header)
        BY <2>3, <3>2, <3>3
      <4> HIDE DEF n, kept, was
      <4>5. kept = was
        BY <3>7, <4>2, <4>3, <4>4, SequencesEqual
      <4> QED
        BY <4>5 DEF kept, was
    <3>19. Hot(new) = HotDigest(new) /\ Hot(file) = HotDigest(file)
      BY <2>8, <3>16, TidyDigest
    <3> QED
      BY <2>8, <3>16, <3>17, <3>18, <3>19 DEF new
  <2> QED
    BY <1>6, <2>7, <2>8 DEF Tidy
<1> QED
  BY <1>5, <1>6

\* An index without a digest that is cut off when it is rebuilt has none either.
LEMMA CutDigest ==
  ASSUME ~IsSequence(NoFile), NEW file, Tidy(file), Hot(file) = <<>>,
         NEW entries, IsFiniteSet(DOMAIN entries), NEW cut \in CutOff(Rebuilt(file, entries))
  PROVE  Tidy(cut) /\ Hot(cut) = <<>>
<1> DEFINE new == Rebuilt(file, entries)
<1> DEFINE lines == Lines(new)
<1>1. Plain(new)
  <2>1. ~Digested(file)
    BY TidyDigest
  <2> QED
    BY <2>1, RebuiltDigest
<1>2. IsLines(new) /\ Tidy(new) /\ new # NoFile
  BY <1>1 DEF Plain, Tidy, IsLines
<1>3. IsLines(cut) /\ CutFrom(lines, cut)
  BY <1>2, CutLines, CutOffFile
<1>4. IsSequence(lines) /\ Headed(lines) /\ Unmarked(lines) /\ \A i \in DOMAIN lines : lines[i] # NoNewline
  <2>1. CASE new = <<>>
    <3>1. lines = new
      BY <2>1 DEF Lines, Torn
    <3>2. DOMAIN lines = {}
      BY <2>1, <3>1
    <3> QED
      BY <1>2, <2>1, <3>1, <3>2 DEF Headed, Unmarked, IsLines
  <2>2. CASE new # <<>>
    <3>1. /\ IsSequence(lines) /\ lines # <<>>
          /\ ~IsBullet(lines[1]) /\ lines[1] \notin Markers
          /\ \A i \in DOMAIN lines : lines[i] # NoNewline
      BY <1>2, <2>2, TidyLines
    <3>2. /\ Len(lines) \in 1 .. Len(new) /\ \A i \in 1 .. Len(lines) : lines[i] = new[i]
      BY <1>2, <2>2, LinesOfFile
    <3>3. DOMAIN lines = 1 .. Len(lines) /\ DOMAIN new = 1 .. Len(new) /\ Len(new) \in Nat
      BY <1>2, <3>1, SequenceLength DEF IsLines
    <3>4. Unmarked(lines)
      <4> HIDE DEF lines, new
      <4> QED
        BY <1>1, <3>2, <3>3 DEF Plain, Unmarked
    <3> QED
      BY <3>1, <3>4 DEF Headed
  <2> QED
    BY <2>1, <2>2
<1> HIDE DEF new, lines
<1>5. /\ IsSequence(cut) /\ DOMAIN cut = 1 .. Len(cut) /\ Len(cut) \in Nat
      /\ DOMAIN lines = 1 .. Len(lines) /\ Len(lines) \in Nat
  BY <1>3, <1>4, SequenceLength DEF CutFrom
<1>6. ASSUME NEW i \in DOMAIN cut
      PROVE  /\ cut[i] \notin Markers
             /\ cut[i] = NoNewline => i = Len(cut)
             /\ i = 1 => ~IsBullet(cut[i])
  <2>1. CASE i <= Len(lines) /\ cut[i] = lines[i]
    <3>1. i \in DOMAIN lines
      BY <1>5, <2>1
    <3>2. i = 1 => lines # <<>>
      BY <3>1
    <3> QED
      BY <1>4, <2>1, <3>1, <3>2 DEF Unmarked, Headed
  <2>2. CASE i <= Len(lines) /\ cut[i] \in Pieces(lines[i])
    <3>1. i \in DOMAIN lines
      BY <1>5, <2>2
    <3>2. i = 1 => lines # <<>>
      BY <3>1
    <3> QED
      BY <1>4, <2>2, <3>2, PieceOfLine DEF Headed, Markers
  <2>3. CASE cut[i] = NoNewline /\ i = Len(cut) /\ i > 1
    <3>1. NoNewline # HotBegin /\ NoNewline # HotEnd
      BY DEF NoNewline, HotBegin, HotEnd
    <3> QED
      BY <1>5, <2>3, <3>1 DEF Markers
  <2> QED
    BY <1>3, <1>5, <2>1, <2>2, <2>3 DEF CutFrom
<1>7. Unmarked(cut)
  BY <1>6 DEF Unmarked
<1>8. Headed(cut)
  <2>1. ASSUME cut # <<>> PROVE 1 \in DOMAIN cut
    <3>1. Len(cut) >= 1
      BY <1>5, <2>1, Shortened
    <3> QED
      BY <1>5, <3>1
  <2> QED
    BY <1>6, <2>1 DEF Headed
<1>9. Plain(cut) /\ Tidy(cut)
  BY <1>3, <1>6, <1>7, <1>8 DEF Plain, Tidy
<1> QED
  BY <1>9, TidyDigest

\* A history in which every index is tidy, and has the digest that was committed last.
Given(history) ==
  /\ \A i \in DOMAIN history : Tidy(IndexIn(history[i].tree))
  /\ \A i \in DOMAIN history : history[i].by \in Digests =>
       /\ history[i].by # <<>>
       /\ \A j \in i .. Len(history) :
            (\A k \in i + 1 .. j : history[k].by \notin Digests) =>
              Hot(IndexIn(history[j].tree)) = history[i].by

\* The digest in the work directory is the one of the last commit, so that the next
\* commit, whoever makes it, keeps it.
DigestInv ==
  ~spoiled =>
    /\ Tidy(IndexIn(tree))
    /\ Hot(IndexIn(tree)) = Hot(IndexIn(Git!TreeOf(head)))
    /\ Given(head) /\ Given(canonical)

LEMMA MovedDigest ==
  ASSUME ~IsSequence(NoFile), ~spoiled', Tidy(IndexIn(tree)),
         NEW entries, NEW file, NEW by, EntriesWritten(entries), IndexWritten(entries, file, by)
  PROVE  /\ Tidy(file)
         /\ Hot(file) = IF by \in Digests THEN by ELSE Hot(IndexIn(tree))
         /\ by # <<>> \/ by \notin Digests
<1>1. CASE file = IndexIn(tree) /\ by = "nothing"
  BY <1>1, MemoryAssumption
<1>2. CASE file = Rebuilt(IndexIn(tree), entries) /\ by \in {"applied", "nothing"}
  <2>1. DOMAIN entries = Names
    BY AppliedEntries DEF EntriesWritten, EntriesIn
  <2>2. IsFiniteSet(DOMAIN entries) /\ by \notin Digests
    BY <1>2, <2>1, MemoryAssumption
  <2> QED
    BY <1>2, <2>2, RebuiltDigest
<1>3. CASE by \in Digests \ {<<>>} /\ file = WithHotBlock(IndexIn(tree), by) /\ Clean(by)
  <2>1. IsSequence(by) /\ \A i \in DOMAIN by : by[i] # NoNewline
    BY <1>3, MemoryAssumption
  <2> QED
    BY <1>3, <2>1, WrittenDigest
<1>4. CASE /\ file \in CutOff(Rebuilt(IndexIn(tree), entries)) /\ by = "nothing"
           /\ Hot(IndexIn(tree)) = <<>>
  <2>1. DOMAIN entries = Names
    BY AppliedEntries DEF EntriesWritten, EntriesIn
  <2>2. IsFiniteSet(DOMAIN entries) /\ by \notin Digests
    BY <1>4, <2>1, MemoryAssumption
  <2> QED
    BY <1>4, <2>2, CutDigest
<1> QED
  BY <1>1, <1>2, <1>3, <1>4 DEF IndexWritten

LEMMA GivenOneMore ==
  ASSUME NEW history, IsSequence(history), history # <<>>, Given(history),
         NEW commit, Tidy(IndexIn(commit.tree)),
         commit.by # <<>> \/ commit.by \notin Digests,
         Hot(IndexIn(commit.tree)) =
           IF commit.by \in Digests THEN commit.by ELSE Hot(IndexIn(Git!TreeOf(history)))
  PROVE  Given(Append(history, commit))
<1> DEFINE longer == Append(history, commit)
<1> DEFINE n == Len(history)
<1>1. /\ Len(longer) = n + 1 /\ DOMAIN longer = DOMAIN history \cup {n + 1}
      /\ \A i \in DOMAIN history : longer[i] = history[i]
      /\ longer[n + 1] = commit
  BY Longer
<1>2. n \in Nat /\ DOMAIN history = 1 .. n /\ n >= 1
  BY SequenceLength, Shortened
<1>3. Git!TreeOf(history) = history[n].tree
  BY DEF Git!TreeOf
<1> HIDE DEF longer, n
<1>4. ASSUME NEW i \in DOMAIN longer PROVE Tidy(IndexIn(longer[i].tree))
  BY <1>1 DEF Given
<1>5. ASSUME NEW i \in DOMAIN longer, longer[i].by \in Digests
      PROVE  longer[i].by # <<>>
  BY <1>1, <1>5 DEF Given
<1>6. ASSUME NEW i \in DOMAIN longer, longer[i].by \in Digests,
             NEW j \in i .. Len(longer), \A k \in i + 1 .. j : longer[k].by \notin Digests
      PROVE  Hot(IndexIn(longer[j].tree)) = longer[i].by
  <2>1. i \in 1 .. n + 1 /\ j \in 1 .. n + 1 /\ i <= j
    BY <1>1, <1>2
  <2>2. CASE i = n + 1
    <3>1. j = n + 1
      BY <1>2, <2>1, <2>2
    <3> QED
      BY <1>1, <1>6, <2>2, <3>1
  <2>3. CASE i \in 1 .. n /\ j \in 1 .. n
    <3>1. \A k \in i + 1 .. j : k \in DOMAIN history /\ longer[k] = history[k]
      BY <1>1, <1>2, <2>3
    <3>2. longer[i] = history[i] /\ longer[j] = history[j]
      BY <1>1, <1>2, <2>3
    <3>3. j \in i .. Len(history)
      BY <1>2, <2>1, <2>3 DEF n
    <3>4. \A k \in i + 1 .. j : history[k].by \notin Digests
      BY <1>6, <3>1
    <3> QED
      BY <1>2, <1>6, <2>3, <3>2, <3>3, <3>4 DEF Given
  <2>4. CASE i \in 1 .. n /\ j = n + 1
    <3>1. commit.by \notin Digests
      <4>1. n + 1 \in i + 1 .. j
        BY <1>2, <2>4
      <4> QED
        BY <1>1, <1>6, <4>1
    <3>2. \A k \in i + 1 .. n : k \in DOMAIN history /\ k \in i + 1 .. j /\ longer[k] = history[k]
      BY <1>1, <1>2, <2>4
    <3>3. n \in i .. Len(history)
      BY <1>2, <2>4 DEF n
    <3>4. longer[i] = history[i]
      BY <1>1, <1>2, <2>4
    <3>5. \A k \in i + 1 .. n : history[k].by \notin Digests
      BY <1>6, <3>2
    <3>6. Hot(IndexIn(history[n].tree)) = history[i].by
      BY <1>2, <1>6, <2>4, <3>3, <3>4, <3>5 DEF Given
    <3> QED
      BY <1>1, <1>3, <2>4, <3>1, <3>4, <3>6
  <2> QED
    BY <1>2, <2>1, <2>2, <2>3, <2>4
<1>7. Given(longer)
  BY <1>4, <1>5, <1>6 DEF Given
<1> QED
  BY <1>7 DEF longer

LEMMA DigestStep ==
  ASSUME ~IsSequence(NoFile), DirShape, DigestInv, [Next]_vars
  PROVE  DigestInv'
<1> SUFFICES ASSUME ~spoiled'
             PROVE  /\ Tidy(IndexIn(tree'))
                    /\ Hot(IndexIn(tree')) = Hot(IndexIn(Git!TreeOf(head')))
                    /\ Given(head') /\ Given(canonical')
  BY DEF DigestInv, Git!TreeOf
<1>1. ~spoiled
  BY Moves DEF vars
<1>2. /\ Tidy(IndexIn(tree)) /\ Hot(IndexIn(tree)) = Hot(IndexIn(Git!TreeOf(head)))
      /\ Given(head) /\ Given(canonical)
  BY <1>1 DEF DigestInv
<1>3. CASE UNCHANGED vars
  BY <1>2, <1>3 DEF vars, Git!TreeOf
<1>4. CASE FilesMove
  <2>1. PICK entries, file, by :
          /\ EntriesWritten(entries) /\ IndexWritten(entries, file, by)
          /\ tree' = WithFiles(entries, file)
          /\ canonical' = canonical
          /\ \/ head' = Append(head, [tree |-> tree', by |-> by])
             \/ head' = head /\ (by # "nothing" => tree' = Git!TreeOf(head))
    BY <1>4 DEF FilesMove
  <2>2. IndexIn(tree') = file
    BY <2>1, WrittenFiles
  <2>3. /\ Tidy(file)
        /\ Hot(file) = IF by \in Digests THEN by ELSE Hot(IndexIn(tree))
        /\ by # <<>> \/ by \notin Digests
    BY <1>2, <2>1, MovedDigest
  <2> DEFINE commit == [tree |-> tree', by |-> by]
  <2>4. commit.tree = tree' /\ commit.by = by
    OBVIOUS
  <2> HIDE DEF commit
  <2>5. CASE head' = Append(head, commit)
    <3>1. IsSequence(head) /\ head # <<>>
      BY DEF DirShape, ProperHistory
    <3>2. Given(head')
      BY <1>2, <2>2, <2>3, <2>4, <2>5, <3>1, GivenOneMore
    <3>3. Len(head') = Len(head) + 1 /\ head'[Len(head) + 1] = commit
      BY <2>5, <3>1, Longer
    <3>4. Git!TreeOf(head') = tree'
      BY <2>4, <3>3 DEF Git!TreeOf
    <3> QED
      BY <1>2, <2>1, <2>2, <2>3, <3>2, <3>4
  <2>6. CASE head' = head /\ (by # "nothing" => tree' = Git!TreeOf(head))
    <3>1. Git!TreeOf(head') = Git!TreeOf(head)
      BY <2>6
    <3>2. CASE by = "nothing"
      BY <1>2, <2>1, <2>2, <2>3, <2>6, <3>1, <3>2, MemoryAssumption
    <3>3. CASE by # "nothing"
      BY <1>2, <2>1, <2>2, <2>3, <2>6, <3>1, <3>3
    <3> QED
      BY <3>2, <3>3
  <2> QED
    BY <2>1, <2>5, <2>6 DEF commit
<1>5. CASE GitMove
  <2>1. Given(head') /\ Given(canonical')
    BY <1>2, <1>5 DEF GitMove
  <2>2. Tidy(IndexIn(Git!TreeOf(head')))
    <3>1. ProperHistory(head')
      BY <1>5 DEF GitMove, DirShape
    <3> QED
      BY <2>1, <3>1, TipIsProper DEF Given, Git!TreeOf
  <2>3. \/ IndexIn(tree') = IndexIn(Git!TreeOf(head'))
        \/ /\ IndexIn(tree') = IndexIn(tree)
           /\ head' # head => /\ IndexIn(Git!TreeOf(head)) = NoFile
                              /\ IndexIn(Git!TreeOf(head')) = NoFile
    BY <1>5 DEF GitMove, Files, IndexIn
  <2>4. CASE IndexIn(tree') = IndexIn(Git!TreeOf(head'))
    BY <2>1, <2>2, <2>4
  <2>5. CASE IndexIn(tree') = IndexIn(tree) /\ head' = head
    <3>1. Git!TreeOf(head') = Git!TreeOf(head)
      BY <2>5
    <3> QED
      BY <1>2, <2>1, <2>5, <3>1
  <2>6. CASE /\ IndexIn(tree') = IndexIn(tree)
             /\ IndexIn(Git!TreeOf(head)) = NoFile /\ IndexIn(Git!TreeOf(head')) = NoFile
    BY <1>2, <2>1, <2>6
  <2> QED
    BY <2>3, <2>4, <2>5, <2>6
<1> QED
  BY <1>3, <1>4, <1>5, Moves

\* A session is given the digest that the hot cache committed last, whatever was rebuilt,
\* reset and pushed since, until a digest with a line that starts like a bullet or is a
\* marker is written, or one that is not committed, or the write of an index that has a
\* digest is cut off.
THEOREM DigestAlwaysLatest ==
  ASSUME ~IsSequence(NoFile)
  PROVE  Spec => []DigestIsLatest
<1>1. Init => DigestInv
  <2>1. ASSUME Init PROVE DigestInv
    <3> DEFINE commit == [tree |-> [t \in Files |-> NoFile], by |-> "seed"]
    <3>1. canonical = <<commit>> /\ head = canonical /\ tree = Git!TreeOf(head)
      BY <2>1 DEF Init, Git!Init, Files
    <3>2. IndexIn(commit.tree) = NoFile /\ commit.by \notin Digests
      BY MemoryAssumption DEF IndexIn, Files
    <3>3. DOMAIN <<commit>> = {1} /\ <<commit>>[1] = commit
      <4> HIDE DEF commit
      <4> QED
        OBVIOUS
    <3> HIDE DEF commit
    <3>4. Given(<<commit>>)
      BY <3>2, <3>3 DEF Given, Tidy
    <3>5. IndexIn(tree) = NoFile
      <4>1. Len(<<commit>>) = 1
        OBVIOUS
      <4> QED
        BY <3>1, <3>2, <3>3, <4>1 DEF Git!TreeOf
    <3> QED
      BY <3>1, <3>4, <3>5 DEF DigestInv, Tidy
  <2> QED
    BY <2>1
<1>2. DirShape /\ DigestInv /\ [Next]_vars => DigestInv'
  BY DigestStep
<1>3. DigestInv => DigestIsLatest
  <2> SUFFICES ASSUME DigestInv, ~spoiled,
                      NEW i \in DOMAIN head, head[i].by \in Digests,
                      NEW j \in i .. Len(head),
                      \A k \in i + 1 .. j : head[k].by \notin Digests
               PROVE  HotDigest(IndexIn(head[j].tree)) = head[i].by
    BY DEF DigestIsLatest
  <2>1. Hot(IndexIn(head[j].tree)) = head[i].by /\ head[i].by # <<>>
    BY DEF DigestInv, Given
  <2> QED
    BY <2>1 DEF Hot
<1> QED
  BY <1>1, <1>2, <1>3, MemoryShape, PTL DEF Spec
=============================================================================
