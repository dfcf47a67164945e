---------------------------- MODULE FiniteOrders -----------------------------
(***************************************************************************)
(* Least and greatest elements of finite sets, for arguments by a smallest *)
(* counterexample.                                                         *)
(***************************************************************************)
EXTENDS Integers, FiniteSetTheorems, WellFoundedInduction, TLAPS

\* Among subsets of a finite set, one for each element of S, there is one that has
\* no other of them strictly inside.
LEMMA MinimalSubset ==
  ASSUME NEW S, IsFiniteSet(S), S # {}, NEW g \in [S -> SUBSET S]
  PROVE  \E s \in S : \A t \in S : g[t] \subseteq g[s] => g[t] = g[s]
<1> DEFINE family == {g[s] : s \in S}
<1>1. family # {} /\ family \subseteq FiniteSubsetsOf(S)
  <2>1. \A T \in SUBSET S : IsFiniteSet(T)
    BY FS_Subset
  <2> QED
    BY <2>1 DEF FiniteSubsetsOf
<1>2. \E A \in family : \A B \in family : <<B, A>> \notin StrictSubsetOrdering(S)
  <2> HIDE DEF family
  <2>1. IsWellFoundedOn(StrictSubsetOrdering(S), FiniteSubsetsOf(S))
    BY FS_StrictSubsetOrderingWellFounded
  <2> QED
    BY <1>1, <2>1, WFMin
<1>3. PICK s \in S : \A t \in S : <<g[t], g[s]>> \notin StrictSubsetOrdering(S)
  BY <1>2
<1>4. ASSUME NEW t \in S, g[t] \subseteq g[s], g[t] # g[s] PROVE FALSE
  <2>1. <<g[t], g[s]>> \in (SUBSET S) \X (SUBSET S)
    OBVIOUS
  <2>2. <<g[t], g[s]>> \in StrictSubsetOrdering(S)
    BY <1>4, <2>1 DEF StrictSubsetOrdering
  <2> QED
    BY <1>3, <2>2
<1> QED
  BY <1>4

\* In a finite set that is not empty not every element is below another one.
LEMMA NoAscent ==
  ASSUME NEW S, IsFiniteSet(S), S # {}, NEW f \in [S -> Nat]
  PROVE  \E s \in S : \A t \in S : f[t] <= f[s]
<1> DEFINE above == [s \in S |-> {t \in S : f[s] < f[t]}]
<1>1. \A g \in [S -> SUBSET S] :
        \E s \in S : \A t \in S : g[t] \subseteq g[s] => g[t] = g[s]
  BY MinimalSubset
<1>2. above \in [S -> SUBSET S]
  OBVIOUS
<1>3. PICK s \in S : \A t \in S : above[t] \subseteq above[s] => above[t] = above[s]
  BY <1>1, <1>2
<1>4. ASSUME NEW t \in S, f[s] < f[t] PROVE FALSE
  <2>1. \A u \in S : f[u] \in Nat
    OBVIOUS
  <2>2. t \in above[s] /\ t \notin above[t]
    BY <1>4, <2>1
  <2>3. above[t] \subseteq above[s]
    BY <1>4, <2>1
  <2> QED
    BY <1>3, <2>2, <2>3
<1> QED
  BY <1>4

\* A finite set of numbers has a least one.
LEMMA Least ==
  ASSUME NEW S \in SUBSET Nat, IsFiniteSet(S), S # {}
  PROVE  \E m \in S : \A n \in S : m <= n
<1> DEFINE below == [s \in S |-> {t \in S : t < s}]
<1>1. \A g \in [S -> SUBSET S] :
        \E s \in S : \A t \in S : g[t] \subseteq g[s] => g[t] = g[s]
  BY MinimalSubset
<1>2. below \in [S -> SUBSET S]
  OBVIOUS
<1>3. PICK s \in S : \A t \in S : below[t] \subseteq below[s] => below[t] = below[s]
  BY <1>1, <1>2
<1>4. ASSUME NEW t \in S, t < s PROVE FALSE
  <2>1. \A u \in S : u \in Nat
    OBVIOUS
  <2>2. t \in below[s] /\ t \notin below[t]
    BY <1>4, <2>1
  <2>3. \A u \in S : u < t => u < s
    BY <1>4, <2>1
  <2>4. below[t] \subseteq below[s]
    BY <2>3
  <2> QED
    BY <1>3, <2>2, <2>4
<1> QED
  BY <1>4
=============================================================================
