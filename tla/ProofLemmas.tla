----------------------------- MODULE ProofLemmas -----------------------------
(***************************************************************************)
(* What the proofs about several components need of sequences whose        *)
(* elements have no type of their own (call stacks, whose frames hold      *)
(* trees and objects), and of sets of numbers.                             *)
(***************************************************************************)
EXTENDS Integers, SequencesExt, SequenceTheorems, WellFoundedInduction, FiniteSetTheorems, TLAPS

\* Of whatever kind the elements are.
IsSeq(s) == \E T : s \in Seq(T)

\* A push.
LEMMA IsSeqAppend ==
  ASSUME NEW s, IsSeq(s), NEW f
  PROVE  /\ IsSeq(Append(s, f)) /\ Len(s) \in Nat /\ Len(Append(s, f)) = Len(s) + 1
         /\ \A k \in 1..Len(s) : Append(s, f)[k] = s[k]
         /\ Append(s, f)[Len(s) + 1] = f
<1>1. PICK T : s \in Seq(T)
  BY DEF IsSeq
<1>2. s \in Seq(T \cup {f})
  BY <1>1
<1>3. Append(s, f) \in Seq(T \cup {f})
  BY <1>2
<1> QED
  BY <1>1, <1>2, <1>3 DEF IsSeq

\* A pop.
LEMMA IsSeqFront ==
  ASSUME NEW s, IsSeq(s), s # <<>>
  PROVE  /\ IsSeq(Front(s)) /\ Len(s) \in Nat \ {0} /\ Len(Front(s)) = Len(s) - 1
         /\ \A k \in 1..(Len(s) - 1) : Front(s)[k] = s[k]
         /\ Last(s) = s[Len(s)]
<1>1. PICK T : s \in Seq(T)
  BY DEF IsSeq
<1>2. Len(s) \in Nat \ {0} /\ 1 \in Int /\ Len(s) - 1 \in Int
  BY <1>1
<1>3. \A k \in 1..(Len(s) - 1) : s[k] \in T
  BY <1>1, <1>2
<1>4. /\ SubSeq(s, 1, Len(s) - 1) \in Seq(T)
      /\ Len(SubSeq(s, 1, Len(s) - 1)) = IF 1 <= Len(s) - 1 THEN (Len(s) - 1) - 1 + 1 ELSE 0
      /\ \A k \in 1..((Len(s) - 1) - 1 + 1) : SubSeq(s, 1, Len(s) - 1)[k] = s[1 + k - 1]
  BY <1>2, <1>3, SubSeqProperties
<1>5. (Len(s) - 1) - 1 + 1 = Len(s) - 1 /\ \A k \in 1..(Len(s) - 1) : 1 + k - 1 = k
  BY <1>2
<1>6. Len(Front(s)) = Len(s) - 1 /\ IsSeq(Front(s))
  BY <1>2, <1>4, <1>5 DEF Front, IsSeq
<1>7. \A k \in 1..(Len(s) - 1) : Front(s)[k] = s[k]
  BY <1>4, <1>5 DEF Front
<1> QED
  BY <1>2, <1>6, <1>7 DEF Last

\* A number that is the least of its set.
LEMMA Least ==
  ASSUME NEW S \in SUBSET Nat, S # {}
  PROVE  \E m \in S : \A k \in S : m <= k
<1> DEFINE Below(r) == 0..r
           B == { Below(r) : r \in S }
<1>1. B \subseteq FiniteSubsetsOf(Nat) /\ B # {}
  <2>1. \A r \in S : IsFiniteSet(Below(r)) /\ Below(r) \subseteq Nat
    BY FS_Interval
  <2> QED
    BY <2>1 DEF FiniteSubsetsOf
<1>2. PICK b \in B : \A c \in B : ~ (<<c, b>> \in StrictSubsetOrdering(Nat))
  <2> HIDE DEF B
  <2> QED
    BY <1>1, WFMin, FS_StrictSubsetOrderingWellFounded
<1>3. PICK m \in S : b = Below(m)
  OBVIOUS
<1>4. ASSUME NEW k \in S PROVE m <= k
  <2>0. Below(k) \subseteq Nat /\ Below(m) \subseteq Nat /\ Below(k) \in B
    OBVIOUS
  <2>1. ~ (Below(k) \subseteq Below(m) /\ Below(k) # Below(m))
    BY <1>2, <1>3, <2>0 DEF StrictSubsetOrdering
  <2>2. ASSUME k < m PROVE FALSE
    <3>1. m \in Below(m) /\ m \notin Below(k) /\ Below(k) \subseteq Below(m)
      BY <2>2
    <3> QED
      BY <2>1, <3>1
  <2> QED
    BY <2>2
<1> QED
  BY <1>4

\* A number that is the greatest of its set.
LEMMA Greatest ==
  ASSUME NEW n \in Nat, NEW S \in SUBSET (1..n), S # {}
  PROVE  \E m \in S : \A k \in S : k <= m
<1> DEFINE To == { n - i : i \in S }
<1>1. \A i \in S : i \in Int /\ n - i \in Nat
  OBVIOUS
<1>2. To \subseteq Nat /\ To # {}
  BY <1>1
<1>3. PICK d \in To : \A k \in To : d <= k
  <2> HIDE DEF To
  <2> QED
    BY <1>2, Least
<1>4. PICK m \in S : d = n - m
  OBVIOUS
<1>5. ASSUME NEW k \in S PROVE k <= m
  <2>1. n - m <= n - k
    BY <1>3, <1>4
  <2> QED
    BY <1>1, <2>1
<1> QED
  BY <1>5
=============================================================================
