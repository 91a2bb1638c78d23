----------------------------- MODULE SequenceFacts -----------------------------
(***************************************************************************)
(* What the vectors of the profiler are after one of the operations it     *)
(* uses, element by element: the form in which the proofs need it.         *)
(***************************************************************************)
EXTENDS SequenceTheorems, TLAPS

(* A vector with an element appended: emplace_back.                        *)
LEMMA AppendFacts ==
  ASSUME NEW S, NEW s \in Seq(S), NEW x \in S
  PROVE  /\ Append(s, x) \in Seq(S)
         /\ Len(Append(s, x)) = Len(s) + 1
         /\ \A i \in 1..Len(s) + 1 : \/ i \in 1..Len(s) /\ Append(s, x)[i] = s[i]
                                     \/ i = Len(s) + 1 /\ Append(s, x)[i] = x
<1> DEFINE n == Len(s)
           e == Append(s, x)
<1>1. n \in Nat /\ e \in Seq(S) /\ Len(e) = n + 1
      /\ (\A i \in 1..n : e[i] = s[i]) /\ e[n + 1] = x
  BY AppendProperties, LenProperties
<1> HIDE DEF n, e
<1>2. \A i \in 1..n + 1 : i \in 1..n \/ i = n + 1
  BY <1>1
<1>3. ASSUME NEW i \in 1..n + 1
      PROVE  (i \in 1..n /\ e[i] = s[i]) \/ (i = n + 1 /\ e[i] = x)
  <2>1. CASE i \in 1..n
    BY <1>1, <2>1
  <2>2. CASE i = n + 1
    BY <1>1, <2>2
  <2>3. QED
    BY <1>2, <2>1, <2>2
<1>4. QED
  BY <1>1, <1>3 DEF n, e

(* A vector without its last element: pop_back.                            *)
LEMMA PopFacts ==
  ASSUME NEW S, NEW s \in Seq(S), s # <<>>
  PROVE  /\ Len(s) \in Nat \ {0}
         /\ SubSeq(s, 1, Len(s) - 1) \in Seq(S)
         /\ Len(SubSeq(s, 1, Len(s) - 1)) = Len(s) - 1
         /\ \A i \in 1..Len(s) - 1 : SubSeq(s, 1, Len(s) - 1)[i] = s[i]
<1>1. Len(s) \in Nat \ {0}
  BY EmptySeq
<1> DEFINE n == Len(s) - 1
           f == SubSeq(s, 1, n)
<1>2. n \in Nat /\ \A i \in 1..n : s[i] \in S
  BY <1>1, ElementOfSeq
<1> HIDE DEF n
<1>3. /\ f \in Seq(S)
      /\ Len(f) = IF 1 <= n THEN n - 1 + 1 ELSE 0
      /\ \A i \in 1..n - 1 + 1 : f[i] = s[1 + i - 1]
  BY <1>2, SubSeqProperties
<1>4. Len(f) = n /\ \A i \in 1..n : f[i] = s[i]
  BY <1>2, <1>3
<1>5. QED
  BY <1>1, <1>3, <1>4 DEF n

(* A vector with a page of elements behind it.                             *)
LEMMA ExtendFacts ==
  ASSUME NEW S, NEW s \in Seq(S), NEW n \in Nat, NEW e \in [1..n -> S]
  PROVE  /\ s \o e \in Seq(S)
         /\ Len(s \o e) = Len(s) + n
         /\ \A i \in 1..Len(s) + n : (s \o e)[i] = IF i <= Len(s) THEN s[i] ELSE e[i - Len(s)]
<1>1. e \in Seq(S) /\ Len(e) = n
  OBVIOUS
<1>2. QED
  BY <1>1, ConcatProperties
=============================================================================
