------------------------------- MODULE DataLemmas -------------------------------
(***************************************************************************)
(* Facts about numbers and sequences that the proofs of several components *)
(* cite.                                                                   *)
(***************************************************************************)
EXTENDS Integers, Sequences, Functions, FiniteSetTheorems, WellFoundedInduction, TLAPS

-------------------------------------------------------------------------------
(***************************************************************************)
(* A set of naturals has a least element.  With the set of the numbers for *)
(* which a claim fails, this is induction; it is derived from the ordering *)
(* of finite sets, because the induction theorems of the library take an   *)
(* operator as a parameter.                                                *)
(***************************************************************************)
LEMMA NatMinimum ==
  ASSUME NEW T, T \subseteq Nat, T # {}
  PROVE  \E m \in T : \A n \in T : m <= n
<1> DEFINE below == [n \in Nat |-> 0..n]
           F == {below[n] : n \in T}
           R == StrictSubsetOrdering(Nat)
           S == FiniteSubsetsOf(Nat)
<1>1. IsWellFoundedOn(R, S)
  BY FS_StrictSubsetOrderingWellFounded
<1>2. F \subseteq S /\ F # {}
  <2>1. \A n \in Nat : below[n] \in SUBSET Nat /\ IsFiniteSet(below[n])
    BY FS_Interval
  <2> QED BY <2>1 DEF FiniteSubsetsOf
<1>3. PICK x \in F : \A y \in F : ~(<<y, x>> \in R)
  <2> HIDE DEF F, R, S
  <2> QED BY <1>1, <1>2, WFMin
<1>4. PICK m \in T : x = below[m]
  OBVIOUS
<1>5. ASSUME NEW n \in T PROVE m <= n
  <2>1. ~(<<below[n], below[m]>> \in R)
    BY <1>3, <1>4
  <2>2. below[n] \in SUBSET Nat /\ below[m] \in SUBSET Nat
    OBVIOUS
  <2>3. ~(below[n] \subseteq below[m] /\ below[n] # below[m])
    BY <2>1, <2>2 DEF StrictSubsetOrdering
  <2>4. ASSUME n < m PROVE FALSE
    <3>1. m \in 0..m /\ m \notin 0..n /\ 0..n \subseteq 0..m
      BY <2>4
    <3>2. below[n] = 0..n /\ below[m] = 0..m
      OBVIOUS
    <3> QED BY <2>3, <3>1, <3>2
  <2> QED BY <2>4
<1> QED BY <1>5

(* The least element is the one CHOOSE finds. *)
LEMMA LeastChosen ==
  ASSUME NEW T, T \subseteq Nat, T # {}
  PROVE  LET least == CHOOSE i \in T : \A j \in T : i <= j
         IN least \in T /\ \A j \in T : least <= j
BY NatMinimum

(* A set of naturals below a bound has a greatest element. *)
LEMMA NatMaximum ==
  ASSUME NEW n \in Nat, NEW T, T \subseteq 0..n, T # {}
  PROVE  \E m \in T : \A k \in T : k <= m
<1> DEFINE U == {n - k : k \in T}
<1>1. U \subseteq Nat /\ U # {}
  <2>1. ASSUME NEW k \in T PROVE k \in 0..n /\ n - k \in Nat
    <3>1. k \in 0..n
      OBVIOUS
    <3> QED BY <3>1
  <2>2. PICK k : k \in T
    OBVIOUS
  <2>3. n - k \in U
    BY <2>2
  <2> QED BY <2>1, <2>3
<1>2. PICK u \in U : \A v \in U : u <= v
  BY <1>1, NatMinimum
<1>3. PICK m \in T : u = n - m
  OBVIOUS
<1>4. \A k \in T : n - m <= n - k
  BY <1>2, <1>3
<1> QED BY <1>4

-------------------------------------------------------------------------------
(***************************************************************************)
(* A sequence, of whatever it holds.                                       *)
(***************************************************************************)
IsSequence(s) == s \in Seq(Range(s))

LEMMA SequenceFacts ==
  ASSUME NEW s, IsSequence(s)
  PROVE  /\ Len(s) \in Nat /\ DOMAIN s = 1..Len(s)
         /\ s = [i \in 1..Len(s) |-> s[i]]
         /\ s = <<>> <=> Len(s) = 0
<1>1. s \in Seq(Range(s))
  BY DEF IsSequence
<1> QED BY <1>1

LEMMA SequenceOf ==
  ASSUME NEW R, NEW s \in Seq(R)
  PROVE  IsSequence(s) /\ \A i \in 1..Len(s) : s[i] \in R
<1>1. \A i \in 1..Len(s) : s[i] \in Range(s) /\ s[i] \in R
  BY DEF Range
<1>2. s \in Seq(Range(s))
  BY <1>1
<1> QED BY <1>1, <1>2 DEF IsSequence

LEMMA SequenceIn ==
  ASSUME NEW R, NEW s, IsSequence(s), \A i \in 1..Len(s) : s[i] \in R
  PROVE  s \in Seq(R)
BY SequenceFacts

LEMMA TableIsSequence ==
  ASSUME NEW n \in Nat, NEW f, f = [i \in 1..n |-> f[i]]
  PROVE  IsSequence(f) /\ Len(f) = n
<1>1. \A i \in 1..n : f[i] \in Range(f)
  BY DEF Range
<1>2. f \in Seq(Range(f)) /\ Len(f) = n
  BY <1>1
<1> QED BY <1>2 DEF IsSequence

LEMMA EmptySequence == IsSequence(<<>>) /\ Len(<<>>) = 0 /\ DOMAIN <<>> = {}
<1>1. <<>> \in Seq({}) /\ Len(<<>>) = 0 /\ DOMAIN <<>> = {}
  OBVIOUS
<1> QED BY <1>1, SequenceOf

LEMMA AppendFacts ==
  ASSUME NEW s, IsSequence(s), NEW e
  PROVE  /\ IsSequence(Append(s, e)) /\ Append(s, e) # <<>>
         /\ Len(Append(s, e)) = Len(s) + 1
         /\ Append(s, e)[Len(s) + 1] = e
         /\ \A i \in 1..Len(s) : Append(s, e)[i] = s[i]
<1> DEFINE R == Range(s) \cup {e}
<1>1. s \in Seq(R) /\ e \in R
  <2>1. s \in Seq(Range(s))
    BY DEF IsSequence
  <2> QED BY <2>1
<1> HIDE DEF R
<1>2. /\ Append(s, e) \in Seq(R) /\ Append(s, e) # <<>>
      /\ Len(Append(s, e)) = Len(s) + 1
      /\ Append(s, e)[Len(s) + 1] = e
      /\ \A i \in 1..Len(s) : Append(s, e)[i] = s[i]
  BY <1>1
<1> QED BY <1>2, SequenceOf

LEMMA ConcatFacts ==
  ASSUME NEW s, IsSequence(s), NEW t, IsSequence(t)
  PROVE  /\ IsSequence(s \o t)
         /\ Len(s \o t) = Len(s) + Len(t)
         /\ \A i \in 1..Len(s) : (s \o t)[i] = s[i]
         /\ \A i \in 1..Len(t) : (s \o t)[Len(s) + i] = t[i]
<1> DEFINE R == Range(s) \cup Range(t)
<1>1. s \in Seq(R) /\ t \in Seq(R)
  <2>1. s \in Seq(Range(s)) /\ t \in Seq(Range(t))
    BY DEF IsSequence
  <2> QED BY <2>1
<1> HIDE DEF R
<1>2. /\ s \o t \in Seq(R)
      /\ Len(s \o t) = Len(s) + Len(t)
      /\ \A i \in 1..Len(s) : (s \o t)[i] = s[i]
      /\ \A i \in 1..Len(t) : (s \o t)[Len(s) + i] = t[i]
  BY <1>1
<1> QED BY <1>2, SequenceOf

LEMMA ConcatNone ==
  ASSUME NEW s, IsSequence(s)
  PROVE  s \o <<>> = s /\ \A e : s \o <<e>> = Append(s, e)
<1>1. s \in Seq(Range(s))
  BY DEF IsSequence
<1>2. s \o <<>> = s
  BY <1>1
<1>3. ASSUME NEW e PROVE s \o <<e>> = Append(s, e)
  <2>1. s \in Seq(Range(s) \cup {e})
    BY <1>1
  <2> QED BY <2>1
<1> QED BY <1>2, <1>3

LEMMA TailFacts ==
  ASSUME NEW s, IsSequence(s), s # <<>>
  PROVE  /\ Len(s) > 0 /\ Head(s) = s[1]
         /\ IsSequence(Tail(s)) /\ Len(Tail(s)) = Len(s) - 1
         /\ \A i \in 1..Len(Tail(s)) : Tail(s)[i] = s[i + 1]
<1>1. s \in Seq(Range(s))
  BY DEF IsSequence
<1>2. /\ Len(s) > 0 /\ Head(s) = s[1]
      /\ Tail(s) \in Seq(Range(s)) /\ Len(Tail(s)) = Len(s) - 1
      /\ \A i \in 1..Len(Tail(s)) : Tail(s)[i] = s[i + 1]
  BY <1>1
<1> QED BY <1>2, SequenceOf
=================================================================================
