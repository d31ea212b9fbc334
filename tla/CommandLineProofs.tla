--------------------------- MODULE CommandLineProofs ---------------------------
(***************************************************************************)
(* Proofs about a run of the program over files, for any files, however    *)
(* they change while it runs: its exit code stands for every argument, and *)
(* hides no fixture that is worse than it says.                            *)
(***************************************************************************)
EXTENDS CommandLineProperties, VerdictLemmas

-------------------------------------------------------------------------------
(***************************************************************************)
(* What Kept returns: the elements at increasing indices, and every one    *)
(* that is to be kept.                                                     *)
(***************************************************************************)
KeepsTo(f, s, keep, n) ==
  f = [i \in 0..n |-> IF i = 0 THEN <<>>
                      ELSE IF s[i] \in keep THEN Append(f[i - 1], s[i]) ELSE f[i - 1]]

LEMMA KeepsToExists ==
  ASSUME NEW s, IsSequence(s), NEW keep
  PROVE  \E f : KeepsTo(f, s, keep, Len(s))
<1> DEFINE T == {n \in 0..Len(s) : ~\E f : KeepsTo(f, s, keep, n)}
<1> SUFFICES ASSUME T # {} PROVE FALSE
  BY SequenceFacts
<1>1. T \subseteq Nat
  BY SequenceFacts
<1>2. PICK m \in T : \A n \in T : m <= n
  <2> HIDE DEF T
  <2> QED BY <1>1, NatMinimum
<1>3. m \in Nat /\ m \in 0..Len(s) /\ Len(s) \in Nat
  BY <1>1, SequenceFacts
<1>4. CASE m = 0
  <2> DEFINE f == [i \in 0..0 |-> <<>>]
  <2>1. KeepsTo(f, s, keep, 0)
    BY DEF KeepsTo
  <2> QED BY <1>4, <2>1
<1>5. CASE m # 0
  <2>1. m - 1 \in 0..Len(s) /\ m - 1 \notin T
    <3>1. m - 1 \in 0..Len(s) /\ ~(m <= m - 1)
      BY <1>3, <1>5
    <3> QED BY <1>2, <3>1
  <2>2. PICK f : KeepsTo(f, s, keep, m - 1)
    BY <2>1
  <2> DEFINE g == [i \in 0..m |->
                     IF i = m THEN IF s[m] \in keep THEN Append(f[m - 1], s[m]) ELSE f[m - 1]
                     ELSE f[i]]
  <2>3. \A i \in 0..m : g[i] = IF i = 0 THEN <<>>
                               ELSE IF s[i] \in keep THEN Append(g[i - 1], s[i]) ELSE g[i - 1]
    <3> SUFFICES ASSUME NEW i \in 0..m
                 PROVE  g[i] = IF i = 0 THEN <<>>
                               ELSE IF s[i] \in keep THEN Append(g[i - 1], s[i]) ELSE g[i - 1]
      OBVIOUS
    <3>1. CASE i = m
      <4>1. g[m - 1] = f[m - 1]
        BY <1>3, <1>5
      <4> QED BY <1>3, <1>5, <3>1, <4>1
    <3>2. CASE i # m
      <4>1. i \in 0..(m - 1) /\ g[i] = f[i] /\ (i # 0 => g[i - 1] = f[i - 1])
        BY <1>3, <1>5, <3>2
      <4>2. f[i] = IF i = 0 THEN <<>>
                   ELSE IF s[i] \in keep THEN Append(f[i - 1], s[i]) ELSE f[i - 1]
        BY <2>2, <4>1 DEF KeepsTo
      <4> QED BY <4>1, <4>2
    <3> QED BY <3>1, <3>2
  <2>4. KeepsTo(g, s, keep, m)
    <3>1. g = [i \in 0..m |-> g[i]]
      OBVIOUS
    <3> HIDE DEF g
    <3> QED BY <2>3, <3>1 DEF KeepsTo
  <2> QED BY <2>4
<1> QED BY <1>4, <1>5

(* The indices an element of the result comes from. *)
ComesFrom(g, r, s, keep, n) ==
  /\ g \in [1..Len(r) -> 1..n]
  /\ \A j, k \in 1..Len(r) : j < k => g[j] < g[k]
  /\ \A k \in 1..Len(r) : r[k] = s[g[k]] /\ s[g[k]] \in keep
  /\ \A i \in 1..n : s[i] \in keep => \E k \in 1..Len(r) : g[k] = i

LEMMA ComesFromStep ==
  ASSUME NEW s, IsSequence(s), NEW keep, NEW n \in 1..Len(s),
         NEW r, IsSequence(r), \E g : ComesFrom(g, r, s, keep, n - 1)
  PROVE  \E g : ComesFrom(g, IF s[n] \in keep THEN Append(r, s[n]) ELSE r, s, keep, n)
<1>1. Len(s) \in Nat /\ n \in Nat /\ n - 1 \in Nat /\ Len(r) \in Nat
  BY SequenceFacts
<1>2. PICK g : ComesFrom(g, r, s, keep, n - 1)
  OBVIOUS
<1>3. CASE s[n] \notin keep
  <2>1. g \in [1..Len(r) -> 1..n]
    <3>1. g \in [1..Len(r) -> 1..(n - 1)] /\ 1..(n - 1) \subseteq 1..n
      BY <1>1, <1>2 DEF ComesFrom
    <3> QED BY <3>1
  <2>2. \A i \in 1..n : s[i] \in keep => i \in 1..(n - 1)
    <3>1. \A i \in 1..n : i = n \/ i \in 1..(n - 1)
      BY <1>1
    <3> QED BY <1>3, <3>1
  <2>3. ComesFrom(g, r, s, keep, n)
    BY <1>2, <2>1, <2>2 DEF ComesFrom
  <2> QED BY <1>3, <2>3
<1>4. CASE s[n] \in keep
  <2> DEFINE t == Append(r, s[n])
             h == [k \in 1..(Len(r) + 1) |-> IF k = Len(r) + 1 THEN n ELSE g[k]]
  <2>1. /\ IsSequence(t) /\ Len(t) = Len(r) + 1
        /\ t[Len(r) + 1] = s[n] /\ \A k \in 1..Len(r) : t[k] = r[k]
    BY AppendFacts
  <2>2. \A k \in 1..Len(t) : k = Len(r) + 1 \/ k \in 1..Len(r)
    BY <1>1, <2>1
  <2>3. \A k \in 1..Len(r) : g[k] \in 1..(n - 1) /\ g[k] \in Int /\ g[k] < n /\ g[k] \in 1..n
    <3>1. \A k \in 1..Len(r) : g[k] \in 1..(n - 1)
      BY <1>2 DEF ComesFrom
    <3> QED BY <1>1, <3>1
  <2>4. /\ \A k \in 1..Len(r) : h[k] = g[k] /\ k \in 1..Len(t)
        /\ h[Len(r) + 1] = n /\ Len(r) + 1 \in 1..Len(t)
    BY <1>1, <2>1
  <2>5. h = [k \in 1..Len(t) |-> h[k]]
    BY <2>1
  <2> HIDE DEF t, h
  <2>6. h \in [1..Len(t) -> 1..n]
    <3>1. n \in 1..n
      BY <1>1
    <3>2. \A k \in 1..Len(t) : h[k] \in 1..n
      BY <2>2, <2>3, <2>4, <3>1
    <3> QED BY <2>5, <3>2
  <2>7. ASSUME NEW j \in 1..Len(t), NEW k \in 1..Len(t), j < k PROVE h[j] < h[k]
    <3>1. j \in 1..Len(r)
      BY <1>1, <2>1, <2>7
    <3>2. CASE k \in 1..Len(r)
      BY <1>2, <2>4, <2>7, <3>1, <3>2 DEF ComesFrom
    <3>3. CASE k = Len(r) + 1
      BY <2>3, <2>4, <3>1, <3>3
    <3> QED BY <2>2, <3>2, <3>3
  <2>8. \A k \in 1..Len(t) : t[k] = s[h[k]] /\ s[h[k]] \in keep
    <3>1. \A k \in 1..Len(r) : t[k] = s[h[k]] /\ s[h[k]] \in keep
      BY <1>2, <2>1, <2>4 DEF ComesFrom
    <3>2. t[Len(r) + 1] = s[h[Len(r) + 1]] /\ s[h[Len(r) + 1]] \in keep
      BY <1>4, <2>1, <2>4
    <3> QED BY <2>2, <3>1, <3>2
  <2>9. ASSUME NEW i \in 1..n, s[i] \in keep PROVE \E k \in 1..Len(t) : h[k] = i
    <3>1. CASE i = n
      BY <2>4, <3>1
    <3>2. CASE i # n
      <4>1. i \in 1..(n - 1)
        BY <1>1, <3>2
      <4>2. PICK k \in 1..Len(r) : g[k] = i
        BY <1>2, <2>9, <4>1 DEF ComesFrom
      <4> QED BY <2>4, <4>2
    <3> QED BY <3>1, <3>2
  <2>10. ComesFrom(h, t, s, keep, n)
    BY <2>6, <2>7, <2>8, <2>9 DEF ComesFrom
  <2> QED BY <1>4, <2>10 DEF t
<1> QED BY <1>3, <1>4

LEMMA KeptFacts ==
  ASSUME NEW s, IsSequence(s), NEW keep
  PROVE  IsSequence(Kept(s, keep)) /\ \E g : ComesFrom(g, Kept(s, keep), s, keep, Len(s))
<1> DEFINE f == CHOOSE f : KeepsTo(f, s, keep, Len(s))
           Good(n) == IsSequence(f[n]) /\ \E g : ComesFrom(g, f[n], s, keep, n)
           T == {n \in 0..Len(s) : ~Good(n)}
<1>1. KeepsTo(f, s, keep, Len(s))
  BY KeepsToExists
<1>2. Kept(s, keep) = f[Len(s)]
  BY DEF Kept, KeepsTo
<1> HIDE DEF f
<1>3. Len(s) \in Nat /\ Len(s) \in 0..Len(s)
  BY SequenceFacts
<1>4. f[0] = <<>> /\ \A i \in 1..Len(s) : f[i] = IF s[i] \in keep THEN Append(f[i - 1], s[i])
                                                   ELSE f[i - 1]
  <2>1. \A i \in 0..Len(s) :
          f[i] = IF i = 0 THEN <<>>
                 ELSE IF s[i] \in keep THEN Append(f[i - 1], s[i]) ELSE f[i - 1]
    BY <1>1 DEF KeepsTo
  <2>2. 0 \in 0..Len(s) /\ \A i \in 1..Len(s) : i \in 0..Len(s) /\ i # 0
    BY <1>3
  <2> QED BY <2>1, <2>2
<1>5. Good(0)
  <2> DEFINE g == [k \in 1..0 |-> k]
  <2>1. Len(<<>>) = 0 /\ g \in [1..0 -> 1..0] /\ 1..0 = {}
    OBVIOUS
  <2> HIDE DEF g
  <2>2. ComesFrom(g, <<>>, s, keep, 0)
    BY <2>1 DEF ComesFrom
  <2>3. f[0] = <<>>
    BY <1>4
  <2>4. \E h : ComesFrom(h, f[0], s, keep, 0)
    BY <2>2, <2>3
  <2> QED BY <2>3, <2>4, EmptySequence
<1>6. ASSUME NEW n \in 1..Len(s), Good(n - 1) PROVE Good(n)
  <2>1. f[n] = IF s[n] \in keep THEN Append(f[n - 1], s[n]) ELSE f[n - 1]
    BY <1>4
  <2>2. \E g : ComesFrom(g, f[n], s, keep, n)
    BY <1>6, <2>1, ComesFromStep
  <2>3. IsSequence(f[n])
    BY <1>6, <2>1, AppendFacts
  <2> QED BY <2>2, <2>3
<1>7. T = {}
  <2> SUFFICES ASSUME T # {} PROVE FALSE
    OBVIOUS
  <2>1. T \subseteq Nat
    BY <1>3
  <2>2. PICK m \in T : \A n \in T : m <= n
    <3> HIDE DEF T
    <3> QED BY <2>1, NatMinimum
  <2>3. m \in 0..Len(s) /\ ~Good(m)
    OBVIOUS
  <2> HIDE DEF Good
  <2>4. m \in 1..Len(s) /\ m - 1 \in 0..Len(s) /\ ~(m <= m - 1)
    BY <1>3, <1>5, <2>3
  <2>5. Good(m - 1)
    BY <2>2, <2>4
  <2> QED BY <1>6, <2>3, <2>4, <2>5
<1>8. Good(Len(s))
  BY <1>3, <1>7
<1> QED BY <1>2, <1>8

-------------------------------------------------------------------------------
(***************************************************************************)
(* The paths: each has one position, Sorted goes by it, and the            *)
(* directories above a path are found through its parent.                  *)
(***************************************************************************)
LEMMA PathFacts ==
  /\ IsSequence(Paths) /\ Len(Paths) \in Nat
  /\ \A i \in 1..Len(Paths) : Paths[i] \in PathSet /\ Position(Paths[i]) = i
  /\ \A path \in PathSet : Position(path) \in 1..Len(Paths) /\ Paths[Position(path)] = path
<1>1. IsSequence(Paths)
  BY TreeAssumption, SequenceOf
<1>2. DOMAIN Paths = 1..Len(Paths) /\ Len(Paths) \in Nat
  BY <1>1, SequenceFacts
<1>3. \A i \in 1..Len(Paths) : Paths[i] \in PathSet
  BY <1>2 DEF PathSet
<1>4. ASSUME NEW i \in 1..Len(Paths) PROVE Position(Paths[i]) = i
  <2>1. \A j \in DOMAIN Paths : Paths[j] = Paths[i] => j = i
    BY <1>2, TreeAssumption
  <2> QED BY <1>2, <2>1 DEF Position
<1>5. ASSUME NEW path \in PathSet
      PROVE  Position(path) \in 1..Len(Paths) /\ Paths[Position(path)] = path
  BY <1>2, <1>4, <1>5 DEF PathSet
<1> QED BY <1>1, <1>2, <1>3, <1>4, <1>5

(* The elements of a sequence of paths, and their order. *)
Lists(s, paths) ==
  /\ IsSequence(s)
  /\ \A k \in 1..Len(s) : s[k] \in paths
  /\ \A path \in paths : \E k \in 1..Len(s) : s[k] = path

Ascending(s) == \A j, k \in 1..Len(s) : j < k => Position(s[j]) < Position(s[k])

LEMMA SortedFacts ==
  ASSUME NEW paths, paths \subseteq PathSet
  PROVE  Lists(Sorted(paths), paths) /\ Ascending(Sorted(paths))
<1>1. PICK g : ComesFrom(g, Kept(Paths, paths), Paths, paths, Len(Paths))
  BY KeptFacts, PathFacts
<1>2. IsSequence(Kept(Paths, paths))
  BY KeptFacts, PathFacts
<1> DEFINE s == Kept(Paths, paths)
<1> HIDE DEF s
<1>3. /\ g \in [1..Len(s) -> 1..Len(Paths)]
      /\ \A j, k \in 1..Len(s) : j < k => g[j] < g[k]
      /\ \A k \in 1..Len(s) : s[k] = Paths[g[k]] /\ s[k] \in paths
      /\ \A i \in 1..Len(Paths) : Paths[i] \in paths => \E k \in 1..Len(s) : g[k] = i
  BY <1>1 DEF ComesFrom, s
<1>4. ASSUME NEW path \in paths PROVE \E k \in 1..Len(s) : s[k] = path
  <2>1. Position(path) \in 1..Len(Paths) /\ Paths[Position(path)] = path
    BY PathFacts
  <2> QED BY <1>3, <2>1
<1>5. \A k \in 1..Len(s) : Position(s[k]) = g[k]
  BY <1>3, PathFacts
<1>6. Lists(s, paths)
  BY <1>2, <1>3, <1>4 DEF Lists, s
<1>7. Ascending(s)
  BY <1>3, <1>5 DEF Ascending
<1> QED BY <1>6, <1>7 DEF Sorted, s

First(n) == {Paths[i] : i \in 1..n}

AboveTo(f, n) ==
  f = [path \in First(n) |->
         {Parent[path]} \cup (IF Parent[path] = Top THEN {} ELSE f[Parent[path]])]

LEMMA ParentFirst ==
  ASSUME NEW n \in 0..Len(Paths), NEW path \in First(n)
  PROVE  Parent[path] = Top \/ Parent[path] \in First(n)
<1>1. PICK i \in 1..n : path = Paths[i]
  BY DEF First
<1>2. i \in DOMAIN Paths /\ 1..(i - 1) \subseteq 1..n
  BY <1>1, PathFacts, SequenceFacts
<1>3. Parent[path] = Top \/ \E j \in 1..(i - 1) : Parent[path] = Paths[j]
  BY <1>1, <1>2, TreeAssumption
<1> QED BY <1>2, <1>3 DEF First

LEMMA AboveStep ==
  ASSUME NEW n \in 1..Len(Paths), NEW f, AboveTo(f, n - 1)
  PROVE  \E g : AboveTo(g, n)
<1> DEFINE step(h, path) ==
             {Parent[path]} \cup (IF Parent[path] = Top THEN {} ELSE h[Parent[path]])
           g == [path \in First(n) |-> IF path = Paths[n] THEN step(f, path) ELSE f[path]]
<1>1. n \in Nat /\ n \in DOMAIN Paths /\ n - 1 \in 0..Len(Paths) /\ Len(Paths) \in Nat
  BY PathFacts, SequenceFacts
<1>2. Paths[n] \notin First(n - 1)
  <2> SUFFICES ASSUME NEW i \in 1..(n - 1), Paths[i] = Paths[n] PROVE FALSE
    BY DEF First
  <2>1. i \in DOMAIN Paths /\ i # n
    BY <1>1, PathFacts, SequenceFacts
  <2> QED BY <1>1, <2>1, TreeAssumption
<1>3. First(n) = First(n - 1) \cup {Paths[n]}
  <2>1. 1..n = 1..(n - 1) \cup {n}
    BY <1>1
  <2> HIDE DEF g
  <2> QED BY <2>1 DEF First
<1>4. \A path \in First(n) : Parent[path] = Top \/ Parent[path] \in First(n - 1)
  <2>1. ASSUME NEW path \in First(n - 1)
        PROVE  Parent[path] = Top \/ Parent[path] \in First(n - 1)
    BY <1>1, ParentFirst
  <2>2. Parent[Paths[n]] = Top \/ \E j \in 1..(n - 1) : Parent[Paths[n]] = Paths[j]
    BY <1>1, TreeAssumption
  <2>3. Parent[Paths[n]] = Top \/ Parent[Paths[n]] \in First(n - 1)
    BY <2>2 DEF First
  <2> QED BY <1>3, <2>1, <2>3
<1>5. \A path \in First(n - 1) : g[path] = f[path] /\ f[path] = step(f, path)
  <2>1. \A path \in First(n - 1) : g[path] = f[path]
    BY <1>2, <1>3
  <2>2. \A path \in First(n - 1) : f[path] = step(f, path)
    BY DEF AboveTo
  <2> QED BY <2>1, <2>2
<1>6. g[Paths[n]] = step(f, Paths[n])
  BY <1>3
<1>7. g = [path \in First(n) |-> g[path]]
  OBVIOUS
<1> HIDE DEF g
<1>8. \A path \in First(n) : step(g, path) = step(f, path)
  BY <1>4, <1>5
<1> HIDE DEF step
<1>9. \A path \in First(n) : g[path] = step(g, path)
  BY <1>3, <1>5, <1>6, <1>8
<1> QED BY <1>7, <1>9 DEF AboveTo, step

LEMMA AboveFacts ==
  \A path \in PathSet :
    Above[path] = {Parent[path]} \cup (IF Parent[path] = Top THEN {} ELSE Above[Parent[path]])
<1> DEFINE T == {n \in 0..Len(Paths) : ~\E f : AboveTo(f, n)}
<1>1. Len(Paths) \in Nat
  BY PathFacts
<1>2. T = {}
  <2> SUFFICES ASSUME T # {} PROVE FALSE
    OBVIOUS
  <2>1. T \subseteq Nat
    BY <1>1
  <2>2. PICK m \in T : \A n \in T : m <= n
    <3> HIDE DEF T
    <3> QED BY <2>1, NatMinimum
  <2>3. m \in 0..Len(Paths) /\ ~\E f : AboveTo(f, m)
    OBVIOUS
  <2>4. m # 0
    <3> DEFINE f == [path \in {} |-> {}]
    <3>1. First(0) = {}
      BY DEF First
    <3>2. AboveTo(f, 0)
      BY <3>1 DEF AboveTo
    <3> QED BY <2>3, <3>2
  <2>5. m \in 1..Len(Paths) /\ m - 1 \in 0..Len(Paths) /\ ~(m <= m - 1)
    BY <1>1, <2>3, <2>4
  <2>6. \E f : AboveTo(f, m - 1)
    BY <2>2, <2>5
  <2> QED BY <2>3, <2>5, <2>6, AboveStep
<1>3. \E f : AboveTo(f, Len(Paths))
  BY <1>1, <1>2
<1>4. First(Len(Paths)) = PathSet
  BY PathFacts, SequenceFacts DEF First, PathSet
<1> DEFINE above == CHOOSE f : AboveTo(f, Len(Paths))
<1>5. AboveTo(above, Len(Paths))
  BY <1>3
<1>6. Above = above
  BY <1>4 DEF Above, AboveTo
<1> HIDE DEF above
<1> QED BY <1>4, <1>5, <1>6 DEF AboveTo

-------------------------------------------------------------------------------
(***************************************************************************)
(* What is read from a file is a document there is, or none.               *)
(***************************************************************************)
TextFacts(lines) ==
  IsSequence(lines) /\ \A i \in 1..Len(lines) : WellFormedLine(lines[i])

LEMMA TextIs ==
  ASSUME NEW lines, WellFormedText(lines)
  PROVE  TextFacts(lines)
<1>1. lines \in Seq(ToSet(lines)) <=> IsSequence(lines)
  BY DEF ToSet, Range, IsSequence
<1> QED BY <1>1, SequenceFacts DEF WellFormedText, TextFacts

Found(document) == document \in DOMAIN Documents \/ document = NoDocument

LEMMA FirstDocumentFound ==
  ASSUME NEW lines, TextFacts(lines)
  PROVE  Found(FirstDocument(lines))
<1> DEFINE keep == {line \in ToSet(lines) : ~IsComment(line)}
           meaningful == Kept(lines, keep)
           rest == IF meaningful # <<>> /\ Head(meaningful).mark = "separator"
                   THEN Tail(meaningful) ELSE meaningful
<1>1. TextFacts(lines)
  OBVIOUS
<1>2. IsSequence(meaningful) /\ \E g : ComesFrom(g, meaningful, lines, keep, Len(lines))
  BY <1>1, KeptFacts DEF TextFacts
<1>3. \A k \in 1..Len(meaningful) :
        meaningful[k].mark # "comment" /\ WellFormedLine(meaningful[k])
  <2> HIDE DEF meaningful
  <2>1. PICK g : ComesFrom(g, meaningful, lines, keep, Len(lines))
    BY <1>2
  <2>2. \A k \in 1..Len(meaningful) :
          /\ meaningful[k] = lines[g[k]] /\ g[k] \in 1..Len(lines) /\ lines[g[k]] \in keep
    BY <2>1 DEF ComesFrom
  <2> QED BY <1>1, <2>2 DEF TextFacts, IsComment
<1>4. FirstDocument(lines) = IF \/ rest = <<>> \/ Head(rest).mark = "separator"
                                \/ (rest # meaningful /\ Head(rest).mark = "inline")
                             THEN NoDocument ELSE Head(rest).document
  BY DEF FirstDocument, WithoutComments
<1> HIDE DEF meaningful
<1>5. IsSequence(rest)
  BY <1>2, TailFacts
<1>6. \A k \in 1..Len(rest) : rest[k].mark # "comment" /\ WellFormedLine(rest[k])
  <2>1. CASE meaningful # <<>> /\ rest = Tail(meaningful)
    <3>1. /\ Len(Tail(meaningful)) = Len(meaningful) - 1 /\ Len(meaningful) \in Nat
          /\ \A k \in 1..Len(Tail(meaningful)) : Tail(meaningful)[k] = meaningful[k + 1]
      BY <1>2, <2>1, TailFacts, SequenceFacts
    <3>2. \A k \in 1..Len(Tail(meaningful)) : k + 1 \in 1..Len(meaningful)
      BY <3>1
    <3> QED BY <1>3, <2>1, <3>1, <3>2
  <2>2. CASE rest = meaningful
    BY <1>3, <2>2
  <2> QED BY <2>1, <2>2
<1> HIDE DEF rest
<1>7. ASSUME rest # <<>>, Head(rest).mark # "separator"
      PROVE  Head(rest).document \in DOMAIN Documents
  <2>1. Head(rest) = rest[1] /\ 1 \in 1..Len(rest)
    BY <1>5, <1>7, TailFacts, SequenceFacts
  <2> QED BY <1>6, <1>7, <2>1 DEF WellFormedLine
<1> QED BY <1>4, <1>7 DEF Found

(* The split of a text, as far as a line. *)
GoodSplit(split) ==
  \E texts, current, separated :
    /\ split = [texts |-> texts, current |-> current, separated |-> separated]
    /\ IsSequence(texts) /\ \A i \in 1..Len(texts) : TextFacts(texts[i])
    /\ TextFacts(current)

LEMMA AppendText ==
  ASSUME NEW texts, IsSequence(texts), \A i \in 1..Len(texts) : TextFacts(texts[i]),
         NEW text, TextFacts(text)
  PROVE  /\ IsSequence(Append(texts, text))
         /\ \A i \in 1..Len(Append(texts, text)) : TextFacts(Append(texts, text)[i])
<1>1. \A i \in 1..(Len(texts) + 1) : i \in 1..Len(texts) \/ i = Len(texts) + 1
  BY SequenceFacts
<1> QED BY <1>1, AppendFacts

LEMMA AppendLine ==
  ASSUME NEW lines, TextFacts(lines), NEW line, WellFormedLine(line)
  PROVE  TextFacts(Append(lines, line))
<1>1. IsSequence(lines) /\ \A i \in 1..Len(lines) : WellFormedLine(lines[i])
  BY DEF TextFacts
<1>2. \A i \in 1..(Len(lines) + 1) : i \in 1..Len(lines) \/ i = Len(lines) + 1
  BY <1>1, SequenceFacts
<1>3. \A i \in 1..Len(Append(lines, line)) : WellFormedLine(Append(lines, line)[i])
  BY <1>1, <1>2, AppendFacts
<1> QED BY <1>1, <1>3, AppendFacts DEF TextFacts

LEMMA NoText == TextFacts(<<>>)
<1>1. 1..0 = {}
  OBVIOUS
<1> QED BY <1>1, EmptySequence DEF TextFacts

LEMMA SplitStep ==
  ASSUME NEW split, GoodSplit(split), NEW line, WellFormedLine(line)
  PROVE  GoodSplit(SplitLine(split, line))
<1>1. PICK texts, current, separated :
        /\ split = [texts |-> texts, current |-> current, separated |-> separated]
        /\ IsSequence(texts) /\ \A i \in 1..Len(texts) : TextFacts(texts[i])
        /\ TextFacts(current)
  BY DEF GoodSplit
<1>2. CASE line.mark # "separator"
  <2>1. SplitLine(split, line)
          = [texts |-> texts, current |-> Append(current, line), separated |-> separated]
    BY <1>1, <1>2 DEF SplitLine
  <2>2. TextFacts(Append(current, line))
    BY <1>1, AppendLine
  <2> QED BY <1>1, <2>1, <2>2 DEF GoodSplit
<1>3. CASE line.mark = "separator" /\ ~split.separated /\ Blank(split.current)
  <2>1. SplitLine(split, line) = [texts |-> texts, current |-> <<>>, separated |-> TRUE]
    BY <1>1, <1>3 DEF SplitLine
  <2> QED BY <1>1, <2>1, NoText DEF GoodSplit
<1>4. CASE line.mark = "separator" /\ ~(~split.separated /\ Blank(split.current))
  <2>1. SplitLine(split, line)
          = [texts |-> Append(texts, current), current |-> <<>>, separated |-> TRUE]
    BY <1>1, <1>4 DEF SplitLine
  <2> QED BY <1>1, <2>1, NoText, AppendText DEF GoodSplit
<1> QED BY <1>2, <1>3, <1>4

Start == [texts |-> <<>>, current |-> <<>>, separated |-> FALSE]

SplitsTo(f, lines, n) ==
  f = [i \in 0..n |-> IF i = 0 THEN Start ELSE SplitLine(f[i - 1], lines[i])]

LEMMA SplitsToExists ==
  ASSUME NEW lines, IsSequence(lines)
  PROVE  \E f : SplitsTo(f, lines, Len(lines))
<1> DEFINE T == {n \in 0..Len(lines) : ~\E f : SplitsTo(f, lines, n)}
<1> SUFFICES ASSUME T # {} PROVE FALSE
  BY SequenceFacts
<1>1. T \subseteq Nat
  BY SequenceFacts
<1>2. PICK m \in T : \A n \in T : m <= n
  <2> HIDE DEF T
  <2> QED BY <1>1, NatMinimum
<1>3. m \in Nat /\ m \in 0..Len(lines) /\ Len(lines) \in Nat
  BY <1>1, SequenceFacts
<1>4. CASE m = 0
  <2> DEFINE f == [i \in 0..0 |-> Start]
  <2>1. SplitsTo(f, lines, 0)
    BY DEF SplitsTo
  <2> QED BY <1>4, <2>1
<1>5. CASE m # 0
  <2>1. m - 1 \in 0..Len(lines) /\ m - 1 \notin T
    <3>1. m - 1 \in 0..Len(lines) /\ ~(m <= m - 1)
      BY <1>3, <1>5
    <3> QED BY <1>2, <3>1
  <2>2. PICK f : SplitsTo(f, lines, m - 1)
    BY <2>1
  <2> DEFINE g == [i \in 0..m |-> IF i = m THEN SplitLine(f[m - 1], lines[m]) ELSE f[i]]
  <2>3. ASSUME NEW i \in 0..m
        PROVE  g[i] = IF i = 0 THEN Start ELSE SplitLine(g[i - 1], lines[i])
    <3>1. CASE i = m
      <4>1. g[m - 1] = f[m - 1]
        BY <1>3, <1>5
      <4> QED BY <1>3, <1>5, <3>1, <4>1
    <3>2. CASE i # m
      <4>1. i \in 0..(m - 1) /\ g[i] = f[i] /\ (i # 0 => g[i - 1] = f[i - 1])
        BY <1>3, <1>5, <3>2
      <4>2. f[i] = IF i = 0 THEN Start ELSE SplitLine(f[i - 1], lines[i])
        BY <2>2, <4>1 DEF SplitsTo
      <4> QED BY <4>1, <4>2
    <3> QED BY <3>1, <3>2
  <2>4. SplitsTo(g, lines, m)
    <3>1. g = [i \in 0..m |-> g[i]]
      OBVIOUS
    <3> HIDE DEF g
    <3> QED BY <2>3, <3>1 DEF SplitsTo
  <2> QED BY <2>4
<1> QED BY <1>4, <1>5

LEMMA SplitFacts ==
  ASSUME NEW lines, WellFormedText(lines)
  PROVE  /\ IsSequence(SplitDocuments(lines))
         /\ \A i \in 1..Len(SplitDocuments(lines)) : TextFacts(SplitDocuments(lines)[i])
<1> DEFINE f == CHOOSE f : SplitsTo(f, lines, Len(lines))
           split == f[Len(lines)]
           T == {n \in 0..Len(lines) : ~GoodSplit(f[n])}
<1>1. TextFacts(lines)
  BY TextIs
<1>2. IsSequence(lines) /\ Len(lines) \in Nat /\ \A i \in 1..Len(lines) : WellFormedLine(lines[i])
  BY <1>1, SequenceFacts DEF TextFacts
<1>3. SplitsTo(f, lines, Len(lines))
  BY <1>2, SplitsToExists
<1>4. SplitDocuments(lines) = IF split.separated \/ split.current # <<>>
                              THEN Append(split.texts, split.current) ELSE split.texts
  BY DEF SplitDocuments, SplitsTo, Start
<1> HIDE DEF f
<1>5. f[0] = Start /\ \A i \in 1..Len(lines) : f[i] = SplitLine(f[i - 1], lines[i])
  <2>1. \A i \in 0..Len(lines) : f[i] = IF i = 0 THEN Start ELSE SplitLine(f[i - 1], lines[i])
    BY <1>3 DEF SplitsTo
  <2>2. 0 \in 0..Len(lines) /\ \A i \in 1..Len(lines) : i \in 0..Len(lines) /\ i # 0
    BY <1>2
  <2> QED BY <2>1, <2>2
<1>6. GoodSplit(Start)
  <2>1. IsSequence(<<>>) /\ \A i \in 1..Len(<<>>) : TextFacts(<<>>[i])
    BY EmptySequence
  <2> QED BY <2>1, NoText DEF GoodSplit, Start
<1>7. T = {}
  <2> SUFFICES ASSUME T # {} PROVE FALSE
    OBVIOUS
  <2>1. T \subseteq Nat
    BY <1>2
  <2>2. PICK m \in T : \A n \in T : m <= n
    <3> HIDE DEF T
    <3> QED BY <2>1, NatMinimum
  <2>3. m \in 0..Len(lines) /\ ~GoodSplit(f[m])
    OBVIOUS
  <2>4. m # 0
    BY <1>5, <1>6, <2>3
  <2>5. m \in 1..Len(lines) /\ m - 1 \in 0..Len(lines) /\ ~(m <= m - 1)
    BY <1>2, <2>3, <2>4
  <2>6. GoodSplit(f[m - 1])
    BY <2>2, <2>5
  <2> QED BY <1>2, <1>5, <2>3, <2>5, <2>6, SplitStep
<1>8. GoodSplit(split)
  BY <1>2, <1>7
<1> HIDE DEF split
<1>9. PICK texts, current, separated :
        /\ split = [texts |-> texts, current |-> current, separated |-> separated]
        /\ IsSequence(texts) /\ \A i \in 1..Len(texts) : TextFacts(texts[i])
        /\ TextFacts(current)
  BY <1>8 DEF GoodSplit
<1>10. split.texts = texts /\ split.current = current
  BY <1>9
<1>11. SplitDocuments(lines) \in {texts, Append(texts, current)}
  BY <1>4, <1>10
<1> QED BY <1>9, <1>11, AppendText

(* The documents of a file. *)
LEMMA DecodedFound ==
  ASSUME NEW path, WellFormedText(tree[path].lines)
  PROVE  /\ IsSequence(Decoded(path))
         /\ \A i \in 1..Len(Decoded(path)) : Found(Decoded(path)[i].document)
<1> DEFINE texts == SplitDocuments(tree[path].lines)
<1>1. IsSequence(texts) /\ \A i \in 1..Len(texts) : TextFacts(texts[i])
  BY SplitFacts
<1>2. Decoded(path)
        = [i \in DOMAIN texts |->
             [path |-> path, index |-> i, document |-> FirstDocument(texts[i])]]
  BY DEF Decoded
<1> HIDE DEF texts
<1>3. DOMAIN texts = 1..Len(texts) /\ Len(texts) \in Nat
  BY <1>1, SequenceFacts
<1>4. IsSequence(Decoded(path)) /\ Len(Decoded(path)) = Len(texts)
  <2>1. Decoded(path) = [i \in 1..Len(texts) |-> Decoded(path)[i]]
    BY <1>2, <1>3
  <2> QED BY <1>3, <2>1, TableIsSequence
<1>5. ASSUME NEW i \in 1..Len(texts) PROVE Found(Decoded(path)[i].document)
  <2>1. Decoded(path)[i].document = FirstDocument(texts[i])
    BY <1>2, <1>3
  <2> QED BY <1>1, <2>1, FirstDocumentFound
<1> QED BY <1>4, <1>5

-------------------------------------------------------------------------------
(***************************************************************************)
(* The inductive invariant.  Behind the discovery stands CoverageInv: each *)
(* argument is still to be inspected, or something at or below it is kept; *)
(* behind the report QueueInv: the queue is the rest of a sorted list of   *)
(* all that was discovered.                                                *)
(***************************************************************************)
Entry == [path : PathSet, type : {"directory", "file"}]

FilesInv ==
  /\ DOMAIN tree = PathSet
  /\ \A path \in PathSet : WellFormedText(tree[path].lines)
  /\ treeChanges \in 0..MaxTreeChanges

CommandInv ==
  /\ invocation \in Invocations
  /\ task # "idle" => invocation.command = "explain" /\ options = invocation.options
  /\ phase \in {"idle", "inspect", "test", "done"} /\ task \in Tasks
  /\ (phase = "idle") <=> (task # "idle")
  /\ (explainExit = NotExited) <=> (task # "done")

DiscoveryInv ==
  /\ DOMAIN discovered \subseteq PathSet
  /\ \A path \in DOMAIN discovered : discovered[path] \in {"file", "error"}
  /\ counted \in 0..MaximumDocuments
  /\ arguments \in Seq(PathSet)
  /\ walk \in [root : PathSet \cup {Top}, begun : BOOLEAN, todo : Seq(Entry),
               found : BOOLEAN, failed : BOOLEAN]
  /\ Walking => phase = "inspect" /\ arguments # <<>> /\ walk.root = Head(arguments)

(* Something kept is at or below the argument. *)
Under(argument, path) == argument \in {path} \cup Above[path]

Covered(argument) == \E path \in DOMAIN discovered : Under(argument, path)

CoverageInv ==
  /\ \A i \in 1..Len(walk.todo) : Under(walk.root, walk.todo[i].path)
  /\ walk.found \/ walk.failed => Covered(walk.root)
  /\ phase = "inspect" => \A argument \in Arguments :
                            argument \in Range(arguments) \/ Covered(argument)
  /\ phase \in {"test", "done"} => \/ \A argument \in Arguments : Covered(argument)
                                   \/ \E path \in DOMAIN discovered : discovered[path] = "error"

QueueInv ==
  /\ IsSequence(queue) /\ IsSequence(report)
  /\ phase \in {"idle", "inspect"} => queue = <<>> /\ report = <<>>
  /\ phase = "done" => queue = <<>>
  /\ \A i \in 1..Len(queue) : queue[i] \in DOMAIN discovered
  /\ \A i \in 1..Len(report) : report[i].path \in DOMAIN discovered
  /\ phase \in {"test", "done"} =>
       \A path \in DOMAIN discovered : \/ \E i \in 1..Len(queue) : queue[i] = path
                                       \/ \E i \in 1..Len(report) : report[i].path = path
  /\ Ascending(queue)
  /\ \A i, j \in 1..Len(report) : i < j => Position(report[i].path) < Position(report[j].path)
  /\ \A i \in 1..Len(report), j \in 1..Len(queue) : Position(report[i].path) < Position(queue[j])

(* What a fixture's entry in the report says is so. *)
Faithful(entry) ==
  /\ Found(entry.document)
  /\ entry.code = IF entry.document = NoDocument THEN ExitInvalidInput
                  ELSE FixtureCode[entry.document]
  /\ discovered[entry.path] = "error" => entry.document = NoDocument

ReportInv ==
  /\ \A i \in 1..Len(report) : Faithful(report[i])
  /\ (exit = NotExited) <=> (phase # "done")
  /\ phase = "done" => exit = SelectExitCode({report[i].code : i \in DOMAIN report})

IInv == FilesInv /\ CommandInv /\ DiscoveryInv /\ CoverageInv /\ QueueInv /\ ReportInv

-------------------------------------------------------------------------------
(***************************************************************************)
(* The invariant holds when the command begins.                            *)
(***************************************************************************)
LEMMA SelectedIsCode == \A codes : SelectExitCode(codes) # NotExited
<1> SUFFICES ASSUME NEW codes PROVE SelectExitCode(codes) # NotExited
  OBVIOUS
<1>1. \A p \in 1..4 : ExitPriority[p] # NotExited
  BY Priorities DEF NotExited, ExitIncompleteEvaluation, ExitExpectationMismatch,
     ExitInvalidInput, ExitInternalError
<1> QED BY <1>1, SelectedCode DEF ExitSuccess, NotExited

LEMMA NotWalkingFacts ==
  /\ NotWalking \in [root : PathSet \cup {Top}, begun : BOOLEAN, todo : Seq(Entry),
                     found : BOOLEAN, failed : BOOLEAN]
  /\ NotWalking.root = Top /\ ~NotWalking.found /\ ~NotWalking.failed
  /\ NotWalking.todo = <<>> /\ 1..Len(NotWalking.todo) = {}
BY DEF NotWalking

LEMMA InitInv == Init => IInv
<1> SUFFICES ASSUME Init PROVE IInv
  OBVIOUS
<1>1. /\ invocation \in Invocations /\ tree = invocation.tree /\ treeChanges = 0
      /\ phase = FirstPhase /\ arguments = invocation.arguments /\ walk = NotWalking
      /\ discovered = <<>> /\ counted = 0 /\ queue = <<>> /\ report = <<>> /\ exit = NotExited
      /\ options = invocation.options /\ task = FirstTask /\ explainExit = NotExited
  BY DEF Init, TreeInit, TestInit, ExplainInit
<1>2. /\ invocation.command \in {"test", "explain"} /\ invocation.arguments \in Seq(PathSet)
      /\ DOMAIN invocation.tree = PathSet
      /\ \A path \in PathSet : WellFormedText(invocation.tree[path].lines)
  BY <1>1, InvocationsAssumption
<1>3. FilesInv
  BY <1>1, <1>2, TreeAssumption DEF FilesInv
<1>4. CommandInv
  BY <1>1, <1>2 DEF CommandInv, FirstPhase, FirstTask, Tasks
<1>5. phase \in {"idle", "inspect"}
  BY <1>1 DEF FirstPhase
<1>6. DOMAIN discovered = {} /\ \A i \in 1..0 : FALSE
  BY <1>1, EmptySequence
<1>7. DiscoveryInv
  BY <1>1, <1>2, <1>6, NotWalkingFacts, LimitsAssumption DEF DiscoveryInv, Walking
<1>8. CoverageInv
  <2>1. Arguments = Range(arguments)
    BY <1>1 DEF Arguments
  <2> QED BY <1>1, <1>5, <2>1, NotWalkingFacts DEF CoverageInv
<1>9. QueueInv
  BY <1>1, <1>5, <1>6, EmptySequence DEF QueueInv, Ascending
<1>10. ReportInv
  BY <1>1, <1>5, <1>6, EmptySequence DEF ReportInv
<1> QED BY <1>3, <1>4, <1>7, <1>8, <1>9, <1>10 DEF IInv

-------------------------------------------------------------------------------
(***************************************************************************)
(* The steps of explain, and what others do to the files.                  *)
(***************************************************************************)
LEMMA TestUnchanged ==
  ASSUME IInv, UNCHANGED <<testVars, invocation>>
  PROVE  DiscoveryInv' /\ CoverageInv' /\ QueueInv' /\ ReportInv'
<1>1. /\ UNCHANGED <<phase, arguments, walk, discovered, counted, queue, report, exit>>
      /\ UNCHANGED invocation
  BY DEF testVars, discovery
<1>2. DiscoveryInv'
  BY <1>1 DEF IInv, DiscoveryInv, Walking
<1>3. CoverageInv'
  <2>1. \A argument : Covered(argument)' <=> Covered(argument)
    BY <1>1 DEF Covered
  <2> QED BY <1>1, <2>1 DEF IInv, CoverageInv, Arguments
<1>4. QueueInv'
  BY <1>1 DEF IInv, QueueInv
<1>5. ReportInv'
  <2>1. \A entry : Faithful(entry)' <=> Faithful(entry)
    BY <1>1 DEF Faithful
  <2> QED BY <1>1, <2>1 DEF IInv, ReportInv
<1> QED BY <1>2, <1>3, <1>4, <1>5

LEMMA ChangeTreeInv ==
  ASSUME IInv, ChangeTree
  PROVE  IInv'
<1>1. /\ UNCHANGED <<testVars, explainVars, invocation>>
      /\ treeChanges < MaxTreeChanges /\ treeChanges' = treeChanges + 1
  BY DEF ChangeTree, TreeChanges
<1>2. PICK change \in Changes : tree' = [tree EXCEPT ![change.path] = change.node]
  BY DEF ChangeTree, TreeChanges
<1>3. WellFormedText(change.node.lines)
  BY TreeAssumption
<1>4. FilesInv'
  <2>1. DOMAIN tree' = PathSet /\ \A path \in PathSet : tree'[path] \in {tree[path], change.node}
    BY <1>2 DEF IInv, FilesInv
  <2>2. \A path \in PathSet : WellFormedText(tree'[path].lines)
    BY <1>3, <2>1 DEF IInv, FilesInv
  <2>3. treeChanges' \in 0..MaxTreeChanges
    BY <1>1, TreeAssumption DEF IInv, FilesInv
  <2> QED BY <2>1, <2>2, <2>3 DEF FilesInv
<1>5. CommandInv'
  BY <1>1 DEF IInv, CommandInv, testVars, explainVars, reading
<1> QED BY <1>1, <1>4, <1>5, TestUnchanged DEF IInv

(* A step of explain goes on, or ends with an exit code. *)
Onward ==
  /\ options' = options
  /\ task' \in Tasks \ {"idle"}
  /\ (explainExit' = NotExited) <=> (task' # "done")

LEMMA ExitOnward ==
  ASSUME NEW code, code # NotExited, ExitWith(code)
  PROVE  Onward
BY DEF ExitWith, Onward, Tasks

LEMMA InputErrorOnward == InputError => Onward
BY ExitOnward DEF InputError, ExitInvalidInput, NotExited

LEMMA LegacyIsCode ==
  ASSUME NEW document \in DOMAIN Documents
  PROVE  LegacyExitCode[document] # NotExited
<1> DEFINE s == Documents[document].scenario
           verdicts == ToSet(VerdictsOn(s))
<1>1. LegacyExitCode[document] =
        CASE ~Valid(s)                       -> ExitInvalidInput
          [] Preparation(s) = "invalid"     -> ExitInvalidInput
          [] Preparation(s) = "unsupported" -> ExitIncompleteEvaluation
          [] OTHER                          -> EvaluationExitCode(verdicts)
  BY DEF LegacyExitCode
<1>2. EvaluationExitCode(verdicts) # NotExited
  BY SelectedIsCode DEF EvaluationExitCode
<1> HIDE DEF verdicts, s
<1> QED BY <1>1, <1>2 DEF ExitInvalidInput, ExitIncompleteEvaluation, NotExited

LEMMA ProceedOnward ==
  ASSUME NEW decoded, NEW given, Proceed(decoded, given), explainExit = NotExited
  PROVE  Onward
BY InputErrorOnward DEF Proceed, Onward, Tasks

LEMMA ResourcesOnward ==
  ASSUME NEW decoded, TakeResources(decoded), explainExit = NotExited
  PROVE  Onward
BY InputErrorOnward, ProceedOnward
   DEF TakeResources, TakePrimary, TakeConfigurations, TakeNamespace

LEMMA TakeOnward ==
  ASSUME NEW decoded, Take(decoded), explainExit = NotExited,
         role = "primary" =>
           IsSequence(decoded) /\ \A i \in 1..Len(decoded) : Found(decoded[i].document)
  PROVE  Onward
<1>1. CASE Mode(decoded, TRUE) = "legacy"
  <2>1. TakeLegacy(decoded)
    BY <1>1 DEF Take
  <2>2. CASE role # "primary"
    BY <2>1, <2>2, InputErrorOnward DEF TakeLegacy
  <2>3. CASE role = "primary"
    <3>1. Len(decoded) = 1
      BY <1>1 DEF Mode
    <3>2. decoded[1].document # NoDocument
      <4>1. \A i \in DOMAIN decoded : IsObject(decoded[i].document)
        BY <1>1 DEF Mode
      <4>2. 1 \in DOMAIN decoded
        BY <2>3, <3>1, SequenceFacts
      <4> QED BY <4>1, <4>2 DEF IsObject
    <3>3. decoded[1].document \in DOMAIN Documents
      BY <2>3, <3>1, <3>2 DEF Found
    <3> DEFINE document == decoded[1].document
    <3>4. EvaluateLegacy(document)
      BY <2>1, <2>3 DEF TakeLegacy
    <3>5. LegacyExitCode[document] # NotExited
      BY <3>3, LegacyIsCode
    <3> HIDE DEF document
    <3> QED BY <3>4, <3>5, InputErrorOnward DEF EvaluateLegacy, Onward, Tasks
  <2> QED BY <2>2, <2>3
<1>2. CASE Mode(decoded, TRUE) # "legacy"
  BY <1>2, InputErrorOnward, ResourcesOnward DEF Take
<1> QED BY <1>1, <1>2

LEMMA ExplainInv ==
  ASSUME IInv, ExplainStep
  PROVE  IInv'
<1>1. ExplainNext /\ UNCHANGED <<tree, treeChanges, testVars, invocation>>
  BY DEF ExplainStep
<1>2. task \in {"look", "file", "list", "entries"}
  BY <1>1 DEF ExplainNext, ReadStdin, LookAt, ReadFile, ListEntries, InspectEntry, ReadEntry,
     EndEntries
<1>3. explainExit = NotExited /\ invocation.command = "explain" /\ options = invocation.options
  BY <1>2 DEF IInv, CommandInv
<1>4. ASSUME role = "primary", NEW path, path = Path
      PROVE  /\ IsSequence(Decoded(path))
             /\ \A i \in 1..Len(Decoded(path)) : Found(Decoded(path)[i].document)
  <2>1. path \in PathSet
    BY <1>3, <1>4, InvocationsAssumption DEF Path, IInv, CommandInv
  <2>2. WellFormedText(tree[path].lines)
    BY <2>1 DEF IInv, FilesInv
  <2> QED BY <2>2, DecodedFound
<1>5. ASSUME ReadStdin PROVE Onward
  <2>1. PICK decoded \in {Decoded(Stdin)} :
          IF role = "primary" THEN Take(decoded) ELSE InputError
    BY <1>5 DEF ReadStdin
  <2>2. Path = Stdin
    BY <1>5 DEF ReadStdin
  <2> QED BY <1>3, <1>4, <2>1, <2>2, InputErrorOnward, TakeOnward
<1>6. ASSUME LookAt PROVE Onward
  BY <1>3, <1>6, InputErrorOnward DEF LookAt, Onward, Tasks
<1>7. ASSUME ReadFile PROVE Onward
  <2>1. PICK decoded \in {Decoded(Path)} : IF CanRead(Path) THEN Take(decoded) ELSE InputError
    BY <1>7 DEF ReadFile
  <2> QED BY <1>3, <1>4, <2>1, InputErrorOnward, TakeOnward
<1>8. ASSUME ListEntries PROVE Onward
  BY <1>3, <1>8, InputErrorOnward DEF ListEntries, Onward, Tasks
<1>9. ASSUME InspectEntry PROVE Onward
  BY <1>3, <1>9, InputErrorOnward DEF InspectEntry, Onward, Tasks
<1>10. ASSUME ReadEntry PROVE Onward
  BY <1>3, <1>10, InputErrorOnward DEF ReadEntry, Onward, Tasks
<1>11. ASSUME EndEntries PROVE Onward
  BY <1>3, <1>11, InputErrorOnward, ResourcesOnward DEF EndEntries
<1>12. Onward
  BY <1>1, <1>5, <1>6, <1>7, <1>8, <1>9, <1>10, <1>11 DEF ExplainNext
<1>13. CommandInv'
  <2>1. phase' = phase /\ invocation' = invocation
    BY <1>1 DEF testVars
  <2> QED BY <1>2, <1>3, <1>12, <2>1 DEF IInv, CommandInv, Onward, Tasks
<1>14. FilesInv'
  BY <1>1 DEF IInv, FilesInv
<1> QED BY <1>1, <1>13, <1>14, TestUnchanged DEF IInv

-------------------------------------------------------------------------------
(***************************************************************************)
(* The discovery of test, step by step.                                    *)
(***************************************************************************)
LEMMA UnderFacts ==
  /\ \A path : Under(path, path)
  /\ \A root : \A directory, path \in PathSet :
       Under(root, directory) /\ Parent[path] = directory => Under(root, path)
<1>1. ASSUME NEW root, NEW directory \in PathSet, NEW path \in PathSet,
             Under(root, directory), Parent[path] = directory
      PROVE  Under(root, path)
  <2>1. directory # Top
    BY TreeAssumption
  <2>2. Above[path] = {directory} \cup Above[directory]
    BY <1>1, <2>1, AboveFacts
  <2> QED BY <1>1, <2>2 DEF Under
<1> QED BY <1>1 DEF Under

(* A finding is recorded, and what was covered still is. *)
LEMMA Recorded ==
  ASSUME IInv, phase = "inspect", NEW path \in PathSet, NEW finding \in {"file", "error"},
         discovered' = With(path, finding), UNCHANGED <<phase, queue, report, exit>>
  PROVE  /\ QueueInv' /\ ReportInv'
         /\ DOMAIN discovered' \subseteq PathSet
         /\ \A p \in DOMAIN discovered' : discovered'[p] \in {"file", "error"}
         /\ \A argument : Covered(argument) => Covered(argument)'
         /\ \A argument : Under(argument, path) => Covered(argument)'
<1>1. DOMAIN discovered' = DOMAIN discovered \cup {path}
  BY DEF With
<1>2. \A p \in DOMAIN discovered' : discovered'[p] = IF p = path THEN finding ELSE discovered[p]
  BY DEF With
<1>3. queue = <<>> /\ report = <<>>
  BY DEF IInv, QueueInv
<1>4. QueueInv'
  <2>1. queue' = <<>> /\ report' = <<>> /\ phase' = "inspect"
    BY <1>3
  <2>2. Len(<<>>) = 0 /\ 1..0 = {} /\ IsSequence(<<>>)
    BY EmptySequence
  <2> QED BY <2>1, <2>2 DEF QueueInv, Ascending
<1>5. ReportInv'
  <2>1. report' = <<>> /\ phase' = "inspect" /\ exit' = NotExited
    BY <1>3 DEF IInv, ReportInv
  <2>2. Len(<<>>) = 0 /\ 1..0 = {}
    BY EmptySequence
  <2> QED BY <2>1, <2>2 DEF ReportInv
<1>6. \A argument : Covered(argument) => Covered(argument)'
  BY <1>1 DEF Covered
<1>7. \A argument : Under(argument, path) => Covered(argument)'
  BY <1>1 DEF Covered
<1>8. DOMAIN discovered' \subseteq PathSet
  BY <1>1 DEF IInv, DiscoveryInv
<1>9. \A p \in DOMAIN discovered' : discovered'[p] \in {"file", "error"}
  BY <1>1, <1>2 DEF IInv, DiscoveryInv
<1> QED BY <1>4, <1>5, <1>6, <1>7, <1>8, <1>9

LEMMA CountFacts ==
  ASSUME IInv, NEW path, Keep(path)
  PROVE  counted' \in 0..MaximumDocuments
BY LimitsAssumption DEF IInv, DiscoveryInv, Keep, Count

(* One file too many: nothing is left but an error. *)
LEMMA TooManyInv ==
  ASSUME IInv, NEW path, NEW argument \in PathSet, TooMany(path, argument), phase = "inspect",
         UNCHANGED <<report, exit, invocation>>
  PROVE  DiscoveryInv' /\ CoverageInv' /\ QueueInv' /\ ReportInv'
<1>1. /\ discovered' = [p \in {argument} |-> "error"]
      /\ phase' = "test" /\ queue' = <<argument>> /\ walk' = NotWalking
      /\ UNCHANGED <<arguments, counted>>
  BY DEF TooMany
<1>2. DOMAIN discovered' = {argument} /\ discovered'[argument] = "error"
  BY <1>1
<1>3. report' = <<>> /\ exit' = NotExited
  BY DEF IInv, QueueInv, ReportInv
<1>4. DiscoveryInv'
  BY <1>1, <1>2, NotWalkingFacts DEF IInv, DiscoveryInv, Walking
<1>5. CoverageInv'
  BY <1>1, <1>2, NotWalkingFacts DEF CoverageInv
<1>6. QueueInv'
  <2>1. /\ IsSequence(queue') /\ Len(queue') = 1 /\ queue'[1] = argument
        /\ \A i \in 1..Len(queue') : i = 1
    <3>1. queue' \in Seq({argument}) /\ Len(queue') = 1 /\ queue'[1] = argument
      BY <1>1
    <3> QED BY <3>1, SequenceOf
  <2>2. IsSequence(report') /\ 1..Len(report') = {}
    BY <1>3, EmptySequence
  <2>3. 1 \in 1..Len(queue') /\ ~(1 < 1)
    BY <2>1
  <2> QED BY <1>1, <1>2, <2>1, <2>2, <2>3 DEF QueueInv, Ascending
<1>7. ReportInv'
  <2>1. 1..Len(report') = {}
    BY <1>3, EmptySequence
  <2> QED BY <1>1, <1>3, <2>1 DEF ReportInv
<1> QED BY <1>4, <1>5, <1>6, <1>7

(* The argument is done with, and something at or below it is kept. *)
LEMMA NextCovered ==
  ASSUME IInv, phase = "inspect", phase' = "inspect", arguments # <<>>, NextArgument,
         NEW first, first = Head(arguments), Covered(first)',
         \A argument : Covered(argument) => Covered(argument)',
         invocation' = invocation
  PROVE  /\ CoverageInv' /\ ~Walking' /\ arguments' \in Seq(PathSet)
         /\ walk' \in [root : PathSet \cup {Top}, begun : BOOLEAN, todo : Seq(Entry),
                       found : BOOLEAN, failed : BOOLEAN]
<1>1. arguments' = Tail(arguments) /\ walk' = NotWalking
  BY DEF NextArgument
<1>2. arguments \in Seq(PathSet) /\ IsSequence(arguments)
  BY SequenceOf DEF IInv, DiscoveryInv
<1>3. arguments' \in Seq(PathSet)
  BY <1>1, <1>2
<1>4. ASSUME NEW argument \in Range(arguments)
      PROVE  argument = Head(arguments) \/ argument \in Range(arguments')
  <2>1. PICK i \in 1..Len(arguments) : argument = arguments[i]
    BY <1>2, SequenceFacts DEF Range
  <2>2. Head(arguments) = arguments[1]
    BY <1>2, TailFacts
  <2>3. ASSUME i # 1 PROVE argument \in Range(arguments')
    <3>1. /\ IsSequence(arguments') /\ Len(arguments') = Len(arguments) - 1
          /\ \A k \in 1..Len(arguments') : arguments'[k] = arguments[k + 1]
      BY <1>1, <1>2, TailFacts
    <3>2. i - 1 \in 1..Len(arguments') /\ (i - 1) + 1 = i
      BY <1>2, <2>3, <3>1, SequenceFacts
    <3>3. i - 1 \in DOMAIN arguments' /\ arguments'[i - 1] = argument
      BY <2>1, <3>1, <3>2, SequenceFacts
    <3> QED BY <3>3 DEF Range
  <2> QED BY <2>1, <2>2, <2>3
<1>5. \A argument \in Arguments : argument \in Range(arguments) \/ Covered(argument)
  BY DEF IInv, CoverageInv
<1>6. \A argument \in Arguments' : argument \in Range(arguments') \/ Covered(argument)'
  <2>1. Arguments' = Arguments
    BY DEF Arguments
  <2> QED BY <1>4, <1>5, <2>1
<1>7. CoverageInv'
  <2>1. /\ 1..Len(walk'.todo) = {} /\ ~walk'.found /\ ~walk'.failed /\ phase' = "inspect"
    BY <1>1, NotWalkingFacts
  <2> QED BY <1>6, <2>1 DEF CoverageInv
<1> QED BY <1>1, <1>3, <1>7, NotWalkingFacts DEF Walking

LEMMA EntriesFacts ==
  ASSUME NEW paths, paths \subseteq PathSet
  PROVE  /\ EntriesOf(paths) \in Seq(Entry)
         /\ \A i \in 1..Len(EntriesOf(paths)) : EntriesOf(paths)[i].path \in paths
<1> DEFINE entry(path) == [path |-> path, type |-> Lstat(path)]
           seen == {path \in paths : Visited(entry(path))}
           s == Sorted(seen)
<1>1. IsSequence(s) /\ \A k \in 1..Len(s) : s[k] \in seen
  BY SortedFacts DEF Lists
<1>2. EntriesOf(paths) = [i \in DOMAIN s |-> entry(s[i])]
  BY DEF EntriesOf
<1>3. \A path \in seen : entry(path) \in Entry /\ entry(path).path = path /\ path \in paths
  BY DEF Entry, Visited
<1> HIDE DEF s, seen, entry
<1>4. DOMAIN s = 1..Len(s) /\ Len(s) \in Nat
  BY <1>1, SequenceFacts
<1>5. EntriesOf(paths) = [i \in 1..Len(s) |-> entry(s[i])]
  BY <1>2, <1>4
<1>6. EntriesOf(paths) \in Seq(Entry) /\ Len(EntriesOf(paths)) = Len(s)
  BY <1>1, <1>3, <1>4, <1>5
<1> QED BY <1>1, <1>3, <1>5, <1>6

LEMMA InspectingFacts ==
  ASSUME IInv, arguments # <<>>
  PROVE  Argument = Head(arguments) /\ Argument \in PathSet /\ Argument # Top
<1>1. arguments \in Seq(PathSet)
  BY DEF IInv, DiscoveryInv
<1> QED BY <1>1, TreeAssumption DEF Argument

LEMMA InspectFileInv ==
  ASSUME IInv, InspectFile, invocation' = invocation
  PROVE  DiscoveryInv' /\ CoverageInv' /\ QueueInv' /\ ReportInv'
<1>1. phase = "inspect" /\ arguments # <<>> /\ UNCHANGED <<report, exit>>
  BY DEF InspectFile, Inspecting
<1>2. Argument = Head(arguments) /\ Argument \in PathSet
  BY <1>1, InspectingFacts
<1>3. PICK first \in PathSet : first = Argument
  BY <1>2
<1>4. CASE Keep(Argument) /\ NextArgument
  <2>1. discovered' = With(first, "file") /\ UNCHANGED <<phase, queue>>
    BY <1>4, <1>3 DEF Keep
  <2>2. first \in PathSet /\ first = Head(arguments)
    BY <1>2, <1>3
  <2>3. /\ QueueInv' /\ ReportInv'
        /\ DOMAIN discovered' \subseteq PathSet
        /\ \A p \in DOMAIN discovered' : discovered'[p] \in {"file", "error"}
        /\ \A argument : Covered(argument) => Covered(argument)'
        /\ \A argument : Under(argument, first) => Covered(argument)'
    BY <1>1, <2>1, <2>2, Recorded
  <2>4. Covered(first)'
    BY <2>3, UnderFacts
  <2>5. /\ CoverageInv' /\ ~Walking' /\ arguments' \in Seq(PathSet)
        /\ walk' \in [root : PathSet \cup {Top}, begun : BOOLEAN, todo : Seq(Entry),
                      found : BOOLEAN, failed : BOOLEAN]
    BY <1>1, <1>4, <2>1, <2>2, <2>3, <2>4, NextCovered
  <2>6. DiscoveryInv'
    BY <1>4, <2>3, <2>5, CountFacts DEF DiscoveryInv
  <2> QED BY <2>3, <2>5, <2>6
<1>5. CASE TooMany(Argument, Argument)
  BY <1>1, <1>2, <1>5, TooManyInv
<1> QED BY <1>4, <1>5 DEF InspectFile

LEMMA InspectOtherInv ==
  ASSUME IInv, InspectOther, invocation' = invocation
  PROVE  DiscoveryInv' /\ CoverageInv' /\ QueueInv' /\ ReportInv'
<1>1. /\ phase = "inspect" /\ arguments # <<>> /\ UNCHANGED <<report, exit>>
      /\ Refuse(Argument) /\ NextArgument
  BY DEF InspectOther, Inspecting
<1>2. PICK first \in PathSet : first = Argument /\ first = Head(arguments)
  BY <1>1, InspectingFacts
<1>3. discovered' = With(first, "error") /\ UNCHANGED <<phase, counted, queue>>
  BY <1>1, <1>2 DEF Refuse
<1>4. /\ QueueInv' /\ ReportInv'
      /\ DOMAIN discovered' \subseteq PathSet
      /\ \A p \in DOMAIN discovered' : discovered'[p] \in {"file", "error"}
      /\ \A argument : Covered(argument) => Covered(argument)'
      /\ \A argument : Under(argument, first) => Covered(argument)'
  BY <1>1, <1>2, <1>3, Recorded
<1>5. Covered(first)'
  BY <1>4, UnderFacts
<1>6. /\ CoverageInv' /\ ~Walking' /\ arguments' \in Seq(PathSet)
      /\ walk' \in [root : PathSet \cup {Top}, begun : BOOLEAN, todo : Seq(Entry),
                    found : BOOLEAN, failed : BOOLEAN]
  BY <1>1, <1>2, <1>3, <1>4, <1>5, NextCovered
<1>7. DiscoveryInv'
  BY <1>3, <1>4, <1>6 DEF IInv, DiscoveryInv
<1> QED BY <1>4, <1>6, <1>7

(* A walk goes on, with what it found and where it failed. *)
LEMMA WalkOn ==
  ASSUME IInv, phase = "inspect", UNCHANGED <<phase, arguments, invocation>>,
         Walking, walk'.root = walk.root,
         walk' \in [root : PathSet \cup {Top}, begun : BOOLEAN, todo : Seq(Entry),
                    found : BOOLEAN, failed : BOOLEAN],
         \A i \in 1..Len(walk'.todo) : Under(walk.root, walk'.todo[i].path),
         \A argument : Covered(argument) => Covered(argument)',
         NEW root, root = walk.root,
         (walk.found \/ walk.failed) \/ Covered(root)' \/ ~(walk'.found \/ walk'.failed),
         DOMAIN discovered' \subseteq PathSet,
         \A p \in DOMAIN discovered' : discovered'[p] \in {"file", "error"},
         counted' \in 0..MaximumDocuments
  PROVE  DiscoveryInv' /\ CoverageInv'
<1>1. DiscoveryInv'
  BY DEF IInv, DiscoveryInv, Walking
<1>2. walk'.found \/ walk'.failed => Covered(root)'
  <2>1. walk.found \/ walk.failed => Covered(root)
    BY DEF IInv, CoverageInv
  <2> QED BY <2>1
<1>3. \A argument \in Arguments' : argument \in Range(arguments') \/ Covered(argument)'
  <2>1. \A argument \in Arguments : argument \in Range(arguments) \/ Covered(argument)
    BY DEF IInv, CoverageInv
  <2>2. Arguments' = Arguments
    BY DEF Arguments
  <2> QED BY <2>1, <2>2
<1>4. Covered(root)' <=> Covered(walk.root)'
  BY DEF Covered
<1>5. CoverageInv'
  BY <1>2, <1>3, <1>4 DEF CoverageInv
<1> QED BY <1>1, <1>5

LEMMA WalkingFacts ==
  ASSUME IInv, Walking
  PROVE  /\ phase = "inspect" /\ arguments # <<>> /\ walk.root = Head(arguments)
         /\ walk.root \in PathSet /\ walk.todo \in Seq(Entry) /\ IsSequence(walk.todo)
         /\ \A i \in 1..Len(walk.todo) :
              walk.todo[i].path \in PathSet /\ Under(walk.root, walk.todo[i].path)
<1>1. phase = "inspect" /\ arguments # <<>> /\ walk.root = Head(arguments)
  BY DEF IInv, DiscoveryInv
<1>2. walk.root \in PathSet /\ walk.todo \in Seq(Entry)
  BY DEF IInv, DiscoveryInv, Walking
<1>3. IsSequence(walk.todo) /\ \A i \in 1..Len(walk.todo) : walk.todo[i] \in Entry
  BY <1>2, SequenceOf
<1>4. \A i \in 1..Len(walk.todo) : walk.todo[i].path \in PathSet
  BY <1>3 DEF Entry
<1>5. \A i \in 1..Len(walk.todo) : Under(walk.root, walk.todo[i].path)
  BY DEF IInv, CoverageInv
<1> QED BY <1>1, <1>2, <1>3, <1>4, <1>5

(* Nothing is recorded. *)
LEMMA NothingRecorded ==
  ASSUME IInv, UNCHANGED <<phase, discovered, queue, report, exit>>
  PROVE  /\ QueueInv' /\ ReportInv'
         /\ \A argument : Covered(argument) => Covered(argument)'
<1>1. QueueInv'
  BY DEF IInv, QueueInv
<1>2. ReportInv'
  <2>1. \A entry : Faithful(entry)' <=> Faithful(entry)
    BY DEF Faithful
  <2> QED BY <2>1 DEF IInv, ReportInv
<1> QED BY <1>1, <1>2 DEF Covered

LEMMA InspectDirectoryInv ==
  ASSUME IInv, InspectDirectory, invocation' = invocation
  PROVE  DiscoveryInv' /\ CoverageInv' /\ QueueInv' /\ ReportInv'
<1>1. /\ phase = "inspect" /\ arguments # <<>>
      /\ walk' = [NotWalking EXCEPT !.root = Argument]
      /\ UNCHANGED <<phase, arguments, discovered, counted, queue, report, exit>>
  BY DEF InspectDirectory, Inspecting
<1>2. Argument = Head(arguments) /\ Argument \in PathSet
  BY <1>1, InspectingFacts
<1>3. /\ walk' \in [root : PathSet \cup {Top}, begun : BOOLEAN, todo : Seq(Entry),
                    found : BOOLEAN, failed : BOOLEAN]
      /\ walk'.root = Argument /\ walk'.todo = <<>> /\ ~walk'.found /\ ~walk'.failed
  BY <1>1, <1>2, NotWalkingFacts
<1>4. DiscoveryInv'
  BY <1>1, <1>2, <1>3 DEF IInv, DiscoveryInv, Walking
<1>5. CoverageInv'
  <2>1. 1..Len(walk'.todo) = {}
    BY <1>3, EmptySequence
  <2>2. \A argument : Covered(argument)' <=> Covered(argument)
    BY <1>1 DEF Covered
  <2> QED BY <1>1, <1>3, <2>1, <2>2 DEF IInv, CoverageInv, Arguments
<1> QED BY <1>1, <1>4, <1>5, NothingRecorded

LEMMA WalkRootInv ==
  ASSUME IInv, WalkRoot, invocation' = invocation
  PROVE  DiscoveryInv' /\ CoverageInv' /\ QueueInv' /\ ReportInv'
<1>1. Walking /\ UNCHANGED <<arguments, report, exit>>
  BY DEF WalkRoot
<1>2. PICK root \in PathSet : root = walk.root
  BY <1>1, WalkingFacts
<1>3. walk \in [root : PathSet \cup {Top}, begun : BOOLEAN, todo : Seq(Entry),
                found : BOOLEAN, failed : BOOLEAN]
  BY DEF IInv, DiscoveryInv
<1>4. CASE Exists[walk.root]
  <2>1. /\ walk' = [walk EXCEPT !.begun = TRUE, !.todo = EntriesOf({root})]
        /\ UNCHANGED <<phase, discovered, counted, queue>>
    BY <1>2, <1>4 DEF WalkRoot
  <2>2. /\ EntriesOf({root}) \in Seq(Entry)
        /\ \A i \in 1..Len(EntriesOf({root})) : EntriesOf({root})[i].path = root
    BY <1>2, EntriesFacts
  <2>3. /\ walk' \in [root : PathSet \cup {Top}, begun : BOOLEAN, todo : Seq(Entry),
                      found : BOOLEAN, failed : BOOLEAN]
        /\ walk'.root = root /\ walk'.todo = EntriesOf({root})
        /\ walk'.found = walk.found /\ walk'.failed = walk.failed
    BY <1>2, <1>3, <2>1, <2>2
  <2>4. \A i \in 1..Len(walk'.todo) : Under(walk.root, walk'.todo[i].path)
    BY <1>2, <2>2, <2>3, UnderFacts
  <2>5. QueueInv' /\ ReportInv' /\ \A argument : Covered(argument) => Covered(argument)'
    BY <1>1, <2>1, NothingRecorded
  <2>6. /\ DOMAIN discovered' \subseteq PathSet
        /\ \A p \in DOMAIN discovered' : discovered'[p] \in {"file", "error"}
        /\ counted' \in 0..MaximumDocuments
    BY <2>1 DEF IInv, DiscoveryInv
  <2>7. DiscoveryInv' /\ CoverageInv'
    BY <1>1, <1>2, <2>1, <2>3, <2>4, <2>5, <2>6, WalkingFacts, WalkOn
  <2> QED BY <2>5, <2>7
<1>5. CASE ~Exists[walk.root]
  <2>1. /\ walk' = [walk EXCEPT !.begun = TRUE, !.failed = TRUE]
        /\ discovered' = With(root, "error") /\ UNCHANGED <<phase, counted, queue>>
    BY <1>2, <1>5 DEF WalkRoot, Refuse
  <2>2. /\ walk' \in [root : PathSet \cup {Top}, begun : BOOLEAN, todo : Seq(Entry),
                      found : BOOLEAN, failed : BOOLEAN]
        /\ walk'.root = root /\ walk'.todo = walk.todo
    BY <1>2, <1>3, <2>1
  <2>3. phase = "inspect" /\ \A i \in 1..Len(walk'.todo) : Under(walk.root, walk'.todo[i].path)
    BY <1>1, <2>2, WalkingFacts
  <2>4. /\ QueueInv' /\ ReportInv'
        /\ DOMAIN discovered' \subseteq PathSet
        /\ \A p \in DOMAIN discovered' : discovered'[p] \in {"file", "error"}
        /\ \A argument : Covered(argument) => Covered(argument)'
        /\ \A argument : Under(argument, root) => Covered(argument)'
    BY <1>1, <2>1, <2>3, Recorded
  <2>5. Covered(root)' /\ counted' \in 0..MaximumDocuments
    BY <2>1, <2>4, UnderFacts DEF IInv, DiscoveryInv
  <2>6. DiscoveryInv' /\ CoverageInv'
    BY <1>1, <1>2, <2>1, <2>2, <2>3, <2>4, <2>5, WalkOn
  <2> QED BY <2>4, <2>6
<1> QED BY <1>4, <1>5

(* What is left to visit after the first entry. *)
LEMMA RestFacts ==
  ASSUME IInv, Walking, walk.todo # <<>>
  PROVE  /\ Head(walk.todo).path \in PathSet /\ Under(walk.root, Head(walk.todo).path)
         /\ Tail(walk.todo) \in Seq(Entry)
         /\ \A i \in 1..Len(Tail(walk.todo)) :
              Tail(walk.todo)[i] \in Entry /\ Under(walk.root, Tail(walk.todo)[i].path)
<1> DEFINE todo == walk.todo
<1>1. /\ todo \in Seq(Entry) /\ IsSequence(todo)
      /\ \A i \in 1..Len(todo) : todo[i].path \in PathSet /\ Under(walk.root, todo[i].path)
  BY WalkingFacts
<1> HIDE DEF todo
<1>2. /\ Len(todo) > 0 /\ Head(todo) = todo[1] /\ Len(todo) \in Nat
      /\ Len(Tail(todo)) = Len(todo) - 1
      /\ \A i \in 1..Len(Tail(todo)) : Tail(todo)[i] = todo[i + 1]
  BY <1>1, TailFacts, SequenceFacts DEF todo
<1>3. 1 \in 1..Len(todo) /\ \A i \in 1..Len(Tail(todo)) : i + 1 \in 1..Len(todo)
  BY <1>2
<1>4. Tail(todo) \in Seq(Entry) /\ \A i \in 1..Len(todo) : todo[i] \in Entry
  BY <1>1, <1>2
<1> QED BY <1>1, <1>2, <1>3, <1>4 DEF todo

LEMMA ListDirectoryInv ==
  ASSUME IInv, ListDirectory, invocation' = invocation
  PROVE  DiscoveryInv' /\ CoverageInv' /\ QueueInv' /\ ReportInv'
<1>1. Walking /\ walk.todo # <<>> /\ UNCHANGED <<arguments, report, exit>>
  BY DEF ListDirectory, Visiting
<1>2. PICK root \in PathSet : root = walk.root
  BY <1>1, WalkingFacts
<1>3. PICK directory \in PathSet : directory = Head(walk.todo).path /\ Under(root, directory)
  BY <1>1, <1>2, RestFacts
<1>4. walk \in [root : PathSet \cup {Top}, begun : BOOLEAN, todo : Seq(Entry),
                found : BOOLEAN, failed : BOOLEAN]
  BY DEF IInv, DiscoveryInv
<1>5. CASE CanList(directory)
  <2> DEFINE below == EntriesOf(Entries(directory))
             rest  == Tail(walk.todo)
  <2>1. walk' = [walk EXCEPT !.todo = below \o rest]
        /\ UNCHANGED <<phase, discovered, counted, queue>>
    BY <1>3, <1>5 DEF ListDirectory
  <2>2. /\ below \in Seq(Entry)
        /\ \A i \in 1..Len(below) : below[i].path \in Entries(directory)
    BY EntriesFacts DEF Entries
  <2>3. \A i \in 1..Len(below) : Under(root, below[i].path)
    <3>1. \A path \in Entries(directory) : Under(root, path)
      BY <1>3, UnderFacts DEF Entries
    <3> QED BY <2>2, <3>1
  <2>4. rest \in Seq(Entry) /\ \A i \in 1..Len(rest) : Under(root, rest[i].path)
    BY <1>1, <1>2, RestFacts
  <2> HIDE DEF below, rest
  <2>5. /\ below \o rest \in Seq(Entry)
        /\ \A i \in 1..Len(below \o rest) : Under(root, (below \o rest)[i].path)
    <3>1. below \o rest \in Seq(Entry)
      BY <2>2, <2>4
    <3>2. IsSequence(below) /\ IsSequence(rest)
      BY <2>2, <2>4, SequenceOf
    <3>3. Len(below \o rest) = Len(below) + Len(rest) /\ Len(below) \in Nat
          /\ Len(rest) \in Nat
      BY <3>2, ConcatFacts, SequenceFacts
    <3>4. ASSUME NEW i \in 1..Len(below \o rest) PROVE Under(root, (below \o rest)[i].path)
      <4>1. CASE i \in 1..Len(below)
        BY <2>3, <3>2, <4>1, ConcatFacts
      <4>2. CASE i \notin 1..Len(below)
        <5>1. i - Len(below) \in 1..Len(rest) /\ Len(below) + (i - Len(below)) = i
          BY <3>3, <4>2
        <5>2. (below \o rest)[i] = rest[i - Len(below)]
          BY <3>2, <5>1, ConcatFacts
        <5> QED BY <2>4, <5>1, <5>2
      <4> QED BY <4>1, <4>2
    <3> QED BY <3>1, <3>4
  <2>6. /\ walk' \in [root : PathSet \cup {Top}, begun : BOOLEAN, todo : Seq(Entry),
                      found : BOOLEAN, failed : BOOLEAN]
        /\ walk'.root = root /\ walk'.todo = below \o rest
        /\ walk'.found = walk.found /\ walk'.failed = walk.failed
    BY <1>2, <1>4, <2>1, <2>5
  <2>7. \A i \in 1..Len(walk'.todo) : Under(walk.root, walk'.todo[i].path)
    BY <1>2, <2>5, <2>6
  <2>8. QueueInv' /\ ReportInv' /\ \A argument : Covered(argument) => Covered(argument)'
    BY <1>1, <2>1, NothingRecorded
  <2>9. /\ DOMAIN discovered' \subseteq PathSet
        /\ \A p \in DOMAIN discovered' : discovered'[p] \in {"file", "error"}
        /\ counted' \in 0..MaximumDocuments
    BY <2>1 DEF IInv, DiscoveryInv
  <2>10. DiscoveryInv' /\ CoverageInv'
    BY <1>1, <1>2, <2>1, <2>6, <2>7, <2>8, <2>9, WalkingFacts, WalkOn
  <2> QED BY <2>8, <2>10
<1>6. CASE ~CanList(directory)
  <2>1. /\ walk' = [walk EXCEPT !.todo = Tail(walk.todo), !.failed = TRUE]
        /\ discovered' = With(directory, "error") /\ UNCHANGED <<phase, counted, queue>>
    BY <1>3, <1>6 DEF ListDirectory, Refuse
  <2>2. /\ Tail(walk.todo) \in Seq(Entry) /\ phase = "inspect"
        /\ \A i \in 1..Len(Tail(walk.todo)) : Under(walk.root, Tail(walk.todo)[i].path)
    BY <1>1, RestFacts, WalkingFacts
  <2>3. /\ walk' \in [root : PathSet \cup {Top}, begun : BOOLEAN, todo : Seq(Entry),
                      found : BOOLEAN, failed : BOOLEAN]
        /\ walk'.root = root /\ walk'.todo = Tail(walk.todo)
    BY <1>2, <1>4, <2>1, <2>2
  <2>4. /\ QueueInv' /\ ReportInv'
        /\ DOMAIN discovered' \subseteq PathSet
        /\ \A p \in DOMAIN discovered' : discovered'[p] \in {"file", "error"}
        /\ \A argument : Covered(argument) => Covered(argument)'
        /\ \A argument : Under(argument, directory) => Covered(argument)'
    BY <1>1, <2>1, <2>2, Recorded
  <2>5. Covered(root)' /\ counted' \in 0..MaximumDocuments
    BY <1>3, <2>1, <2>4 DEF IInv, DiscoveryInv
  <2>6. DiscoveryInv' /\ CoverageInv'
    BY <1>1, <1>2, <2>1, <2>2, <2>3, <2>4, <2>5, WalkOn
  <2> QED BY <2>4, <2>6
<1> QED BY <1>5, <1>6

LEMMA VisitFileInv ==
  ASSUME IInv, VisitFile, invocation' = invocation
  PROVE  DiscoveryInv' /\ CoverageInv' /\ QueueInv' /\ ReportInv'
<1>1. Walking /\ walk.todo # <<>> /\ UNCHANGED <<report, exit>>
  BY DEF VisitFile, Visiting
<1>2. PICK root \in PathSet : root = walk.root
  BY <1>1, WalkingFacts
<1>3. PICK path \in PathSet : path = Head(walk.todo).path /\ Under(root, path)
  BY <1>1, <1>2, RestFacts
<1>4. phase = "inspect"
  BY <1>1, WalkingFacts
<1>5. CASE /\ Keep(path) /\ UNCHANGED arguments
           /\ walk' = [walk EXCEPT !.todo = Tail(@), !.found = TRUE]
  <2>1. discovered' = With(path, "file") /\ UNCHANGED <<phase, queue>>
    BY <1>5 DEF Keep
  <2>2. /\ Tail(walk.todo) \in Seq(Entry)
        /\ \A i \in 1..Len(Tail(walk.todo)) : Under(walk.root, Tail(walk.todo)[i].path)
    BY <1>1, RestFacts
  <2>3. /\ walk' \in [root : PathSet \cup {Top}, begun : BOOLEAN, todo : Seq(Entry),
                      found : BOOLEAN, failed : BOOLEAN]
        /\ walk'.root = root /\ walk'.todo = Tail(walk.todo)
    <3>1. walk \in [root : PathSet \cup {Top}, begun : BOOLEAN, todo : Seq(Entry),
                    found : BOOLEAN, failed : BOOLEAN]
      BY DEF IInv, DiscoveryInv
    <3> QED BY <1>2, <1>5, <2>2, <3>1
  <2>4. /\ QueueInv' /\ ReportInv'
        /\ DOMAIN discovered' \subseteq PathSet
        /\ \A p \in DOMAIN discovered' : discovered'[p] \in {"file", "error"}
        /\ \A argument : Covered(argument) => Covered(argument)'
        /\ \A argument : Under(argument, path) => Covered(argument)'
    BY <1>1, <1>4, <2>1, Recorded
  <2>5. Covered(root)' /\ counted' \in 0..MaximumDocuments
    BY <1>3, <1>5, <2>4, CountFacts
  <2>6. DiscoveryInv' /\ CoverageInv'
    BY <1>1, <1>2, <1>4, <1>5, <2>1, <2>2, <2>3, <2>4, <2>5, WalkOn
  <2> QED BY <2>4, <2>6
<1>6. CASE TooMany(path, root)
  BY <1>1, <1>4, <1>6, TooManyInv
<1> QED BY <1>2, <1>3, <1>5, <1>6 DEF VisitFile

LEMMA EndWalkInv ==
  ASSUME IInv, EndWalk, invocation' = invocation
  PROVE  DiscoveryInv' /\ CoverageInv' /\ QueueInv' /\ ReportInv'
<1>1. Walking /\ NextArgument /\ UNCHANGED <<report, exit>>
  BY DEF EndWalk
<1>2. PICK root \in PathSet : root = walk.root /\ root = Head(arguments)
  BY <1>1, WalkingFacts
<1>3. phase = "inspect" /\ arguments # <<>>
  BY <1>1, WalkingFacts
<1>4. CASE walk.found \/ walk.failed
  <2>1. UNCHANGED <<phase, discovered, counted, queue>>
    BY <1>4 DEF EndWalk
  <2>2. QueueInv' /\ ReportInv' /\ \A argument : Covered(argument) => Covered(argument)'
    BY <1>1, <2>1, NothingRecorded
  <2>3. Covered(root)'
    <3>1. Covered(root)
      BY <1>2, <1>4 DEF IInv, CoverageInv
    <3> QED BY <2>2, <3>1
  <2>4. /\ CoverageInv' /\ ~Walking' /\ arguments' \in Seq(PathSet)
        /\ walk' \in [root : PathSet \cup {Top}, begun : BOOLEAN, todo : Seq(Entry),
                      found : BOOLEAN, failed : BOOLEAN]
    BY <1>1, <1>2, <1>3, <2>1, <2>2, <2>3, NextCovered
  <2>5. DiscoveryInv'
    BY <2>1, <2>4 DEF IInv, DiscoveryInv
  <2> QED BY <2>2, <2>4, <2>5
<1>5. CASE ~(walk.found \/ walk.failed)
  <2>1. discovered' = With(root, "error") /\ UNCHANGED <<phase, counted, queue>>
    BY <1>2, <1>5 DEF EndWalk, Refuse
  <2>2. /\ QueueInv' /\ ReportInv'
        /\ DOMAIN discovered' \subseteq PathSet
        /\ \A p \in DOMAIN discovered' : discovered'[p] \in {"file", "error"}
        /\ \A argument : Covered(argument) => Covered(argument)'
        /\ \A argument : Under(argument, root) => Covered(argument)'
    BY <1>1, <1>3, <2>1, Recorded
  <2>3. Covered(root)'
    BY <2>2, UnderFacts
  <2>4. /\ CoverageInv' /\ ~Walking' /\ arguments' \in Seq(PathSet)
        /\ walk' \in [root : PathSet \cup {Top}, begun : BOOLEAN, todo : Seq(Entry),
                      found : BOOLEAN, failed : BOOLEAN]
    BY <1>1, <1>2, <1>3, <2>1, <2>2, <2>3, NextCovered
  <2>5. DiscoveryInv'
    BY <2>1, <2>2, <2>4 DEF IInv, DiscoveryInv
  <2> QED BY <2>2, <2>4, <2>5
<1> QED BY <1>4, <1>5

LEMMA EndDiscoveryInv ==
  ASSUME IInv, EndDiscovery, invocation' = invocation
  PROVE  DiscoveryInv' /\ CoverageInv' /\ QueueInv' /\ ReportInv'
<1>1. /\ phase = "inspect" /\ arguments = <<>> /\ phase' = "test"
      /\ queue' = Sorted(DOMAIN discovered)
      /\ UNCHANGED <<arguments, walk, discovered, counted, report, exit>>
  BY DEF EndDiscovery, InOrder, discovery
<1>2. ~Walking /\ report = <<>> /\ DOMAIN discovered \subseteq PathSet /\ exit = NotExited
  BY <1>1 DEF IInv, DiscoveryInv, QueueInv, ReportInv
<1>3. DiscoveryInv'
  BY <1>1, <1>2 DEF IInv, DiscoveryInv, Walking
<1>4. \A argument : Covered(argument)' <=> Covered(argument)
  BY <1>1 DEF Covered
<1>5. CoverageInv'
  <2>1. Range(arguments) = {}
    BY <1>1, EmptySequence DEF Range
  <2>2. \A argument \in Arguments : Covered(argument)
    BY <1>1, <2>1 DEF IInv, CoverageInv
  <2> QED BY <1>1, <1>4, <2>2 DEF IInv, CoverageInv, Arguments
<1>6. Lists(queue', DOMAIN discovered) /\ Ascending(queue')
  BY <1>1, <1>2, SortedFacts
<1>7. IsSequence(report') /\ 1..Len(report') = {}
  BY <1>1, <1>2, EmptySequence
<1>8. QueueInv'
  BY <1>1, <1>6, <1>7 DEF QueueInv, Lists
<1>9. ReportInv'
  BY <1>1, <1>2, <1>7 DEF ReportInv
<1> QED BY <1>3, <1>5, <1>8, <1>9

-------------------------------------------------------------------------------
(***************************************************************************)
(* The report of test, and its exit code.                                  *)
(***************************************************************************)
LEMMA FixtureFaithful ==
  ASSUME IInv, NEW path \in DOMAIN discovered
  PROVE  FixtureReport(path).path = path /\ Faithful(FixtureReport(path))
<1> DEFINE document == IF discovered[path] = "file" /\ CanRead(path)
                       THEN FirstDocument(tree[path].lines) ELSE NoDocument
<1>1. FixtureReport(path)
        = [path |-> path, document |-> document,
           code |-> IF document = NoDocument THEN ExitInvalidInput ELSE FixtureCode[document]]
  BY DEF FixtureReport
<1>2. Found(document)
  <2>1. path \in PathSet /\ WellFormedText(tree[path].lines)
    BY DEF IInv, FilesInv, DiscoveryInv
  <2>2. Found(FirstDocument(tree[path].lines))
    BY <2>1, TextIs, FirstDocumentFound
  <2> QED BY <2>2 DEF Found
<1>3. discovered[path] = "error" => document = NoDocument
  OBVIOUS
<1> HIDE DEF document
<1> QED BY <1>1, <1>2, <1>3 DEF Faithful

LEMMA TestFixtureInv ==
  ASSUME IInv, TestFixture, invocation' = invocation
  PROVE  DiscoveryInv' /\ CoverageInv' /\ QueueInv' /\ ReportInv'
<1>1. /\ phase = "test" /\ queue # <<>>
      /\ report' = Append(report, FixtureReport(Head(queue))) /\ queue' = Tail(queue)
      /\ UNCHANGED <<phase, arguments, walk, discovered, counted, exit>>
  BY DEF TestFixture, discovery
<1>2. IsSequence(queue) /\ IsSequence(report) /\ Len(queue) \in Nat /\ Len(report) \in Nat
  BY SequenceFacts DEF IInv, QueueInv
<1>3. /\ Len(queue) > 0 /\ Head(queue) = queue[1]
      /\ IsSequence(queue') /\ Len(queue') = Len(queue) - 1
      /\ \A i \in 1..Len(queue') : queue'[i] = queue[i + 1] /\ i + 1 \in 1..Len(queue)
  <2>1. /\ Len(queue) > 0 /\ Head(queue) = queue[1]
        /\ IsSequence(queue') /\ Len(queue') = Len(queue) - 1
        /\ \A i \in 1..Len(queue') : queue'[i] = queue[i + 1]
    BY <1>1, <1>2, TailFacts
  <2> QED BY <1>2, <2>1
<1>4. PICK path \in DOMAIN discovered : path = queue[1] /\ path = Head(queue)
  <2>1. 1 \in 1..Len(queue)
    BY <1>2, <1>3
  <2> QED BY <1>3, <2>1 DEF IInv, QueueInv
<1>5. PICK entry : entry = FixtureReport(path)
  OBVIOUS
<1>6. entry.path = path /\ Faithful(entry)
  BY <1>5, FixtureFaithful
<1>7. /\ IsSequence(report') /\ Len(report') = Len(report) + 1
      /\ report'[Len(report) + 1] = entry
      /\ \A i \in 1..Len(report) : report'[i] = report[i]
      /\ Len(report) + 1 \in 1..Len(report')
      /\ \A i \in 1..Len(report) : i \in 1..Len(report')
      /\ \A i \in 1..Len(report') : i \in 1..Len(report) \/ i = Len(report) + 1
  <2>1. report' = Append(report, entry)
    BY <1>1, <1>4, <1>5
  <2>2. /\ IsSequence(report') /\ Len(report') = Len(report) + 1
        /\ report'[Len(report) + 1] = entry
        /\ \A i \in 1..Len(report) : report'[i] = report[i]
    BY <1>2, <2>1, AppendFacts
  <2> QED BY <1>2, <2>2
<1>8. DiscoveryInv'
  BY <1>1 DEF IInv, DiscoveryInv, Walking
<1>9. CoverageInv'
  <2>1. \A argument : Covered(argument)' <=> Covered(argument)
    BY <1>1 DEF Covered
  <2> QED BY <1>1, <2>1 DEF IInv, CoverageInv, Arguments
<1>10. QueueInv'
  <2>1. \A i \in 1..Len(queue') : queue'[i] \in DOMAIN discovered'
    BY <1>1, <1>3 DEF IInv, QueueInv
  <2>2. \A i \in 1..Len(report') : report'[i].path \in DOMAIN discovered'
    BY <1>1, <1>4, <1>6, <1>7 DEF IInv, QueueInv
  <2>3. ASSUME NEW p \in DOMAIN discovered
        PROVE  \/ \E i \in 1..Len(queue') : queue'[i] = p
               \/ \E i \in 1..Len(report') : report'[i].path = p
    <3>1. \/ \E i \in 1..Len(queue) : queue[i] = p
          \/ \E i \in 1..Len(report) : report[i].path = p
      BY <1>1 DEF IInv, QueueInv
    <3>2. ASSUME NEW i \in 1..Len(report), report[i].path = p
          PROVE  \E j \in 1..Len(report') : report'[j].path = p
      BY <1>7, <3>2
    <3>3. ASSUME NEW i \in 1..Len(queue), queue[i] = p, i # 1
          PROVE  \E j \in 1..Len(queue') : queue'[j] = p
      <4>1. i - 1 \in 1..Len(queue') /\ (i - 1) + 1 = i
        BY <1>2, <1>3, <3>3
      <4> QED BY <1>3, <3>3, <4>1
    <3>4. ASSUME p = queue[1] PROVE \E j \in 1..Len(report') : report'[j].path = p
      BY <1>4, <1>6, <1>7, <3>4
    <3> QED BY <3>1, <3>2, <3>3, <3>4
  <2>4. Ascending(queue')
    <3> SUFFICES ASSUME NEW j \in 1..Len(queue'), NEW k \in 1..Len(queue'), j < k
                 PROVE  Position(queue'[j]) < Position(queue'[k])
      BY DEF Ascending
    <3>1. j + 1 \in 1..Len(queue) /\ k + 1 \in 1..Len(queue) /\ j + 1 < k + 1
      BY <1>3
    <3>2. Position(queue[j + 1]) < Position(queue[k + 1])
      BY <3>1 DEF IInv, QueueInv, Ascending
    <3> QED BY <1>3, <3>2
  <2>5. \A j \in 1..Len(report) : Position(report[j].path) < Position(entry.path)
    <3>1. 1 \in 1..Len(queue)
      BY <1>2, <1>3
    <3> QED BY <1>4, <1>6, <3>1 DEF IInv, QueueInv
  <2>6. ASSUME NEW j \in 1..Len(report'), NEW k \in 1..Len(report'), j < k
        PROVE  Position(report'[j].path) < Position(report'[k].path)
    <3>1. j \in 1..Len(report)
      BY <1>2, <1>7, <2>6
    <3>2. CASE k \in 1..Len(report)
      BY <1>7, <2>6, <3>1, <3>2 DEF IInv, QueueInv
    <3>3. CASE k = Len(report) + 1
      BY <1>7, <2>5, <3>1, <3>3
    <3> QED BY <1>7, <3>2, <3>3
  <2>7. ASSUME NEW i \in 1..Len(report'), NEW k \in 1..Len(queue')
        PROVE  Position(report'[i].path) < Position(queue'[k])
    <3>1. k + 1 \in 1..Len(queue) /\ 1 \in 1..Len(queue) /\ 1 < k + 1 /\ queue'[k] = queue[k + 1]
      BY <1>2, <1>3
    <3>2. CASE i \in 1..Len(report)
      BY <1>7, <3>1, <3>2 DEF IInv, QueueInv
    <3>3. CASE i = Len(report) + 1
      <4>1. Position(queue[1]) < Position(queue[k + 1])
        BY <3>1 DEF IInv, QueueInv, Ascending
      <4> QED BY <1>4, <1>6, <1>7, <3>1, <3>3, <4>1
    <3> QED BY <1>7, <3>2, <3>3
  <2> QED BY <1>1, <1>3, <1>7, <2>1, <2>2, <2>3, <2>4, <2>6, <2>7 DEF QueueInv
<1>11. ReportInv'
  <2>1. \A e : Faithful(e)' <=> Faithful(e)
    BY <1>1 DEF Faithful
  <2>2. \A i \in 1..Len(report') : Faithful(report'[i])
    BY <1>6, <1>7 DEF IInv, ReportInv
  <2> QED BY <1>1, <2>1, <2>2 DEF IInv, ReportInv
<1> QED BY <1>8, <1>9, <1>10, <1>11

LEMMA SummarizeInv ==
  ASSUME IInv, Summarize, invocation' = invocation
  PROVE  DiscoveryInv' /\ CoverageInv' /\ QueueInv' /\ ReportInv'
<1>1. /\ phase = "test" /\ queue = <<>> /\ phase' = "done"
      /\ exit' = SelectExitCode({report[i].code : i \in DOMAIN report})
      /\ UNCHANGED <<arguments, walk, discovered, counted, queue, report>>
  BY DEF Summarize, discovery
<1>2. DiscoveryInv'
  BY <1>1 DEF IInv, DiscoveryInv, Walking
<1>3. CoverageInv'
  <2>1. \A argument : Covered(argument)' <=> Covered(argument)
    BY <1>1 DEF Covered
  <2> QED BY <1>1, <2>1 DEF IInv, CoverageInv, Arguments
<1>4. QueueInv'
  BY <1>1 DEF IInv, QueueInv
<1>5. ReportInv'
  <2>1. \A entry : Faithful(entry)' <=> Faithful(entry)
    BY <1>1 DEF Faithful
  <2>2. exit' # NotExited
    BY <1>1, SelectedIsCode
  <2>3. {report[i].code : i \in DOMAIN report} = {report'[i].code : i \in DOMAIN report'}
    BY <1>1
  <2> QED BY <1>1, <2>1, <2>2, <2>3 DEF IInv, ReportInv
<1> QED BY <1>2, <1>3, <1>4, <1>5

LEMMA TestStepInv ==
  ASSUME IInv, TestStep
  PROVE  IInv'
<1>1. TestNext /\ UNCHANGED <<tree, treeChanges, explainVars, invocation>>
  BY DEF TestStep
<1>2. DiscoveryInv' /\ CoverageInv' /\ QueueInv' /\ ReportInv'
  BY <1>1, InspectFileInv, InspectOtherInv, InspectDirectoryInv, WalkRootInv, ListDirectoryInv,
     VisitFileInv, EndWalkInv, EndDiscoveryInv, TestFixtureInv, SummarizeInv DEF TestNext
<1>3. FilesInv'
  BY <1>1 DEF IInv, FilesInv
<1>4. phase # "idle" /\ phase' \in {phase, "test", "done"}
  <2>1. Walking => phase = "inspect"
    BY WalkingFacts
  <2> QED BY <1>1, <2>1 DEF TestNext, InspectFile, InspectOther, InspectDirectory, WalkRoot,
      ListDirectory, VisitFile, EndWalk, EndDiscovery, TestFixture, Summarize, Inspecting,
      Visiting, Keep, Refuse, TooMany
<1>5. UNCHANGED <<options, task, explainExit, invocation>>
  BY <1>1 DEF explainVars, reading
<1>6. CommandInv'
  BY <1>4, <1>5 DEF IInv, CommandInv
<1> QED BY <1>2, <1>3, <1>6 DEF IInv

(* The invariant holds in every state of every behaviour. *)
THEOREM CommandLineInvariant == Spec => []IInv
<1>1. IInv /\ [Next]_vars => IInv'
  <2> SUFFICES ASSUME IInv, [Next]_vars PROVE IInv'
    OBVIOUS
  <2>1. CASE TestStep
    BY <2>1, TestStepInv
  <2>2. CASE ExplainStep
    BY <2>2, ExplainInv
  <2>3. CASE ChangeTree
    BY <2>3, ChangeTreeInv
  <2>4. CASE UNCHANGED vars
    <3>1. /\ UNCHANGED <<tree, treeChanges, testVars, invocation>>
          /\ UNCHANGED <<options, task, explainExit, phase>>
      BY <2>4 DEF vars, explainVars, reading, testVars
    <3>2. FilesInv'
      BY <3>1 DEF IInv, FilesInv
    <3>3. CommandInv'
      BY <3>1 DEF IInv, CommandInv
    <3> QED BY <3>1, <3>2, <3>3, TestUnchanged DEF IInv
  <2> QED BY <2>1, <2>2, <2>3, <2>4 DEF Next
<1> QED BY InitInv, <1>1, PTL DEF Spec

-------------------------------------------------------------------------------
(***************************************************************************)
(* What the code of one fixture says of it.                                *)
(***************************************************************************)
LEMMA NameKept ==
  ASSUME NEW w, "name" \in DOMAIN w
  PROVE  WithDefaults(w).name = w.name
BY DEF WithDefaults

LEMMA WebhookNames ==
  ASSUME NEW document \in DOMAIN Documents, Decodes(Documents[document]),
         NEW s, s = Documents[document].scenario
  PROVE  \A k \in DOMAIN s.configurations[1] :
           k \in DOMAIN WebhooksOf(s) /\ WebhooksOf(s)[k].name = s.configurations[1][k].name
<1>1. Len(s.configurations) = 1
  BY DEF Decodes, Valid
<1>2. \A k \in DOMAIN s.configurations[1] : "name" \in DOMAIN s.configurations[1][k]
  BY <1>1, DocumentsAssumption
<1> QED BY <1>2, NameKept DEF WebhooksOf

LEMMA ComparedFacts ==
  ASSUME NEW document \in DOMAIN Documents, Decodes(Documents[document]),
         NEW s, s = Documents[document].scenario
  PROVE  /\ ComparedCode(s) \notin {ExitExpectationMismatch, ExitInvalidInput, ExitInternalError}
              => AllAsserted(s)
         /\ ComparedCode(s) = ExitSuccess => AllComplete(s)
<1> DEFINE webhooks == WebhooksOf(s)
           verdicts == VerdictsOn(s)
           codesOf(k) == ComparisonCodes(webhooks[k], verdicts[k], s)
                           \cup {DiagnosticExitCode(verdicts[k])}
           codes == UNION {codesOf(k) : k \in DOMAIN webhooks}
<1>1. ComparedCode(s) = SelectExitCode(codes)
  BY DEF ComparedCode
<1>2. \A k \in DOMAIN webhooks :
        /\ \A f \in ExpectationFor(webhooks[k], s) :
             Meets(verdicts[k], f) \/ ExitExpectationMismatch \in codes
        /\ \/ verdicts[k].determination
                \in {"determinate"} \cup {e.determination : e \in ExpectationFor(webhooks[k], s)}
           \/ ExitIncompleteEvaluation \in codes
  <2> SUFFICES ASSUME NEW k \in DOMAIN webhooks
               PROVE  /\ \A f \in ExpectationFor(webhooks[k], s) :
                           Meets(verdicts[k], f) \/ ExitExpectationMismatch \in codes
                      /\ \/ verdicts[k].determination \in {"determinate"}
                              \cup {e.determination : e \in ExpectationFor(webhooks[k], s)}
                         \/ ExitIncompleteEvaluation \in codes
    OBVIOUS
  <2>1. \A code \in ComparisonCodes(webhooks[k], verdicts[k], s) : code \in codes
    OBVIOUS
  <2> HIDE DEF codes, webhooks, verdicts
  <2>2. ASSUME NEW f \in ExpectationFor(webhooks[k], s), ~Meets(verdicts[k], f)
        PROVE  ExitExpectationMismatch \in ComparisonCodes(webhooks[k], verdicts[k], s)
    BY <2>2 DEF ComparisonCodes
  <2>3. \/ verdicts[k].determination \in {"determinate"}
             \cup {e.determination : e \in ExpectationFor(webhooks[k], s)}
        \/ ExitIncompleteEvaluation \in ComparisonCodes(webhooks[k], verdicts[k], s)
    BY DEF ComparisonCodes
  <2> QED BY <2>1, <2>2, <2>3
<1> HIDE DEF codes
<1>3. ASSUME ExitExpectationMismatch \in codes
      PROVE  ComparedCode(s) \in {ExitExpectationMismatch, ExitInvalidInput, ExitInternalError}
  <2>1. ExitPriority[2] \in codes
    BY <1>3, Priorities
  <2>2. PICK p \in 1..4 : SelectExitCode(codes) = ExitPriority[p] /\ 2 <= p
    BY <2>1, SelectedCode
  <2> QED BY <1>1, <2>2, Priorities
<1>4. ASSUME ExitIncompleteEvaluation \in codes
      PROVE  ComparedCode(s) # ExitSuccess
  <2>1. ExitPriority[1] \in codes
    BY <1>4, Priorities
  <2>2. PICK p \in 1..4 : SelectExitCode(codes) = ExitPriority[p]
    BY <2>1, SelectedCode
  <2> QED BY <1>1, <2>2, Priorities DEF ExitSuccess, ExitIncompleteEvaluation,
      ExitExpectationMismatch, ExitInvalidInput, ExitInternalError
<1>5. ASSUME ComparedCode(s)
               \notin {ExitExpectationMismatch, ExitInvalidInput, ExitInternalError}
      PROVE  AllAsserted(s)
  <2> SUFFICES ASSUME NEW e \in DOMAIN s.expectations
               PROVE  \E k \in DOMAIN WebhooksOf(s) : e \in Asserted(s, k) /\ AsAsserted(s, e, k)
    BY DEF AllAsserted
  <2>1. PICK k \in DOMAIN s.configurations[1] :
          s.configurations[1][k].name = s.expectations[e].webhookName
    BY DEF Decodes, Valid, ExpectationsValid
  <2>2. k \in DOMAIN webhooks /\ webhooks[k].name = s.expectations[e].webhookName
    BY <2>1, WebhookNames
  <2>3. s.expectations[e] \in ExpectationFor(webhooks[k], s)
    BY <2>2 DEF ExpectationFor
  <2>4. Meets(verdicts[k], s.expectations[e])
    BY <1>2, <1>3, <1>5, <2>2, <2>3
  <2>5. e \in Asserted(s, k)
    BY <2>2 DEF Asserted
  <2>6. AsAsserted(s, e, k)
    BY <2>4 DEF AsAsserted, Meets
  <2> QED BY <2>2, <2>5, <2>6
<1>6. ASSUME ComparedCode(s) = ExitSuccess PROVE AllComplete(s)
  <2> SUFFICES ASSUME NEW k \in DOMAIN WebhooksOf(s), Asserted(s, k) = {}
               PROVE  VerdictsOn(s)[k].determination = "determinate"
    BY DEF AllComplete
  <2>1. ExpectationFor(webhooks[k], s) = {}
    BY DEF ExpectationFor, Asserted
  <2> QED BY <1>2, <1>4, <1>6, <2>1
<1> QED BY <1>5, <1>6

LEMMA FixtureCodeFacts ==
  ASSUME NEW document \in DOMAIN Documents,
         FixtureCode[document] \notin {ExitInvalidInput, ExitInternalError}
  PROVE  /\ Decodes(Documents[document])
         /\ Preparation(Documents[document].scenario) = "prepared"
<1> DEFINE s == Documents[document].scenario
<1>1. Preparation(s) \in {"invalid", "unsupported", "prepared"}
  BY DEF Preparation
<1>2. FixtureCode[document] =
        IF ~Decodes(Documents[document]) THEN ExitInvalidInput
        ELSE CASE Preparation(s) = "invalid"     -> ExitInvalidInput
               [] Preparation(s) = "unsupported" -> ExitInternalError
               [] OTHER                          -> ComparedCode(s)
  BY DEF FixtureCode
<1> HIDE DEF s
<1>3. Decodes(Documents[document]) /\ Preparation(s) = "prepared"
  BY <1>1, <1>2
<1> QED BY <1>3 DEF s

LEMMA EvaluatedCode ==
  ASSUME NEW document \in DOMAIN Documents, Decodes(Documents[document]),
         Preparation(Documents[document].scenario) = "prepared"
  PROVE  FixtureCode[document] = ComparedCode(Documents[document].scenario)
BY DEF FixtureCode

(* What is so of an entry of the report, by its code. *)
LEMMA EntryFacts ==
  ASSUME NEW entry, Faithful(entry)
  PROVE  /\ entry.code \notin {ExitInvalidInput, ExitInternalError} => Evaluated(entry)
         /\ entry.code \notin {ExitExpectationMismatch, ExitInvalidInput, ExitInternalError}
              => AllAsserted(ScenarioOf(entry))
         /\ entry.code \notin {ExitIncompleteEvaluation, ExitExpectationMismatch,
                               ExitInvalidInput, ExitInternalError}
              => AllComplete(ScenarioOf(entry))
<1>1. ASSUME entry.code \notin {ExitInvalidInput, ExitInternalError}
      PROVE  /\ entry.document \in DOMAIN Documents /\ entry.document # NoDocument
             /\ entry.code = FixtureCode[entry.document]
             /\ Decodes(Documents[entry.document])
             /\ Preparation(ScenarioOf(entry)) = "prepared"
             /\ entry.code = ComparedCode(ScenarioOf(entry))
  <2>1. /\ entry.document \in DOMAIN Documents /\ entry.document # NoDocument
        /\ entry.code = FixtureCode[entry.document]
    BY <1>1 DEF Faithful, Found
  <2> QED BY <1>1, <2>1, FixtureCodeFacts, EvaluatedCode DEF ScenarioOf
<1>2. entry.code \notin {ExitInvalidInput, ExitInternalError} => Evaluated(entry)
  BY <1>1 DEF Evaluated, DecodedFixture
<1>3. ASSUME entry.code \notin {ExitExpectationMismatch, ExitInvalidInput, ExitInternalError}
      PROVE  AllAsserted(ScenarioOf(entry))
  <2>1. /\ entry.document \in DOMAIN Documents /\ Decodes(Documents[entry.document])
        /\ entry.code = ComparedCode(ScenarioOf(entry))
    BY <1>1, <1>3
  <2> QED BY <1>3, <2>1, ComparedFacts DEF ScenarioOf
<1>4. ASSUME entry.code \notin {ExitIncompleteEvaluation, ExitExpectationMismatch,
                                ExitInvalidInput, ExitInternalError}
      PROVE  AllComplete(ScenarioOf(entry))
  <2>1. /\ entry.document \in DOMAIN Documents /\ Decodes(Documents[entry.document])
        /\ entry.code = ComparedCode(ScenarioOf(entry))
    BY <1>1, <1>4
  <2>2. ComparedCode(ScenarioOf(entry)) = ExitSuccess
    BY <1>4, <2>1, SelectedCode, Priorities DEF ComparedCode
  <2> QED BY <2>1, <2>2, ComparedFacts DEF ScenarioOf
<1> QED BY <1>2, <1>3, <1>4

(* The exit code has the highest priority among the codes of the fixtures. *)
LEMMA ExitFacts ==
  ASSUME IInv, exit # NotExited
  PROVE  /\ phase = "done" /\ queue = <<>> /\ DOMAIN report = 1..Len(report)
         /\ \A i \in 1..Len(report) :
              /\ exit \notin {ExitInvalidInput, ExitInternalError}
                   => report[i].code \notin {ExitInvalidInput, ExitInternalError}
              /\ exit \in {ExitSuccess, ExitIncompleteEvaluation}
                   => report[i].code # ExitExpectationMismatch
              /\ exit = ExitSuccess => report[i].code # ExitIncompleteEvaluation
<1> DEFINE codes == {report[i].code : i \in DOMAIN report}
<1>1. phase = "done" /\ exit = SelectExitCode(codes) /\ queue = <<>>
  BY DEF IInv, ReportInv, QueueInv
<1>2. DOMAIN report = 1..Len(report)
  BY SequenceFacts DEF IInv, QueueInv
<1>3. ASSUME NEW i \in 1..Len(report), NEW q \in 1..4, report[i].code = ExitPriority[q]
      PROVE  \E p \in 1..4 : exit = ExitPriority[p] /\ q <= p
  <2>1. ExitPriority[q] \in codes
    BY <1>2, <1>3
  <2> HIDE DEF codes
  <2> QED BY <1>1, <2>1, SelectedCode
<1> HIDE DEF codes
<1>4. ASSUME NEW i \in 1..Len(report)
      PROVE  /\ report[i].code = ExitInvalidInput => exit \in {ExitInvalidInput, ExitInternalError}
             /\ report[i].code = ExitInternalError => exit = ExitInternalError
             /\ report[i].code = ExitExpectationMismatch =>
                  exit \in {ExitExpectationMismatch, ExitInvalidInput, ExitInternalError}
             /\ report[i].code = ExitIncompleteEvaluation => exit # ExitSuccess
  <2>1. ASSUME report[i].code = ExitPriority[4] PROVE exit = ExitPriority[4]
    BY <1>3, <2>1
  <2>2. ASSUME report[i].code = ExitPriority[3] PROVE exit \in {ExitPriority[3], ExitPriority[4]}
    <3>1. PICK p \in 1..4 : exit = ExitPriority[p] /\ 3 <= p
      BY <1>3, <2>2
    <3> QED BY <3>1
  <2>3. ASSUME report[i].code = ExitPriority[2]
        PROVE  exit \in {ExitPriority[2], ExitPriority[3], ExitPriority[4]}
    <3>1. PICK p \in 1..4 : exit = ExitPriority[p] /\ 2 <= p
      BY <1>3, <2>3
    <3> QED BY <3>1
  <2>4. ASSUME report[i].code = ExitPriority[1] PROVE exit # ExitSuccess
    <3>1. PICK p \in 1..4 : exit = ExitPriority[p]
      BY <1>3, <2>4
    <3> QED BY <3>1, Priorities DEF ExitSuccess, ExitIncompleteEvaluation,
        ExitExpectationMismatch, ExitInvalidInput, ExitInternalError
  <2> QED BY <2>1, <2>2, <2>3, <2>4, Priorities
<1> QED BY <1>1, <1>2, <1>4 DEF ExitSuccess, ExitIncompleteEvaluation,
    ExitExpectationMismatch, ExitInvalidInput, ExitInternalError

-------------------------------------------------------------------------------
(***************************************************************************)
(* The variables hold what their declarations say, whichever command runs  *)
(* and however the files change under it.                                  *)
(***************************************************************************)
THEOREM CommandLineTypes == Spec => []TypeOK
<1>1. IInv => TypeOK
  <2> SUFFICES ASSUME IInv PROVE TypeOK
    OBVIOUS
  <2>1. invocation.command \in {"test", "explain"}
    BY InvocationsAssumption DEF IInv, CommandInv
  <2>2. DOMAIN queue = 1..Len(queue) /\ DOMAIN report = 1..Len(report)
    BY SequenceFacts DEF IInv, QueueInv
  <2>3. /\ \A i \in DOMAIN queue : queue[i] \in DOMAIN discovered
        /\ \A i \in DOMAIN report : report[i].path \in DOMAIN discovered
    BY <2>2 DEF IInv, QueueInv
  <2>4. (exit = NotExited) <=> (phase # "done")
    BY DEF IInv, ReportInv
  <2>5. DOMAIN tree = PathSet /\ treeChanges \in 0..MaxTreeChanges
    BY DEF IInv, FilesInv
  <2>6. /\ DOMAIN discovered \subseteq PathSet
        /\ \A path \in DOMAIN discovered : discovered[path] \in {"file", "error"}
        /\ counted \in 0..MaximumDocuments
    BY DEF IInv, DiscoveryInv
  <2> QED BY <2>1, <2>3, <2>4, <2>5, <2>6 DEF IInv, CommandInv, TypeOK
<1> QED BY <1>1, CommandLineInvariant, PTL

(***************************************************************************)
(* The fixtures are reported once each and in the byte order of their      *)
(* paths, in whatever order the directories are walked, links and repeated *)
(* arguments lead to them, and the files come and go.                      *)
(***************************************************************************)
THEOREM ReportInOrder == Spec => []ReportOrdered
<1>1. IInv => ReportOrdered
  BY SequenceFacts DEF IInv, QueueInv, ReportOrdered
<1> QED BY <1>1, CommandLineInvariant, PTL

(***************************************************************************)
(* The one exit code of many fixtures hides nothing worse than itself, for *)
(* any fixtures: when it is that of an incomplete result, every fixture    *)
(* was evaluated and every expectation met.                                *)
(***************************************************************************)
THEOREM NothingWorseHidden == Spec => []ExitHidesNothingWorse
<1>1. IInv => ExitHidesNothingWorse
  <2> SUFFICES ASSUME IInv PROVE ExitHidesNothingWorse
    OBVIOUS
  <2>1. \A i \in 1..Len(report) : Faithful(report[i])
    BY DEF IInv, ReportInv
  <2>2. ASSUME exit = ExitIncompleteEvaluation, NEW i \in DOMAIN report
        PROVE  Evaluated(report[i]) /\ AllAsserted(ScenarioOf(report[i]))
    <3>1. exit # NotExited /\ exit \notin {ExitInvalidInput, ExitInternalError}
      BY <2>2 DEF ExitIncompleteEvaluation, NotExited, ExitInvalidInput, ExitInternalError
    <3>2. /\ i \in 1..Len(report)
          /\ report[i].code \notin {ExitInvalidInput, ExitInternalError}
          /\ report[i].code # ExitExpectationMismatch
      BY <2>2, <3>1, ExitFacts
    <3> QED BY <2>1, <3>2, EntryFacts
  <2>3. ASSUME exit = ExitExpectationMismatch, NEW i \in DOMAIN report
        PROVE  Evaluated(report[i])
    <3>1. exit # NotExited /\ exit \notin {ExitInvalidInput, ExitInternalError}
      BY <2>3 DEF ExitExpectationMismatch, NotExited, ExitInvalidInput, ExitInternalError
    <3>2. /\ i \in 1..Len(report)
          /\ report[i].code \notin {ExitInvalidInput, ExitInternalError}
      BY <2>3, <3>1, ExitFacts
    <3> QED BY <2>1, <3>2, EntryFacts
  <2> QED BY <2>2, <2>3 DEF ExitHidesNothingWorse
<1> QED BY <1>1, CommandLineInvariant, PTL

(***************************************************************************)
(* Exit code 0 of test stands for every argument and every Webhook, for    *)
(* any files and however they change between being found and being read.   *)
(***************************************************************************)
THEOREM ZeroMeansMatched == Spec => []ZeroMeansAllMatched
<1>1. IInv => ZeroMeansAllMatched
  <2> SUFFICES ASSUME IInv, exit = ExitSuccess
               PROVE  /\ \A i \in DOMAIN report :
                           /\ Evaluated(report[i])
                           /\ AllAsserted(ScenarioOf(report[i]))
                           /\ AllComplete(ScenarioOf(report[i]))
                      /\ \A argument \in Arguments :
                           \E i \in DOMAIN report :
                             argument \in {report[i].path} \cup Above[report[i].path]
    BY DEF ZeroMeansAllMatched
  <2>1. exit # NotExited /\ exit \notin {ExitInvalidInput, ExitInternalError}
    BY DEF ExitSuccess, NotExited, ExitInvalidInput, ExitInternalError
  <2>2. /\ phase = "done" /\ queue = <<>> /\ DOMAIN report = 1..Len(report)
        /\ \A i \in 1..Len(report) :
             /\ report[i].code \notin {ExitInvalidInput, ExitInternalError}
             /\ report[i].code # ExitExpectationMismatch
             /\ report[i].code # ExitIncompleteEvaluation
    BY <2>1, ExitFacts
  <2>3. \A i \in 1..Len(report) : Faithful(report[i])
    BY DEF IInv, ReportInv
  <2>4. \A i \in DOMAIN report : /\ Evaluated(report[i])
                                 /\ AllAsserted(ScenarioOf(report[i]))
                                 /\ AllComplete(ScenarioOf(report[i]))
    BY <2>2, <2>3, EntryFacts
  <2>5. \A path \in DOMAIN discovered : \E i \in DOMAIN report : report[i].path = path
    <3>1. 1..Len(queue) = {}
      BY <2>2, EmptySequence
    <3> QED BY <2>2, <3>1 DEF IInv, QueueInv
  <2>6. ASSUME NEW path \in DOMAIN discovered PROVE discovered[path] # "error"
    <3>1. PICK i \in DOMAIN report : report[i].path = path
      BY <2>5
    <3>2. report[i].document # NoDocument
      BY <2>2, <2>3, <3>1 DEF Faithful
    <3> QED BY <2>2, <2>3, <3>1, <3>2 DEF Faithful
  <2>7. \A argument \in Arguments : Covered(argument)
    BY <2>2, <2>6 DEF IInv, CoverageInv
  <2>8. ASSUME NEW argument \in Arguments
        PROVE  \E i \in DOMAIN report : argument \in {report[i].path} \cup Above[report[i].path]
    <3>1. PICK path \in DOMAIN discovered : Under(argument, path)
      BY <2>7 DEF Covered
    <3> QED BY <2>5, <3>1 DEF Under
  <2> QED BY <2>4, <2>8
<1> QED BY <1>1, CommandLineInvariant, PTL

(***************************************************************************)
(* A Scenario that asserts nothing gets the same exit code from both       *)
(* commands, whatever its Webhooks are, unless it cannot be prepared.      *)
(***************************************************************************)
THEOREM BothCommandsAgree == Spec => []TestAgreesWithExplain
<1>1. ASSUME NEW document \in DOMAIN Documents, NEW s, s = Documents[document].scenario,
             Decodes(Documents[document]), Preparation(s) = "prepared", s.expectations = <<>>
      PROVE  ComparedCode(s) = LegacyExitCode[document]
  <2> DEFINE webhooks == WebhooksOf(s)
             v == VerdictsOn(s)
             given == UNION {ComparisonCodes(webhooks[k], v[k], s) \cup {DiagnosticExitCode(v[k])} :
                               k \in DOMAIN webhooks}
             evaluated == {DiagnosticExitCode(u) : u \in ToSet(v)}
                            \cup {ExitIncompleteEvaluation :
                                    u \in {w \in ToSet(v) : w.determination # "determinate"}}
  <2>1. ComparedCode(s) = SelectExitCode(given)
    BY DEF ComparedCode
  <2>2. LegacyExitCode[document] = SelectExitCode(evaluated)
    <3>1. LegacyExitCode[document] =
            CASE ~Valid(s)                       -> ExitInvalidInput
              [] Preparation(s) = "invalid"     -> ExitInvalidInput
              [] Preparation(s) = "unsupported" -> ExitIncompleteEvaluation
              [] OTHER                          -> EvaluationExitCode(ToSet(v))
      BY <1>1 DEF LegacyExitCode
    <3>2. Valid(s)
      BY <1>1 DEF Decodes
    <3>3. EvaluationExitCode(ToSet(v)) = SelectExitCode(evaluated)
      BY DEF EvaluationExitCode
    <3> HIDE DEF v, evaluated
    <3> QED BY <1>1, <3>1, <3>2, <3>3
  <2>3. DOMAIN v = DOMAIN webhooks
    BY DEF VerdictsOn, SnapshotOf
  <2> HIDE DEF v, webhooks
  <2>4. \A k : ExpectationFor(webhooks[k], s) = {}
    BY <1>1, EmptySequence DEF ExpectationFor
  <2>5. \A k : ComparisonCodes(webhooks[k], v[k], s)
                 = IF v[k].determination = "determinate" THEN {} ELSE {ExitIncompleteEvaluation}
    BY <2>4 DEF ComparisonCodes
  <2>6. ToSet(v) = {v[k] : k \in DOMAIN webhooks}
    BY <2>3 DEF ToSet
  <2>7. given = evaluated
    <3>1. ASSUME NEW code \in given PROVE code \in evaluated
      <4>1. PICK k \in DOMAIN webhooks :
              code \in ComparisonCodes(webhooks[k], v[k], s) \cup {DiagnosticExitCode(v[k])}
        BY <3>1
      <4> QED BY <2>5, <2>6, <4>1
    <3>2. ASSUME NEW code \in evaluated PROVE code \in given
      <4>1. PICK k \in DOMAIN webhooks :
              \/ code = DiagnosticExitCode(v[k])
              \/ code = ExitIncompleteEvaluation /\ v[k].determination # "determinate"
        BY <2>6, <3>2
      <4>2. code \in ComparisonCodes(webhooks[k], v[k], s) \cup {DiagnosticExitCode(v[k])}
        BY <2>5, <4>1
      <4> QED BY <4>2
    <3> QED BY <3>1, <3>2
  <2> QED BY <2>1, <2>2, <2>7
<1>2. IInv => TestAgreesWithExplain
  <2> SUFFICES ASSUME IInv, NEW i \in DOMAIN report, Evaluated(report[i]),
                      ScenarioOf(report[i]).expectations = <<>>
               PROVE  report[i].code = LegacyExitCode[report[i].document]
    BY DEF TestAgreesWithExplain
  <2>1. Faithful(report[i])
    BY SequenceFacts DEF IInv, QueueInv, ReportInv
  <2> DEFINE document == report[i].document
  <2>2. /\ document \in DOMAIN Documents /\ report[i].code = FixtureCode[document]
        /\ Decodes(Documents[document]) /\ Preparation(Documents[document].scenario) = "prepared"
        /\ Documents[document].scenario.expectations = <<>>
    BY <2>1 DEF Faithful, Found, Evaluated, DecodedFixture, ScenarioOf
  <2> HIDE DEF document
  <2>3. report[i].code = ComparedCode(Documents[document].scenario)
    BY <2>2, EvaluatedCode
  <2>4. report[i].code = LegacyExitCode[document]
    BY <1>1, <2>2, <2>3
  <2> QED BY <2>4 DEF document
<1> QED BY <1>2, CommandLineInvariant, PTL

-------------------------------------------------------------------------------
(***************************************************************************)
(* explain leaves nothing out.  First the text of one file: cut at its     *)
(* separators it falls into parts that hold one document each, unless one  *)
(* holds none, and then the file is refused.                               *)
(***************************************************************************)
Marked(text) == {k \in 1..Len(text) : text[k].mark = "text"}

Part(text) ==
  /\ IsSequence(text)
  /\ \A k \in 1..Len(text) : text[k].mark \in {"comment", "text"}
  /\ \A j, k \in Marked(text) : j = k

LEMMA PartFacts ==
  ASSUME NEW text, Part(text)
  PROVE  /\ Blank(text) <=> Marked(text) = {}
         /\ FirstDocument(text) # NoDocument => Marked(text) # {}
         /\ \A k \in Marked(text) : FirstDocument(text) = text[k].document
<1> DEFINE keep == {line \in ToSet(text) : ~IsComment(line)}
           meaningful == Kept(text, keep)
           rest == IF meaningful # <<>> /\ Head(meaningful).mark = "separator"
                   THEN Tail(meaningful) ELSE meaningful
<1>1. IsSequence(text) /\ Len(text) \in Nat /\ DOMAIN text = 1..Len(text)
  BY SequenceFacts DEF Part
<1>2. \A k \in 1..Len(text) : text[k] \in keep <=> k \in Marked(text)
  <2>1. \A k \in 1..Len(text) : text[k] \in ToSet(text)
    BY <1>1 DEF ToSet
  <2> QED BY <2>1 DEF Part, Marked, IsComment
<1>3. PICK g : ComesFrom(g, meaningful, text, keep, Len(text))
  <2> HIDE DEF keep
  <2> QED BY <1>1, KeptFacts
<1>4. IsSequence(meaningful)
  <2> HIDE DEF keep
  <2> QED BY <1>1, KeptFacts
<1>5. FirstDocument(text) = IF \/ rest = <<>> \/ Head(rest).mark = "separator"
                               \/ (rest # meaningful /\ Head(rest).mark = "inline")
                            THEN NoDocument ELSE Head(rest).document
  BY DEF FirstDocument, WithoutComments
<1>6. Blank(text) <=> meaningful = <<>>
  BY DEF Blank, WithoutComments
<1> HIDE DEF keep, meaningful
<1>7. Len(meaningful) \in Nat /\ (meaningful = <<>> <=> Len(meaningful) = 0)
  BY <1>4, SequenceFacts
<1>8. \A j \in 1..Len(meaningful) : g[j] \in Marked(text) /\ meaningful[j] = text[g[j]]
  BY <1>2, <1>3 DEF ComesFrom
<1>9. \A k \in Marked(text) : \E j \in 1..Len(meaningful) : g[j] = k
  BY <1>2, <1>3 DEF ComesFrom, Marked
<1>10. ASSUME Marked(text) = {} PROVE meaningful = <<>> /\ FirstDocument(text) = NoDocument
  <2>1. Len(meaningful) = 0
    <3>1. Len(meaningful) # 0 => 1 \in 1..Len(meaningful)
      BY <1>7
    <3> QED BY <1>8, <1>10, <3>1
  <2> QED BY <1>5, <1>7, <2>1
<1>11. ASSUME NEW k \in Marked(text)
       PROVE  meaningful # <<>> /\ FirstDocument(text) = text[k].document
  <2>1. 1 \in 1..Len(meaningful) /\ meaningful # <<>>
    BY <1>7, <1>9
  <2>2. Head(meaningful) = meaningful[1]
    BY <1>4, <2>1, TailFacts
  <2>3. Head(meaningful) = text[k]
    BY <1>8, <2>1, <2>2 DEF Part
  <2>4. text[k].mark = "text"
    BY DEF Marked
  <2>5. rest = meaningful
    BY <2>3, <2>4
  <2> QED BY <1>5, <2>1, <2>3, <2>4, <2>5
<1> QED BY <1>6, <1>10, <1>11

(* Where a split has come to, against the documents there have been. *)
Stands(texts, current, separated, taken, lines, n) ==
  /\ IsSequence(texts) /\ IsSequence(taken)
  /\ \A j \in 1..Len(texts) : Part(texts[j])
  /\ Part(current)
  /\ texts # <<>> => separated
  /\ Marked(current) # {} =>
       \E l \in 1..n : lines[l].mark = "text" /\ \A k \in l..n : lines[k].mark # "separator"
  /\ (\A j \in 1..Len(texts) : Marked(texts[j]) # {}) =>
       /\ Len(taken) = Len(texts) + (IF Marked(current) = {} THEN 0 ELSE 1)
       /\ \A j \in 1..Len(texts) : \A k \in Marked(texts[j]) : texts[j][k] = taken[j]
       /\ \A k \in Marked(current) : current[k] = taken[Len(texts) + 1]

Progress(split, taken, lines, n) ==
  \E texts, current, separated :
    /\ split = [texts |-> texts, current |-> current, separated |-> separated]
    /\ Stands(texts, current, separated, taken, lines, n)

Plain(lines) ==
  /\ IsSequence(lines) /\ OneAfterAnother(lines)
  /\ \A i \in 1..Len(lines) : lines[i].mark \in {"comment", "separator", "text"}

LEMMA PartNone == Part(<<>>) /\ Marked(<<>>) = {}
<1>1. 1..0 = {}
  OBVIOUS
<1> QED BY <1>1, EmptySequence DEF Part, Marked

LEMMA PartAppend ==
  ASSUME NEW text, Part(text), NEW line,
         \/ line.mark = "comment"
         \/ line.mark = "text" /\ Marked(text) = {}
  PROVE  /\ Part(Append(text, line))
         /\ line.mark = "comment" => Marked(Append(text, line)) = Marked(text)
         /\ line.mark = "text" => Marked(Append(text, line)) = {Len(text) + 1}
         /\ \A k \in Marked(text) : Append(text, line)[k] = text[k]
         /\ Append(text, line)[Len(text) + 1] = line
<1> DEFINE more == Append(text, line)
<1>1. IsSequence(text) /\ Len(text) \in Nat
  BY SequenceFacts DEF Part
<1>2. /\ IsSequence(more) /\ Len(more) = Len(text) + 1 /\ more[Len(text) + 1] = line
      /\ \A k \in 1..Len(text) : more[k] = text[k]
  BY <1>1, AppendFacts
<1> HIDE DEF more
<1>3. \A k : k \in 1..Len(more) <=> k \in 1..Len(text) \/ k = Len(text) + 1
  BY <1>1, <1>2
<1>4. \A k \in 1..Len(more) : more[k].mark \in {"comment", "text"}
  BY <1>2, <1>3 DEF Part
<1>5. line.mark = "comment" => Marked(more) = Marked(text)
  BY <1>2, <1>3 DEF Marked
<1>6. line.mark = "text" => Marked(more) = {Len(text) + 1}
  BY <1>2, <1>3 DEF Marked
<1>7. \A j, k \in Marked(more) : j = k
  BY <1>5, <1>6 DEF Part
<1>8. \A k \in Marked(text) : more[k] = text[k]
  BY <1>2 DEF Marked
<1> QED BY <1>2, <1>4, <1>5, <1>6, <1>7, <1>8 DEF Part, more

LEMMA ProgressStep ==
  ASSUME NEW lines, Plain(lines), NEW n \in 1..Len(lines),
         NEW split, NEW taken, Progress(split, taken, lines, n - 1)
  PROVE  Progress(SplitLine(split, lines[n]),
                  IF lines[n].mark = "text" THEN Append(taken, lines[n]) ELSE taken, lines, n)
<1> DEFINE line == lines[n]
<1>1. /\ IsSequence(lines) /\ OneAfterAnother(lines) /\ line.mark \in {"comment", "separator", "text"}
      /\ Len(lines) \in Nat /\ DOMAIN lines = 1..Len(lines)
  BY SequenceFacts DEF Plain
<1>2. PICK texts, current, separated :
        /\ split = [texts |-> texts, current |-> current, separated |-> separated]
        /\ Stands(texts, current, separated, taken, lines, n - 1)
  BY DEF Progress
<1>3. split.texts = texts /\ split.current = current /\ split.separated = separated
  BY <1>2
<1>4. /\ IsSequence(current) /\ Len(current) \in Nat /\ Len(texts) \in Nat /\ Len(taken) \in Nat
      /\ texts = <<>> <=> Len(texts) = 0
  BY <1>2, SequenceFacts DEF Part, Stands
<1>5. n \in Nat /\ n - 1 \in Nat /\ 1..(n - 1) \subseteq 1..n /\ n \in 1..n
  BY <1>1
<1>6. ASSUME NEW l \in 1..(n - 1), \A k \in l..(n - 1) : lines[k].mark # "separator",
             line.mark # "separator"
      PROVE  l \in 1..n /\ \A k \in l..n : lines[k].mark # "separator"
  <2>1. \A k \in l..n : k \in l..(n - 1) \/ k = n
    BY <1>5
  <2> QED BY <1>5, <1>6, <2>1
<1>7. CASE line.mark = "comment"
  <2>1. SplitLine(split, line)
          = [texts |-> texts, current |-> Append(current, line), separated |-> separated]
    BY <1>2, <1>3, <1>7 DEF SplitLine
  <2>2. /\ Part(Append(current, line)) /\ Marked(Append(current, line)) = Marked(current)
        /\ \A k \in Marked(current) : Append(current, line)[k] = current[k]
    BY <1>2, <1>7, PartAppend DEF Stands
  <2>3. Marked(current) # {} =>
          \E l \in 1..n : lines[l].mark = "text" /\ \A k \in l..n : lines[k].mark # "separator"
    BY <1>2, <1>6, <1>7 DEF Stands
  <2> HIDE DEF line
  <2>4. Stands(texts, Append(current, line), separated, taken, lines, n)
    BY <1>2, <2>2, <2>3 DEF Stands
  <2>5. Progress(SplitLine(split, line), taken, lines, n)
    BY <2>1, <2>4 DEF Progress
  <2> QED BY <1>7, <2>5 DEF line
<1>8. CASE line.mark = "text"
  <2>1. SplitLine(split, line)
          = [texts |-> texts, current |-> Append(current, line), separated |-> separated]
    BY <1>2, <1>3, <1>8 DEF SplitLine
  <2>2. Marked(current) = {}
    <3> SUFFICES ASSUME Marked(current) # {} PROVE FALSE
      OBVIOUS
    <3>1. PICK l \in 1..(n - 1) : /\ lines[l].mark = "text"
                                  /\ \A k \in l..(n - 1) : lines[k].mark # "separator"
      BY <1>2 DEF Stands
    <3>2. l \in DOMAIN lines /\ n \in DOMAIN lines /\ l < n
      BY <1>1, <1>5
    <3>3. PICK k \in l..n : lines[k].mark = "separator"
      BY <1>1, <1>8, <3>1, <3>2 DEF OneAfterAnother
    <3> QED BY <1>6, <1>8, <3>1, <3>3
  <2>3. /\ Part(Append(current, line)) /\ Marked(Append(current, line)) = {Len(current) + 1}
        /\ Append(current, line)[Len(current) + 1] = line
    BY <1>2, <1>8, <2>2, PartAppend DEF Stands
  <2>4. \E l \in 1..n : lines[l].mark = "text" /\ \A k \in l..n : lines[k].mark # "separator"
    <3>1. n..n = {n}
      BY <1>5
    <3> QED BY <1>5, <1>8, <3>1
  <2>5. /\ IsSequence(Append(taken, line)) /\ Len(Append(taken, line)) = Len(taken) + 1
        /\ Append(taken, line)[Len(taken) + 1] = line
        /\ \A j \in 1..Len(taken) : Append(taken, line)[j] = taken[j]
    BY <1>2, AppendFacts DEF Stands
  <2> HIDE DEF line
  <2>6. ASSUME \A j \in 1..Len(texts) : Marked(texts[j]) # {}
        PROVE  /\ Len(Append(taken, line)) = Len(texts) + 1
               /\ \A j \in 1..Len(texts) : \A k \in Marked(texts[j]) :
                    texts[j][k] = Append(taken, line)[j]
               /\ Append(taken, line)[Len(texts) + 1] = line
    <3>1. /\ Len(taken) = Len(texts)
          /\ \A j \in 1..Len(texts) : \A k \in Marked(texts[j]) : texts[j][k] = taken[j]
      BY <1>2, <1>4, <2>2, <2>6 DEF Stands
    <3> QED BY <2>5, <3>1
  <2>7. Stands(texts, Append(current, line), separated, Append(taken, line), lines, n)
    BY <1>2, <2>3, <2>4, <2>5, <2>6 DEF Stands
  <2>8. Progress(SplitLine(split, line), Append(taken, line), lines, n)
    BY <2>1, <2>7 DEF Progress
  <2> QED BY <1>8, <2>8 DEF line
<1>9. CASE line.mark = "separator" /\ ~split.separated /\ Blank(split.current)
  <2>1. SplitLine(split, line) = [texts |-> texts, current |-> <<>>, separated |-> TRUE]
    BY <1>2, <1>3, <1>9 DEF SplitLine
  <2>2. texts = <<>> /\ Marked(current) = {}
    BY <1>2, <1>3, <1>9, PartFacts DEF Stands
  <2>3. Len(taken) = 0 /\ 1..Len(texts) = {} /\ Len(texts) = 0
    BY <1>2, <1>4, <2>2 DEF Stands
  <2> HIDE DEF line
  <2>4. Stands(texts, <<>>, TRUE, taken, lines, n)
    BY <1>2, <2>3, PartNone DEF Stands
  <2>5. Progress(SplitLine(split, line), taken, lines, n)
    BY <2>1, <2>4 DEF Progress
  <2> QED BY <1>9, <2>5 DEF line
<1>10. CASE line.mark = "separator" /\ ~(~split.separated /\ Blank(split.current))
  <2> DEFINE more == Append(texts, current)
  <2>1. SplitLine(split, line) = [texts |-> more, current |-> <<>>, separated |-> TRUE]
    BY <1>2, <1>3, <1>10 DEF SplitLine
  <2>2. /\ IsSequence(more) /\ Len(more) = Len(texts) + 1 /\ more[Len(texts) + 1] = current
        /\ \A j \in 1..Len(texts) : more[j] = texts[j]
    BY <1>2, AppendFacts DEF Stands
  <2>3. \A j : j \in 1..Len(more) <=> j \in 1..Len(texts) \/ j = Len(texts) + 1
    BY <1>4, <2>2
  <2> HIDE DEF line, more
  <2>4. \A j \in 1..Len(more) : Part(more[j])
    BY <1>2, <2>2, <2>3 DEF Stands
  <2>5. ASSUME \A j \in 1..Len(more) : Marked(more[j]) # {}
        PROVE  /\ Len(taken) = Len(more) + 0
               /\ \A j \in 1..Len(more) : \A k \in Marked(more[j]) : more[j][k] = taken[j]
    <3>1. (\A j \in 1..Len(texts) : Marked(texts[j]) # {}) /\ Marked(current) # {}
      BY <2>2, <2>3, <2>5
    <3>2. /\ Len(taken) = Len(texts) + 1
          /\ \A j \in 1..Len(texts) : \A k \in Marked(texts[j]) : texts[j][k] = taken[j]
          /\ \A k \in Marked(current) : current[k] = taken[Len(texts) + 1]
      BY <1>2, <3>1 DEF Stands
    <3> QED BY <1>4, <2>2, <2>3, <3>2
  <2>6. Stands(more, <<>>, TRUE, taken, lines, n)
    BY <1>2, <2>2, <2>4, <2>5, PartNone DEF Stands
  <2>7. Progress(SplitLine(split, line), taken, lines, n)
    BY <2>1, <2>6 DEF Progress
  <2> QED BY <1>10, <2>7 DEF line
<1> QED BY <1>1, <1>7, <1>8, <1>9, <1>10

CutInto(lines, texts, current, separated) ==
  /\ Stands(texts, current, separated,
            Kept(lines, {line \in ToSet(lines) : line.mark = "text"}), lines, Len(lines))
  /\ SplitDocuments(lines) = IF separated \/ current # <<>> THEN Append(texts, current) ELSE texts

LEMMA SplitProgress ==
  ASSUME NEW lines, Plain(lines)
  PROVE  \E texts, current, separated : CutInto(lines, texts, current, separated)
<1> DEFINE keep == {line \in ToSet(lines) : line.mark = "text"}
           f == CHOOSE f : SplitsTo(f, lines, Len(lines))
           h == CHOOSE h : KeepsTo(h, lines, keep, Len(lines))
           split == f[Len(lines)]
           T == {n \in 0..Len(lines) : ~Progress(f[n], h[n], lines, n)}
<1>1. IsSequence(lines) /\ Len(lines) \in Nat /\ DOMAIN lines = 1..Len(lines)
  BY SequenceFacts DEF Plain
<1>2. SplitsTo(f, lines, Len(lines))
  BY <1>1, SplitsToExists
<1>3. KeepsTo(h, lines, keep, Len(lines))
  <2> HIDE DEF keep
  <2> QED BY <1>1, KeepsToExists
<1>4. SplitDocuments(lines) = IF split.separated \/ split.current # <<>>
                              THEN Append(split.texts, split.current) ELSE split.texts
  BY DEF SplitDocuments, SplitsTo, Start
<1>5. Kept(lines, keep) = h[Len(lines)]
  BY DEF Kept, KeepsTo
<1>6. \A i \in 1..Len(lines) : lines[i] \in keep <=> lines[i].mark = "text"
  BY <1>1 DEF ToSet
<1> HIDE DEF f, h, keep
<1>7. 0 \in 0..Len(lines) /\ \A i \in 1..Len(lines) : i \in 0..Len(lines) /\ i # 0
  BY <1>1
<1>8. f[0] = Start /\ \A i \in 1..Len(lines) : f[i] = SplitLine(f[i - 1], lines[i])
  <2>1. \A i \in 0..Len(lines) : f[i] = IF i = 0 THEN Start ELSE SplitLine(f[i - 1], lines[i])
    BY <1>2 DEF SplitsTo
  <2> QED BY <1>7, <2>1
<1>9. /\ h[0] = <<>>
      /\ \A i \in 1..Len(lines) :
           h[i] = IF lines[i].mark = "text" THEN Append(h[i - 1], lines[i]) ELSE h[i - 1]
  <2>1. \A i \in 0..Len(lines) :
          h[i] = IF i = 0 THEN <<>>
                 ELSE IF lines[i] \in keep THEN Append(h[i - 1], lines[i]) ELSE h[i - 1]
    BY <1>3 DEF KeepsTo
  <2> QED BY <1>6, <1>7, <2>1
<1>10. Progress(f[0], h[0], lines, 0)
  <2>1. Stands(<<>>, <<>>, FALSE, <<>>, lines, 0)
    <3>1. 1..0 = {}
      OBVIOUS
    <3> QED BY <3>1, PartNone, EmptySequence DEF Stands
  <2> QED BY <1>8, <1>9, <2>1 DEF Progress, Start
<1>11. T = {}
  <2> SUFFICES ASSUME T # {} PROVE FALSE
    OBVIOUS
  <2>1. T \subseteq Nat
    BY <1>1
  <2>2. PICK m \in T : \A n \in T : m <= n
    <3> HIDE DEF T
    <3> QED BY <2>1, NatMinimum
  <2>3. m \in 0..Len(lines) /\ ~Progress(f[m], h[m], lines, m)
    OBVIOUS
  <2>4. m # 0
    BY <1>10, <2>3
  <2>5. m \in 1..Len(lines) /\ m - 1 \in 0..Len(lines) /\ ~(m <= m - 1)
    BY <1>1, <2>3, <2>4
  <2>6. Progress(f[m - 1], h[m - 1], lines, m - 1)
    BY <2>2, <2>5
  <2> HIDE DEF T
  <2> QED BY <1>8, <1>9, <2>3, <2>5, <2>6, ProgressStep
<1>12. Len(lines) \in 0..Len(lines)
  BY <1>1
<1>13. Progress(split, h[Len(lines)], lines, Len(lines))
  BY <1>11, <1>12
<1> HIDE DEF split, T
<1>14. PICK texts, current, separated :
         /\ split = [texts |-> texts, current |-> current, separated |-> separated]
         /\ Stands(texts, current, separated, h[Len(lines)], lines, Len(lines))
  BY <1>13 DEF Progress
<1>15. split.texts = texts /\ split.current = current /\ split.separated = separated
  BY <1>14
<1>16. SplitDocuments(lines) = IF separated \/ current # <<>> THEN Append(texts, current)
                               ELSE texts
  BY <1>4, <1>15
<1>17. CutInto(lines, texts, current, separated)
  BY <1>5, <1>14, <1>16 DEF CutInto, keep
<1> QED BY <1>17

LEMMA PlainDecoded ==
  ASSUME NEW path, Plain(tree[path].lines),
         \A i \in DOMAIN Decoded(path) : Decoded(path)[i].document # NoDocument
  PROVE  Decoded(path) = DocumentsOf(path)
<1> DEFINE lines == tree[path].lines
           parts == SplitDocuments(lines)
           taken == Kept(lines, {line \in ToSet(lines) : line.mark = "text"})
<1>1. PICK texts, current, separated :
        /\ Stands(texts, current, separated, taken, lines, Len(lines))
        /\ parts = IF separated \/ current # <<>> THEN Append(texts, current) ELSE texts
  BY SplitProgress DEF CutInto
<1>2. Decoded(path) = [i \in DOMAIN parts |->
                         [path |-> path, index |-> i, document |-> FirstDocument(parts[i])]]
  BY DEF Decoded
<1>3. DocumentsOf(path) = [i \in DOMAIN taken |->
                             [path |-> path, index |-> i, document |-> taken[i].document]]
  BY DEF DocumentsOf
<1> HIDE DEF taken, parts, lines
<1>4. \A i \in DOMAIN parts : FirstDocument(parts[i]) # NoDocument
  BY <1>2
<1>5. /\ IsSequence(texts) /\ Len(texts) \in Nat /\ (texts = <<>> <=> Len(texts) = 0)
      /\ IsSequence(taken) /\ DOMAIN taken = 1..Len(taken)
      /\ \A j \in 1..Len(texts) : Part(texts[j])
      /\ Part(current) /\ IsSequence(current)
  BY <1>1, SequenceFacts DEF Stands, Part
<1>6. CASE separated \/ current # <<>>
  <2>1. /\ IsSequence(parts) /\ Len(parts) = Len(texts) + 1 /\ DOMAIN parts = 1..Len(parts)
        /\ parts[Len(texts) + 1] = current
        /\ \A j \in 1..Len(texts) : parts[j] = texts[j]
    BY <1>1, <1>5, <1>6, AppendFacts, SequenceFacts
  <2>2. \A j : j \in 1..Len(parts) <=> j \in 1..Len(texts) \/ j = Len(texts) + 1
    BY <1>5, <2>1
  <2>3. \A j \in 1..Len(parts) : Part(parts[j])
    BY <1>5, <2>1, <2>2
  <2>4. \A j \in 1..Len(parts) : Marked(parts[j]) # {}
    BY <1>4, <2>1, <2>3, PartFacts
  <2>5. (\A j \in 1..Len(texts) : Marked(texts[j]) # {}) /\ Marked(current) # {}
    BY <2>1, <2>2, <2>4
  <2>6. /\ Len(taken) = Len(texts) + 1
        /\ \A j \in 1..Len(texts) : \A k \in Marked(texts[j]) : texts[j][k] = taken[j]
        /\ \A k \in Marked(current) : current[k] = taken[Len(texts) + 1]
    BY <1>1, <2>5 DEF Stands
  <2>7. \A j \in 1..Len(parts) : \A k \in Marked(parts[j]) : parts[j][k] = taken[j]
    BY <2>1, <2>2, <2>6
  <2>8. \A j \in 1..Len(parts) : FirstDocument(parts[j]) = taken[j].document
    BY <2>3, <2>4, <2>7, PartFacts
  <2>9. DOMAIN taken = DOMAIN parts
    BY <1>5, <2>1, <2>6
  <2> QED BY <1>2, <1>3, <2>1, <2>8, <2>9
<1>7. CASE ~(separated \/ current # <<>>)
  <2>1. texts = <<>> /\ parts = <<>> /\ current = <<>>
    BY <1>1, <1>7 DEF Stands
  <2>2. 1..Len(texts) = {}
    BY <1>5, <2>1
  <2>3. Len(taken) = 0
    BY <1>1, <1>5, <2>1, <2>2, PartNone DEF Stands
  <2>4. DOMAIN taken = {} /\ DOMAIN parts = {}
    BY <1>5, <2>1, <2>3, EmptySequence
  <2> QED BY <1>2, <1>3, <2>4
<1> QED BY <1>6, <1>7

(* The documents of some files one after the other. *)
FlattensTo(f, s, n) == f = [i \in 1..n |-> IF i = 1 THEN s[i] ELSE f[i - 1] \o s[i]]

LEMMA FlattensToExists ==
  ASSUME NEW s, NEW n \in Nat
  PROVE  \E f : FlattensTo(f, s, n)
<1> DEFINE T == {k \in Nat : ~\E f : FlattensTo(f, s, k)}
<1> SUFFICES ASSUME T # {} PROVE FALSE
  OBVIOUS
<1>1. PICK m \in T : \A k \in T : m <= k
  <2>1. T \subseteq Nat
    OBVIOUS
  <2> HIDE DEF T
  <2> QED BY <2>1, NatMinimum
<1>2. CASE m = 0
  <2> DEFINE f == [i \in 1..0 |-> s]
  <2>1. 1..0 = {}
    OBVIOUS
  <2>2. FlattensTo(f, s, 0)
    BY <2>1 DEF FlattensTo
  <2> QED BY <1>2, <2>2
<1>3. CASE m # 0
  <2>1. m \in Nat /\ m - 1 \in Nat /\ ~(m <= m - 1)
    BY <1>3
  <2>2. PICK f : FlattensTo(f, s, m - 1)
    BY <1>1, <2>1
  <2> DEFINE g == [i \in 1..m |-> IF i = m THEN IF i = 1 THEN s[i] ELSE f[i - 1] \o s[i]
                                  ELSE f[i]]
  <2>3. ASSUME NEW i \in 1..m
        PROVE  g[i] = IF i = 1 THEN s[i] ELSE g[i - 1] \o s[i]
    <3>1. i # 1 => i - 1 \in 1..m /\ i - 1 # m /\ g[i - 1] = f[i - 1]
      BY <2>1
    <3>2. CASE i = m
      BY <3>1, <3>2
    <3>3. CASE i # m
      <4>1. i \in 1..(m - 1) /\ g[i] = f[i]
        BY <2>1, <3>3
      <4>2. f[i] = IF i = 1 THEN s[i] ELSE f[i - 1] \o s[i]
        BY <2>2, <4>1 DEF FlattensTo
      <4> QED BY <3>1, <4>1, <4>2
    <3> QED BY <3>2, <3>3
  <2>4. FlattensTo(g, s, m)
    <3>1. g = [i \in 1..m |-> g[i]]
      OBVIOUS
    <3> HIDE DEF g
    <3> QED BY <2>3, <3>1 DEF FlattensTo
  <2> QED BY <2>4
<1> QED BY <1>2, <1>3

(* The first m of them. *)
Joined(s, m) == IF m = 0 THEN <<>> ELSE (CHOOSE f : FlattensTo(f, s, Len(s)))[m]

LEMMA JoinedFacts ==
  ASSUME NEW s, IsSequence(s), \A i \in 1..Len(s) : IsSequence(s[i])
  PROVE  /\ Joined(s, 0) = <<>>
         /\ \A m \in 1..Len(s) : Joined(s, m) = Joined(s, m - 1) \o s[m]
         /\ FlattenSeq(s) = Joined(s, Len(s))
<1> DEFINE f == CHOOSE f : FlattensTo(f, s, Len(s))
<1>1. Len(s) \in Nat /\ (s = <<>> <=> Len(s) = 0)
  BY SequenceFacts
<1>2. FlattensTo(f, s, Len(s))
  BY <1>1, FlattensToExists
<1>3. \A m : Joined(s, m) = IF m = 0 THEN <<>> ELSE f[m]
  BY DEF Joined
<1>4. FlattenSeq(s) = IF Len(s) = 0 THEN s ELSE f[Len(s)]
  BY DEF FlattenSeq, FlattensTo
<1> HIDE DEF f
<1>5. \A m \in 1..Len(s) : f[m] = IF m = 1 THEN s[m] ELSE f[m - 1] \o s[m]
  BY <1>2 DEF FlattensTo
<1>6. ASSUME NEW m \in 1..Len(s) PROVE Joined(s, m) = Joined(s, m - 1) \o s[m]
  <2>1. m \in Nat /\ m # 0 /\ (m - 1 = 0 <=> m = 1)
    BY <1>1
  <2>2. CASE m = 1
    <3>1. <<>> \o s[m] = s[m]
      <4>1. s[m] \in Seq(Range(s[m]))
        BY DEF IsSequence
      <4> QED BY <4>1
    <3> QED BY <1>3, <1>5, <2>1, <2>2, <3>1
  <2>3. CASE m # 1
    BY <1>3, <1>5, <2>1, <2>3
  <2> QED BY <2>2, <2>3
<1> QED BY <1>1, <1>3, <1>4, <1>6

-------------------------------------------------------------------------------
(***************************************************************************)
(* What an option holds, and the invariant: an input that was decoded has  *)
(* all of it, and of a directory that is being read the documents so far   *)
(* are those of the first m of its files, and the entries still to come    *)
(* hold the files after the n-th.                                          *)
(***************************************************************************)
EachOf(path) == [i \in DOMAIN FilesOf(path) |-> DocumentsOf(FilesOf(path)[i])]

Unchanged == treeChanges = 0 /\ PlainText

Before(r) == CASE r = "primary"       -> {}
               [] r = "webhookConfig" -> {"primary"}
               [] OTHER               -> {"primary", "webhookConfig"}

Gathered(r, taken) ==
  /\ \A q \in Before(r) : taken[q] = DocumentsGiven(options[q])
  /\ \A q \in Roles \ Before(r) : taken[q] = <<>>

AllGiven(taken) == \A r \in Roles : taken[r] = DocumentsGiven(options[r])

Files == FilesOf(Path)

ReadSoFar(m, n) ==
  /\ documents = Joined(EachOf(Path), m)
  /\ IF opened = NoEntry THEN n = m ELSE n = m + 1 /\ opened = Files[n]
  /\ \A j \in 1..Len(Files) : j > n <=> \E k \in 1..Len(entries) : entries[k] = Files[j]

DirectoryInv ==
  /\ Path # Stdin /\ Lstat(Path) = "directory"
  /\ IsSequence(entries) /\ Ascending(entries)
  /\ \A k \in 1..Len(entries) :
       entries[k] \in PathSet /\ entries[k] \in Supported /\ Parent[entries[k]] = Path
  /\ \E m, n \in 0..Len(Files) : ReadSoFar(m, n)

TakenInv ==
  /\ task \in {"look", "file", "list", "entries"} =>
       options[role] \in PathSet /\ Gathered(role, inputs)
  /\ task = "file" => Path # Stdin /\ Lstat(Path) # "directory"
  /\ task = "list" => Path # Stdin
  /\ task \in {"look", "list"} => documents = <<>> /\ opened = NoEntry
  /\ task = "entries" => DirectoryInv
  /\ Answered => AllGiven(inputs)

InputsInv ==
  /\ role \in Roles /\ DOMAIN inputs = Roles
  /\ Unchanged => TakenInv

(* Nothing of this depends on more than the files. *)
LEMMA SameFiles ==
  ASSUME tree' = tree
  PROVE  /\ PlainText' <=> PlainText
         /\ Exists' = Exists
         /\ \A path : /\ Lstat(path)' = Lstat(path)
                      /\ FilesOf(path)' = FilesOf(path)
                      /\ EachOf(path)' = EachOf(path)
                      /\ DocumentsGiven(path)' = DocumentsGiven(path)
<1>1. PlainText' <=> PlainText
  BY DEF PlainText
<1>2. Exists' = Exists
  BY DEF Exists, Searchable
<1>3. \A path : Lstat(path)' = Lstat(path)
  BY <1>2 DEF Lstat
<1>4. \A path : FilesOf(path)' = FilesOf(path)
  BY <1>3 DEF FilesOf
<1>5. \A path : DocumentsOf(path)' = DocumentsOf(path)
  BY DEF DocumentsOf
<1>6. \A path : EachOf(path)' = EachOf(path)
  BY <1>4, <1>5 DEF EachOf
<1>7. \A path : DocumentsGiven(path)' = DocumentsGiven(path)
  BY <1>4, <1>5 DEF DocumentsGiven
<1> QED BY <1>1, <1>2, <1>3, <1>4, <1>6, <1>7

LEMMA DocumentsAreSequence == ASSUME NEW path, IsSequence(tree[path].lines)
                              PROVE  IsSequence(DocumentsOf(path))
<1> DEFINE texts == Kept(tree[path].lines,
                         {line \in ToSet(tree[path].lines) : line.mark = "text"})
<1>1. IsSequence(texts)
  BY KeptFacts
<1>2. DocumentsOf(path) = [i \in DOMAIN texts |->
                             [path |-> path, index |-> i, document |-> texts[i].document]]
  BY DEF DocumentsOf
<1> HIDE DEF texts
<1>3. DOMAIN texts = 1..Len(texts) /\ Len(texts) \in Nat
  BY <1>1, SequenceFacts
<1>4. DocumentsOf(path) = [i \in 1..Len(texts) |-> DocumentsOf(path)[i]]
  BY <1>2, <1>3
<1> QED BY <1>3, <1>4, TableIsSequence

LEMMA PlainPath ==
  ASSUME FilesInv, PlainText, NEW path \in PathSet
  PROVE  Plain(tree[path].lines) /\ IsSequence(DocumentsOf(path))
<1>1. WellFormedText(tree[path].lines)
  BY DEF FilesInv
<1>2. TextFacts(tree[path].lines)
  BY <1>1, TextIs
<1>3. IsSequence(tree[path].lines) /\ DOMAIN tree[path].lines = 1..Len(tree[path].lines)
  BY <1>2, SequenceFacts DEF TextFacts
<1>4. \A i \in 1..Len(tree[path].lines) :
        tree[path].lines[i].mark \in {"comment", "separator", "text"}
  BY <1>2, <1>3 DEF TextFacts, WellFormedLine, PlainText
<1> QED BY <1>1, <1>3, <1>4, DocumentsAreSequence DEF Plain, WellFormedText

LEMMA GivenFile ==
  ASSUME NEW path \in PathSet, IsSequence(DocumentsOf(path)), path # NoPath,
         path = Stdin \/ Lstat(path) # "directory"
  PROVE  DocumentsGiven(path) = DocumentsOf(path)
<1> DEFINE one == <<DocumentsOf(path)>>
<1>1. FilesOf(path) = <<path>>
  BY DEF FilesOf
<1>2. DocumentsGiven(path) = FlattenSeq(one)
  <2>1. [i \in DOMAIN <<path>> |-> DocumentsOf(<<path>>[i])] = one
    OBVIOUS
  <2> QED BY <1>1, <2>1 DEF DocumentsGiven
<1>3. IsSequence(one) /\ Len(one) = 1 /\ one[1] = DocumentsOf(path)
  <2>1. one \in Seq({DocumentsOf(path)})
    OBVIOUS
  <2> QED BY <2>1, SequenceOf
<1> HIDE DEF one
<1>4. \A i \in 1..Len(one) : IsSequence(one[i])
  BY <1>3
<1>5. /\ Joined(one, 0) = <<>> /\ Joined(one, 1) = Joined(one, 0) \o one[1]
      /\ FlattenSeq(one) = Joined(one, 1)
  <2>1. 1 \in 1..Len(one) /\ 1 - 1 = 0
    BY <1>3
  <2>2. Joined(one, 1) = Joined(one, 1 - 1) \o one[1]
    BY <1>3, <1>4, <2>1, JoinedFacts
  <2> QED BY <1>3, <1>4, <2>1, <2>2, JoinedFacts
<1>6. <<>> \o DocumentsOf(path) = DocumentsOf(path)
  <2>1. DocumentsOf(path) \in Seq(Range(DocumentsOf(path)))
    BY DEF IsSequence
  <2> QED BY <2>1
<1> QED BY <1>2, <1>3, <1>5, <1>6

(* Sorted looks at paths only. *)
LEMMA SortedWithin == \A paths : Sorted(paths) = Sorted(paths \cap PathSet)
<1> SUFFICES ASSUME NEW paths PROVE Sorted(paths) = Sorted(paths \cap PathSet)
  OBVIOUS
<1>1. \A f : KeepsTo(f, Paths, paths, Len(Paths))
               <=> KeepsTo(f, Paths, paths \cap PathSet, Len(Paths))
  <2>1. \A i \in 0..Len(Paths) : i # 0 => (Paths[i] \in paths <=> Paths[i] \in paths \cap PathSet)
    <3>1. \A i \in 0..Len(Paths) : i # 0 => i \in 1..Len(Paths)
      BY PathFacts
    <3> QED BY <3>1, PathFacts
  <2> QED BY <2>1 DEF KeepsTo
<1>2. \A keep : Kept(Paths, keep) = (CHOOSE f : KeepsTo(f, Paths, keep, Len(Paths)))[Len(Paths)]
  BY DEF Kept, KeepsTo
<1> QED BY <1>1, <1>2 DEF Sorted

(* The files of a directory. *)
LEMMA FilesFacts ==
  ASSUME FilesInv, PlainText, NEW path \in PathSet, path # NoPath, path # Stdin,
         Lstat(path) = "directory"
  PROVE  /\ IsSequence(FilesOf(path)) /\ Ascending(FilesOf(path))
         /\ \A p : (\E j \in 1..Len(FilesOf(path)) : FilesOf(path)[j] = p) <=>
                     p \in PathSet /\ p \in Supported /\ Parent[p] = path /\ Lstat(p) = "file"
         /\ IsSequence(EachOf(path)) /\ Len(EachOf(path)) = Len(FilesOf(path))
         /\ \A j \in 1..Len(FilesOf(path)) :
              EachOf(path)[j] = DocumentsOf(FilesOf(path)[j]) /\ IsSequence(EachOf(path)[j])
         /\ DocumentsGiven(path) = Joined(EachOf(path), Len(FilesOf(path)))
<1> DEFINE within == {p \in Supported : Parent[p] = path /\ Lstat(p) = "file"}
           files == FilesOf(path)
<1>1. files = Sorted(within)
  BY DEF FilesOf
<1>2. Sorted(within) = Sorted(within \cap PathSet)
  BY SortedWithin
<1>3. Lists(files, within \cap PathSet) /\ Ascending(files)
  <2>1. within \cap PathSet \subseteq PathSet
    OBVIOUS
  <2> HIDE DEF within, files
  <2> QED BY <1>1, <1>2, <2>1, SortedFacts
<1>4. \A p : (\E j \in 1..Len(files) : files[j] = p) <=> p \in within \cap PathSet
  <2> HIDE DEF within, files
  <2> QED BY <1>3 DEF Lists
<1>5. IsSequence(files)
  BY <1>3 DEF Lists
<1>6. EachOf(path) = [i \in DOMAIN files |-> DocumentsOf(files[i])]
  BY DEF EachOf
<1>7. DocumentsGiven(path) = FlattenSeq(EachOf(path))
  BY DEF DocumentsGiven, EachOf
<1>8. \A j \in 1..Len(files) : files[j] \in PathSet
  BY <1>4
<1> HIDE DEF files
<1>9. DOMAIN files = 1..Len(files) /\ Len(files) \in Nat
  BY <1>5, SequenceFacts
<1>10. IsSequence(EachOf(path)) /\ Len(EachOf(path)) = Len(files)
  <2>1. EachOf(path) = [i \in 1..Len(files) |-> EachOf(path)[i]]
    BY <1>6, <1>9
  <2> QED BY <1>9, <2>1, TableIsSequence
<1>11. \A j \in 1..Len(files) :
         EachOf(path)[j] = DocumentsOf(files[j]) /\ IsSequence(EachOf(path)[j])
  BY <1>6, <1>8, <1>9, PlainPath
<1>12. DocumentsGiven(path) = Joined(EachOf(path), Len(files))
  BY <1>7, <1>10, <1>11, JoinedFacts
<1> QED BY <1>3, <1>4, <1>5, <1>10, <1>11, <1>12 DEF files

(* How a step that takes a whole input may end. *)
Outcome ==
  /\ options' = options /\ role' \in Roles /\ DOMAIN inputs' = Roles
  /\ \/ task' = "done" /\ explainExit' = ExitInvalidInput
     \/ /\ task' = "look" /\ explainExit' = NotExited
        /\ options[role'] # NoPath /\ Gathered(role', inputs')
        /\ documents' = <<>> /\ opened' = NoEntry
     \/ task' \in {"handed", "done"} /\ AllGiven(inputs')

LEMMA ErrorOutcome ==
  ASSUME InputError, role \in Roles, DOMAIN inputs = Roles
  PROVE  Outcome
BY DEF InputError, ExitWith, Outcome

LEMMA RoleFacts ==
  /\ Before("primary") = {} /\ Before("webhookConfig") = {"primary"}
  /\ Before("namespaceObject") = {"primary", "webhookConfig"}
  /\ Roles = {"primary", "webhookConfig", "namespaceObject"}
BY DEF Before, Roles

LEMMA ProceedOutcome ==
  ASSUME NEW decoded, NEW roles, Proceed(decoded, Given(roles)),
         role \in Roles, DOMAIN inputs = Roles, Gathered(role, inputs), explainExit = NotExited,
         decoded = DocumentsGiven(options[role]),
         roles = Roles \ (Before(role) \cup {role})
  PROVE  Outcome
<1> DEFINE given == Given(roles)
           next == CHOOSE r \in given : r = "webhookConfig" \/ "webhookConfig" \notin given
           more == [inputs EXCEPT ![role] = decoded]
<1>1. given = {r \in roles : options[r] # NoPath}
  BY DEF Given
<1>2. \A r : options[r] = NoPath => DocumentsGiven(options[r]) = <<>>
  BY DEF DocumentsGiven
<1>3. DOMAIN more = Roles /\ more[role] = decoded /\ \A q \in Roles \ {role} : more[q] = inputs[q]
  OBVIOUS
<1>4. /\ \A q \in Before(role) : inputs[q] = DocumentsGiven(options[q])
      /\ \A q \in Roles \ Before(role) : inputs[q] = <<>>
  BY DEF Gathered
<1>5. /\ \A q \in Before(role) \cup {role} : more[q] = DocumentsGiven(options[q])
      /\ \A q \in roles : more[q] = <<>>
  <2>1. role \notin Before(role) /\ Before(role) \subseteq Roles
    BY RoleFacts
  <2> HIDE DEF more
  <2> QED BY <1>3, <1>4, <2>1
<1> HIDE DEF given, more
<1>6. CASE given # {}
  <2>1. next \in given /\ (next = "webhookConfig" \/ "webhookConfig" \notin given)
    <3>1. \E r \in given : r = "webhookConfig" \/ "webhookConfig" \notin given
      BY <1>6
    <3> QED BY <3>1
  <2>2. /\ role' = next /\ task' = "look" /\ inputs' = more
        /\ documents' = <<>> /\ opened' = NoEntry /\ UNCHANGED <<options, explainExit>>
    BY <1>6 DEF Proceed, given, more
  <2> HIDE DEF next
  <2>3. next \in roles /\ options[next] # NoPath
    BY <1>1, <2>1
  <2>4. Gathered(next, more)
    <3>1. CASE role = "primary" /\ next = "webhookConfig"
      BY <1>5, <3>1, RoleFacts DEF Gathered
    <3>2. CASE role = "primary" /\ next = "namespaceObject"
      <4>1. "webhookConfig" \in roles /\ "webhookConfig" \notin given
        BY <2>1, <3>2, RoleFacts
      <4>2. options["webhookConfig"] = NoPath
        BY <1>1, <4>1
      <4> QED BY <1>2, <1>5, <3>2, <4>1, <4>2, RoleFacts DEF Gathered
    <3>3. CASE role = "webhookConfig" /\ next = "namespaceObject"
      BY <1>5, <3>3, RoleFacts DEF Gathered
    <3> QED BY <2>3, <3>1, <3>2, <3>3, RoleFacts
  <2> QED BY <1>3, <2>2, <2>3, <2>4 DEF Outcome
<1>7. CASE given = {}
  <2>1. CASE options.supplemental /\ ~options.user
    BY <1>7, <2>1, ErrorOutcome DEF Proceed, given
  <2>2. CASE ~(options.supplemental /\ ~options.user)
    <3>1. task' = "handed" /\ inputs' = more /\ UNCHANGED <<options, role>>
      BY <1>7, <2>2 DEF Proceed, given, more
    <3>2. AllGiven(more)
      <4>1. \A q \in roles : options[q] = NoPath
        BY <1>1, <1>7
      <4>2. \A q \in roles : more[q] = DocumentsGiven(options[q])
        BY <1>2, <1>5, <4>1
      <4> QED BY <1>5, <4>2 DEF AllGiven
    <3> QED BY <1>3, <3>1, <3>2 DEF Outcome
  <2> QED BY <2>1, <2>2
<1> QED BY <1>6, <1>7

LEMMA ResourcesOutcome ==
  ASSUME NEW decoded, TakeResources(decoded),
         role \in Roles, DOMAIN inputs = Roles, Gathered(role, inputs), explainExit = NotExited,
         decoded = DocumentsGiven(options[role])
  PROVE  Outcome
<1>1. CASE role = "primary"
  <2>1. Roles \ (Before(role) \cup {role}) = {"webhookConfig", "namespaceObject"}
    BY <1>1, RoleFacts
  <2>2. InputError \/ Proceed(decoded, Given({"webhookConfig", "namespaceObject"}))
    BY <1>1 DEF TakeResources, TakePrimary
  <2> QED BY <2>1, <2>2, ErrorOutcome, ProceedOutcome
<1>2. CASE role = "webhookConfig"
  <2>1. Roles \ (Before(role) \cup {role}) = {"namespaceObject"}
    BY <1>2, RoleFacts
  <2>2. InputError \/ Proceed(decoded, Given({"namespaceObject"}))
    BY <1>2 DEF TakeResources, TakeConfigurations
  <2> QED BY <2>1, <2>2, ErrorOutcome, ProceedOutcome
<1>3. CASE role = "namespaceObject"
  <2>1. Roles \ (Before(role) \cup {role}) = {} /\ Given({}) = {}
    BY <1>3, RoleFacts DEF Given
  <2>2. InputError \/ Proceed(decoded, Given({}))
    BY <1>3, <2>1 DEF TakeResources, TakeNamespace
  <2> QED BY <2>1, <2>2, ErrorOutcome, ProceedOutcome
<1> QED BY <1>1, <1>2, <1>3, RoleFacts

LEMMA LegacyOutcome ==
  ASSUME TakeLegacy(Decoded(Path)), IsSequence(Decoded(Path)), Len(Decoded(Path)) = 1,
         role \in Roles, DOMAIN inputs = Roles, Gathered(role, inputs),
         Decoded(Path) = DocumentsGiven(options[role])
  PROVE  Outcome
<1>1. CASE role # "primary" \/ options.explicitly \/ ResourceOnlyOptions
  BY <1>1, ErrorOutcome DEF TakeLegacy, EvaluateLegacy
<1>2. CASE role = "primary" /\ ~(options.explicitly \/ ResourceOnlyOptions)
  <2> DEFINE one == <<[path |-> Path, index |-> 1, document |-> Decoded(Path)[1].document]>>
  <2>1. /\ task' = "done" /\ inputs' = [inputs EXCEPT !.primary = one]
        /\ UNCHANGED <<options, role>>
    BY <1>2 DEF TakeLegacy, EvaluateLegacy
  <2>2. one = Decoded(Path)
    <3> DEFINE texts == SplitDocuments(tree[Path].lines)
    <3>1. Decoded(Path) = [i \in DOMAIN texts |->
                             [path |-> Path, index |-> i, document |-> FirstDocument(texts[i])]]
      BY DEF Decoded
    <3> HIDE DEF texts
    <3>2. DOMAIN Decoded(Path) = 1..1 /\ 1 \in 1..1
      BY SequenceFacts
    <3>3. DOMAIN texts = 1..1
      BY <3>1, <3>2
    <3>4. Decoded(Path)[1] = [path |-> Path, index |-> 1, document |-> FirstDocument(texts[1])]
      BY <3>1, <3>2, <3>3
    <3>5. Decoded(Path)[1] = [path |-> Path, index |-> 1, document |-> Decoded(Path)[1].document]
      BY <3>4
    <3>6. Decoded(Path) = [i \in 1..1 |-> Decoded(Path)[i]]
      BY <3>1, <3>3
    <3> HIDE DEF Path
    <3>7. Decoded(Path) = <<Decoded(Path)[1]>>
      BY <3>6
    <3> QED BY <3>5, <3>7
  <2> HIDE DEF one
  <2>3. options.webhookConfig = NoPath /\ options.namespaceObject = NoPath
    BY <1>2 DEF ResourceOnlyOptions
  <2>4. inputs["webhookConfig"] = <<>> /\ inputs["namespaceObject"] = <<>>
    BY <1>2, RoleFacts DEF Gathered
  <2>5. /\ inputs'["primary"] = one /\ DOMAIN inputs' = Roles
        /\ inputs'["webhookConfig"] = <<>> /\ inputs'["namespaceObject"] = <<>>
    BY <2>1, <2>4, RoleFacts
  <2>6. AllGiven(inputs')
    <3>1. DocumentsGiven(NoPath) = <<>>
      BY DEF DocumentsGiven
    <3>2. inputs'["primary"] = DocumentsGiven(options["primary"])
      BY <1>2, <2>2, <2>5
    <3>3. inputs'["webhookConfig"] = DocumentsGiven(options["webhookConfig"])
      BY <2>3, <2>5, <3>1
    <3>4. inputs'["namespaceObject"] = DocumentsGiven(options["namespaceObject"])
      BY <2>3, <2>5, <3>1
    <3> QED BY <3>2, <3>3, <3>4, RoleFacts DEF AllGiven
  <2> QED BY <2>1, <2>5, <2>6 DEF Outcome
<1> QED BY <1>1, <1>2

LEMMA TakeOutcome ==
  ASSUME Take(Decoded(Path)), FilesInv, PlainText, Path \in PathSet, Path # NoPath,
         Path = Stdin \/ Lstat(Path) # "directory",
         role \in Roles, DOMAIN inputs = Roles, Gathered(role, inputs), explainExit = NotExited
  PROVE  Outcome
<1>1. CASE Mode(Decoded(Path), TRUE) = "error"
  BY <1>1, ErrorOutcome DEF Take
<1>2. CASE Mode(Decoded(Path), TRUE) # "error"
  <2>1. \A i \in DOMAIN Decoded(Path) : IsObject(Decoded(Path)[i].document)
    BY <1>2 DEF Mode
  <2>2. Plain(tree[Path].lines) /\ IsSequence(DocumentsOf(Path))
    BY PlainPath
  <2>3. Decoded(Path) = DocumentsOf(Path)
    BY <2>1, <2>2, PlainDecoded DEF IsObject
  <2>4. Decoded(Path) = DocumentsGiven(options[role]) /\ IsSequence(Decoded(Path))
    BY <2>2, <2>3, GivenFile DEF Path
  <2>5. CASE Mode(Decoded(Path), TRUE) = "legacy"
    <3>1. TakeLegacy(Decoded(Path)) /\ Len(Decoded(Path)) = 1
      BY <2>5 DEF Take, Mode
    <3> QED BY <2>4, <3>1, LegacyOutcome
  <2>6. CASE Mode(Decoded(Path), TRUE) # "legacy"
    <3>1. TakeResources(Decoded(Path))
      BY <1>2, <2>6 DEF Take
    <3> QED BY <2>4, <3>1, ResourcesOutcome
  <2> QED BY <2>5, <2>6
<1> QED BY <1>1, <1>2

-------------------------------------------------------------------------------
(***************************************************************************)
(* The steps of explain keep it.                                           *)
(***************************************************************************)
LEMMA SameInput ==
  ASSUME UNCHANGED <<tree, options, role, inputs>>
  PROVE  /\ Path' = Path /\ Lstat(Path)' = Lstat(Path)
         /\ Files' = Files /\ EachOf(Path)' = EachOf(Path)
         /\ Gathered(role, inputs)' <=> Gathered(role, inputs)
         /\ AllGiven(inputs)' <=> AllGiven(inputs)
<1>1. Path' = Path
  BY DEF Path
<1>2. \A path : /\ Lstat(path)' = Lstat(path)
                /\ FilesOf(path)' = FilesOf(path)
                /\ EachOf(path)' = EachOf(path)
                /\ DocumentsGiven(path)' = DocumentsGiven(path)
  BY SameFiles
<1>3. Lstat(Path)' = Lstat(Path) /\ EachOf(Path)' = EachOf(Path)
  BY <1>1, <1>2
<1>4. Files' = Files
  BY <1>1, <1>2 DEF Files
<1>5. \A q : DocumentsGiven(options[q])' = DocumentsGiven(options[q])
  BY <1>2
<1>6. Gathered(role, inputs)' <=> Gathered(role, inputs)
  BY <1>5 DEF Gathered
<1>7. AllGiven(inputs)' <=> AllGiven(inputs)
  BY <1>5 DEF AllGiven
<1> QED BY <1>1, <1>3, <1>4, <1>6, <1>7

LEMMA OutcomeTaken ==
  ASSUME Outcome, tree' = tree, \A r \in Roles : options[r] \in PathSet \cup {NoPath}
  PROVE  TakenInv'
<1>1. /\ options' = options /\ role' \in Roles /\ DOMAIN inputs' = Roles
      /\ \/ task' = "done" /\ explainExit' = ExitInvalidInput
         \/ /\ task' = "look" /\ explainExit' = NotExited
            /\ options[role'] # NoPath /\ Gathered(role', inputs')
            /\ documents' = <<>> /\ opened' = NoEntry
         \/ task' \in {"handed", "done"} /\ AllGiven(inputs')
  BY DEF Outcome
<1>2. \A path : DocumentsGiven(path)' = DocumentsGiven(path)
  BY SameFiles
<1>3. \A q : DocumentsGiven(options[q])' = DocumentsGiven(options[q])
  BY <1>1, <1>2
<1>4. CASE task' = "done" /\ explainExit' = ExitInvalidInput
  BY <1>4 DEF TakenInv, Answered, ExitInvalidInput, ExitSuccess, ExitIncompleteEvaluation,
     ExitInternalError
<1>5. CASE /\ task' = "look" /\ explainExit' = NotExited
           /\ options[role'] # NoPath /\ Gathered(role', inputs')
           /\ documents' = <<>> /\ opened' = NoEntry
  <2>1. options'[role'] \in PathSet
    BY <1>1, <1>5
  <2>2. Gathered(role, inputs)'
    BY <1>1, <1>3, <1>5 DEF Gathered
  <2>3. ~Answered'
    BY <1>5 DEF Answered, NotExited, ExitSuccess, ExitIncompleteEvaluation, ExitInternalError
  <2> QED BY <1>5, <2>1, <2>2, <2>3 DEF TakenInv
<1>6. CASE task' \in {"handed", "done"} /\ AllGiven(inputs')
  <2>1. AllGiven(inputs)'
    BY <1>1, <1>3, <1>6 DEF AllGiven
  <2> QED BY <1>6, <2>1 DEF TakenInv
<1> QED BY <1>1, <1>4, <1>5, <1>6

LEMMA LookAtTaken ==
  ASSUME TakenInv, LookAt, tree' = tree, explainExit = NotExited, role \in Roles,
         DOMAIN inputs = Roles, \A r \in Roles : options[r] \in PathSet \cup {NoPath}
  PROVE  TakenInv' /\ role' \in Roles /\ DOMAIN inputs' = Roles
<1>1. CASE Lstat(Path) = "missing"
  BY <1>1, ErrorOutcome, OutcomeTaken DEF LookAt, Outcome
<1>2. CASE Lstat(Path) # "missing"
  <2>1. /\ task = "look" /\ Path # Stdin
        /\ task' = IF Stat(Path) = "directory" THEN "list" ELSE "file"
        /\ UNCHANGED <<options, role, opened, documents, inputs, explainExit>>
    BY <1>2 DEF LookAt
  <2>2. /\ Path' = Path /\ Lstat(Path)' = Lstat(Path)
        /\ Gathered(role, inputs)' <=> Gathered(role, inputs)
    BY <2>1, SameInput
  <2>3. /\ options[role] \in PathSet /\ Gathered(role, inputs)
        /\ documents = <<>> /\ opened = NoEntry
    BY <2>1 DEF TakenInv
  <2>4. task' = "file" => Lstat(Path) # "directory"
    BY <2>1 DEF Stat
  <2>5. ~Answered'
    BY <2>1 DEF Answered, NotExited, ExitSuccess, ExitIncompleteEvaluation, ExitInternalError
  <2> QED BY <2>1, <2>2, <2>3, <2>4, <2>5 DEF TakenInv
<1> QED BY <1>1, <1>2

(* A step that goes on with the entries. *)
LEMMA EntriesTaken ==
  ASSUME UNCHANGED <<tree, options, role, inputs, explainExit>>, explainExit = NotExited,
         options[role] \in PathSet, Gathered(role, inputs), task' = "entries",
         Path # Stdin, Lstat(Path) = "directory", IsSequence(entries'), Ascending(entries'),
         \A k \in 1..Len(entries') :
           entries'[k] \in PathSet /\ entries'[k] \in Supported /\ Parent[entries'[k]] = Path,
         NEW m \in 0..Len(Files), NEW n \in 0..Len(Files),
         documents' = Joined(EachOf(Path), m),
         IF opened' = NoEntry THEN n = m ELSE n = m + 1 /\ opened' = Files[n],
         \A j \in 1..Len(Files) : j > n <=> \E k \in 1..Len(entries') : entries'[k] = Files[j]
  PROVE  TakenInv'
<1>1. /\ Path' = Path /\ Lstat(Path)' = Lstat(Path)
      /\ Files' = Files /\ EachOf(Path)' = EachOf(Path)
      /\ Gathered(role, inputs)' <=> Gathered(role, inputs)
  BY SameInput
<1>2. ReadSoFar(m, n)'
  BY <1>1 DEF ReadSoFar
<1>3. \E k, l \in 0..Len(Files') : ReadSoFar(k, l)'
  BY <1>1, <1>2
<1>4. DirectoryInv'
  BY <1>1, <1>3 DEF DirectoryInv, Ascending
<1>5. ~Answered'
  BY DEF Answered, NotExited, ExitSuccess, ExitIncompleteEvaluation, ExitInternalError
<1> QED BY <1>1, <1>4, <1>5 DEF TakenInv

LEMMA ListEntriesTaken ==
  ASSUME FilesInv, PlainText, TakenInv, ListEntries, tree' = tree, explainExit = NotExited,
         role \in Roles, DOMAIN inputs = Roles, {NoPath, NoEntry} \cap PathSet = {},
         \A r \in Roles : options[r] \in PathSet \cup {NoPath}
  PROVE  TakenInv' /\ role' \in Roles /\ DOMAIN inputs' = Roles
<1>1. CASE ~CanList(Path)
  BY <1>1, ErrorOutcome, OutcomeTaken DEF ListEntries, Outcome
<1>2. CASE CanList(Path)
  <2>1. /\ task = "list" /\ entries' = Sorted(Entries(Path) \cap Supported) /\ task' = "entries"
        /\ UNCHANGED <<options, role, opened, documents, inputs, explainExit>>
    BY <1>2 DEF ListEntries
  <2>2. /\ options[role] \in PathSet /\ Gathered(role, inputs) /\ Path # Stdin
        /\ documents = <<>> /\ opened = NoEntry
    BY <2>1 DEF TakenInv
  <2>3. Path \in PathSet /\ Path # NoPath /\ Lstat(Path) = "directory"
    BY <1>2, <2>2 DEF Path, CanList
  <2>4. /\ IsSequence(Files)
        /\ \A p : (\E j \in 1..Len(Files) : Files[j] = p) <=>
                    p \in PathSet /\ p \in Supported /\ Parent[p] = Path /\ Lstat(p) = "file"
        /\ IsSequence(EachOf(Path)) /\ Len(EachOf(Path)) = Len(Files)
        /\ \A j \in 1..Len(Files) : IsSequence(EachOf(Path)[j])
    <3> HIDE DEF Path
    <3> QED BY <2>2, <2>3, FilesFacts DEF Files
  <2>5. Lists(entries', Entries(Path) \cap Supported) /\ Ascending(entries')
    <3>1. Entries(Path) \cap Supported \subseteq PathSet
      BY DEF Entries
    <3> QED BY <2>1, <3>1, SortedFacts
  <2>6. \A p : (\E k \in 1..Len(entries') : entries'[k] = p) <=>
                 p \in PathSet /\ p \in Supported /\ Parent[p] = Path /\ Exists[p]
    BY <2>5 DEF Lists, Entries
  <2>7. IsSequence(entries')
    BY <2>5 DEF Lists
  <2>8. \A j \in 1..Len(Files) : \E k \in 1..Len(entries') : entries'[k] = Files[j]
    <3>1. \A p : Lstat(p) = "file" => Exists[p]
      BY DEF Lstat
    <3> QED BY <2>4, <2>6, <3>1
  <2>9. Len(Files) \in Nat
    BY <2>4, SequenceFacts
  <2>10. 0 \in 0..Len(Files) /\ \A j \in 1..Len(Files) : j > 0
    BY <2>9
  <2>11. documents' = Joined(EachOf(Path), 0)
    BY <2>1, <2>2 DEF Joined
  <2>12. \A j \in 1..Len(Files) : j > 0 <=> \E k \in 1..Len(entries') : entries'[k] = Files[j]
    BY <2>8, <2>10
  <2>13. \A k \in 1..Len(entries') :
           entries'[k] \in PathSet /\ entries'[k] \in Supported /\ Parent[entries'[k]] = Path
    BY <2>6
  <2>14. opened' = NoEntry
    BY <2>1, <2>2
  <2>15. TakenInv'
    BY <2>1, <2>2, <2>3, <2>5, <2>7, <2>10, <2>11, <2>12, <2>13, <2>14, EntriesTaken
  <2> QED BY <2>1, <2>15
<1> QED BY <1>1, <1>2

(* While the entries are read. *)
EntriesFound(m, n) ==
  /\ options[role] \in PathSet /\ Gathered(role, inputs)
  /\ Path \in PathSet /\ Path # NoPath /\ Path # Stdin /\ Lstat(Path) = "directory"
  /\ IsSequence(entries) /\ Ascending(entries)
  /\ \A k \in 1..Len(entries) :
       entries[k] \in PathSet /\ entries[k] \in Supported /\ Parent[entries[k]] = Path
  /\ m \in 0..Len(Files) /\ n \in 0..Len(Files) /\ ReadSoFar(m, n)
  /\ IsSequence(Files) /\ Len(Files) \in Nat /\ Ascending(Files)
  /\ \A p : (\E j \in 1..Len(Files) : Files[j] = p) <=>
              p \in PathSet /\ p \in Supported /\ Parent[p] = Path /\ Lstat(p) = "file"
  /\ IsSequence(EachOf(Path)) /\ Len(EachOf(Path)) = Len(Files)
  /\ \A j \in 1..Len(Files) :
       EachOf(Path)[j] = DocumentsOf(Files[j]) /\ IsSequence(EachOf(Path)[j])
  /\ DocumentsGiven(Path) = Joined(EachOf(Path), Len(Files))
  /\ \A j \in 1..Len(Files) : Files[j] \in PathSet

LEMMA EntriesAre ==
  ASSUME FilesInv, PlainText, TakenInv, task = "entries", {NoPath, NoEntry} \cap PathSet = {}
  PROVE  \E m, n : EntriesFound(m, n)
<1>1. DirectoryInv /\ options[role] \in PathSet /\ Gathered(role, inputs)
  BY DEF TakenInv
<1>2. Path \in PathSet /\ Path # NoPath /\ Path # Stdin /\ Lstat(Path) = "directory"
  BY <1>1 DEF DirectoryInv, Path
<1>3. /\ IsSequence(Files) /\ Ascending(Files)
      /\ \A p : (\E j \in 1..Len(Files) : Files[j] = p) <=>
                  p \in PathSet /\ p \in Supported /\ Parent[p] = Path /\ Lstat(p) = "file"
      /\ IsSequence(EachOf(Path)) /\ Len(EachOf(Path)) = Len(Files)
      /\ \A j \in 1..Len(Files) :
           EachOf(Path)[j] = DocumentsOf(Files[j]) /\ IsSequence(EachOf(Path)[j])
      /\ DocumentsGiven(Path) = Joined(EachOf(Path), Len(Files))
  <2> HIDE DEF Path
  <2> QED BY <1>2, FilesFacts DEF Files
<1>4. Len(Files) \in Nat
  BY <1>3, SequenceFacts
<1>5. \A j \in 1..Len(Files) : Files[j] \in PathSet
  BY <1>3
<1>6. PICK m, n \in 0..Len(Files) : ReadSoFar(m, n)
  BY <1>1 DEF DirectoryInv
<1>7. EntriesFound(m, n)
  BY <1>1, <1>2, <1>3, <1>4, <1>5, <1>6 DEF EntriesFound, DirectoryInv
<1> QED BY <1>7

LEMMA InspectEntryTaken ==
  ASSUME FilesInv, PlainText, TakenInv, InspectEntry, tree' = tree, explainExit = NotExited,
         role \in Roles, DOMAIN inputs = Roles, {NoPath, NoEntry} \cap PathSet = {},
         \A r \in Roles : options[r] \in PathSet \cup {NoPath}
  PROVE  TakenInv' /\ role' \in Roles /\ DOMAIN inputs' = Roles
<1>1. CASE Lstat(Head(entries)) = "missing"
  BY <1>1, ErrorOutcome, OutcomeTaken DEF InspectEntry, Outcome
<1>2. CASE Lstat(Head(entries)) # "missing"
  <2>1. /\ task = "entries" /\ opened = NoEntry /\ entries # <<>>
        /\ opened' = IF Lstat(Head(entries)) = "file" THEN Head(entries) ELSE NoEntry
        /\ entries' = Tail(entries)
        /\ UNCHANGED <<options, task, role, documents, inputs, explainExit>>
    BY <1>2 DEF InspectEntry
  <2>2. PICK m, n : EntriesFound(m, n)
    BY <2>1, EntriesAre
  <2> DEFINE e == entries[1]
  <2>3. /\ IsSequence(entries) /\ Len(entries) > 0 /\ Len(entries) \in Nat /\ Head(entries) = e
        /\ IsSequence(entries') /\ Len(entries') = Len(entries) - 1
        /\ \A k \in 1..Len(entries') : entries'[k] = entries[k + 1]
    BY <2>1, <2>2, TailFacts, SequenceFacts DEF EntriesFound
  <2>4. /\ m = n /\ n \in 0..Len(Files) /\ Len(Files) \in Nat
        /\ documents = Joined(EachOf(Path), n)
        /\ \A j \in 1..Len(Files) : j > n <=> \E k \in 1..Len(entries) : entries[k] = Files[j]
    BY <2>1, <2>2 DEF EntriesFound, ReadSoFar
  <2>5. \A k : k \in 1..Len(entries) <=> k = 1 \/ (k - 1 \in 1..Len(entries') /\ k \in Int)
    BY <2>3
  <2>6. \A k \in 1..Len(entries') :
          /\ k + 1 \in 1..Len(entries) /\ entries'[k] = entries[k + 1]
          /\ Position(e) < Position(entries'[k])
    <3>1. \A k \in 1..Len(entries') : k + 1 \in 1..Len(entries) /\ 1 < k + 1
      BY <2>3
    <3>2. 1 \in 1..Len(entries)
      BY <2>3
    <3> QED BY <2>2, <2>3, <3>1, <3>2 DEF EntriesFound, Ascending
  <2>7. Ascending(entries')
    <3>1. \A j, k \in 1..Len(entries') :
            j < k => j + 1 \in 1..Len(entries) /\ k + 1 \in 1..Len(entries) /\ j + 1 < k + 1
      BY <2>3
    <3> QED BY <2>2, <2>6, <3>1 DEF EntriesFound, Ascending
  <2>8. \A k \in 1..Len(entries') :
          entries'[k] \in PathSet /\ entries'[k] \in Supported /\ Parent[entries'[k]] = Path
    BY <2>2, <2>6 DEF EntriesFound
  <2>9. e \in PathSet /\ e \in Supported /\ Parent[e] = Path
    <3>1. 1 \in 1..Len(entries)
      BY <2>3
    <3> QED BY <2>2, <3>1 DEF EntriesFound
  <2>10. \A j \in 1..Len(Files) : /\ Files[j] \in PathSet /\ Lstat(Files[j]) = "file"
                                  /\ Position(Files[j]) \in Int
    <3>1. \A path \in PathSet : Position(path) \in Int
      BY PathFacts
    <3> QED BY <2>2, <3>1 DEF EntriesFound
  <2>11. \A i, j \in 1..Len(Files) : i < j => Position(Files[i]) < Position(Files[j])
    BY <2>2 DEF EntriesFound, Ascending
  <2>12. Position(e) \in Int
    BY <2>9, PathFacts
  <2> HIDE DEF e
  <2>13. \A j \in 1..Len(Files) :
           (\E k \in 1..Len(entries) : entries[k] = Files[j]) <=>
             e = Files[j] \/ \E k \in 1..Len(entries') : entries'[k] = Files[j]
    <3> SUFFICES ASSUME NEW j \in 1..Len(Files)
                 PROVE  (\E k \in 1..Len(entries) : entries[k] = Files[j]) <=>
                          e = Files[j] \/ \E k \in 1..Len(entries') : entries'[k] = Files[j]
      OBVIOUS
    <3>1. ASSUME NEW k \in 1..Len(entries), entries[k] = Files[j]
          PROVE  e = Files[j] \/ \E l \in 1..Len(entries') : entries'[l] = Files[j]
      <4>1. CASE k = 1
        BY <3>1, <4>1 DEF e
      <4>2. CASE k # 1
        <5>1. k - 1 \in 1..Len(entries') /\ (k - 1) + 1 = k
          BY <2>3, <4>2
        <5>2. entries'[k - 1] = Files[j]
          BY <2>6, <3>1, <5>1
        <5> QED BY <5>1, <5>2
      <4> QED BY <4>1, <4>2
    <3>2. e = Files[j] => \E k \in 1..Len(entries) : entries[k] = Files[j]
      <4>1. 1 \in 1..Len(entries)
        BY <2>3
      <4> QED BY <4>1 DEF e
    <3>3. ASSUME NEW l \in 1..Len(entries'), entries'[l] = Files[j]
          PROVE  \E k \in 1..Len(entries) : entries[k] = Files[j]
      BY <2>6, <3>3
    <3> QED BY <3>1, <3>2, <3>3
  <2>14. CASE Lstat(e) = "file"
    <3>1. PICK i \in 1..Len(Files) : Files[i] = e
      BY <2>2, <2>9, <2>14 DEF EntriesFound
    <3>2. i > n
      BY <2>4, <2>13, <3>1
    <3>3. i = n + 1
      <4> SUFFICES ASSUME i # n + 1 PROVE FALSE
        OBVIOUS
      <4>1. n + 1 \in 1..Len(Files) /\ n + 1 > n /\ n + 1 < i
        BY <2>4, <3>2
      <4>2. e = Files[n + 1] \/ \E k \in 1..Len(entries') : entries'[k] = Files[n + 1]
        BY <2>4, <2>13, <4>1
      <4>3. Position(Files[n + 1]) < Position(e)
        BY <2>11, <3>1, <4>1
      <4>4. CASE e = Files[n + 1]
        BY <2>12, <4>3, <4>4
      <4>5. CASE \E k \in 1..Len(entries') : entries'[k] = Files[n + 1]
        BY <2>6, <2>10, <2>12, <4>1, <4>3, <4>5
      <4> QED BY <4>2, <4>4, <4>5
    <3>4. ASSUME NEW j \in 1..Len(Files)
          PROVE  j > n + 1 <=> \E k \in 1..Len(entries') : entries'[k] = Files[j]
      <4>1. (\E k \in 1..Len(entries') : entries'[k] = Files[j]) => e # Files[j]
        BY <2>6, <2>12
      <4>2. e = Files[j] <=> j = n + 1
        <5>1. CASE j < i
          BY <2>10, <2>11, <3>1, <3>3, <5>1
        <5>2. CASE i < j
          BY <2>10, <2>11, <3>1, <3>3, <5>2
        <5> QED BY <2>4, <3>1, <3>3, <5>1, <5>2
      <4>3. j > n <=> j = n + 1 \/ j > n + 1
        BY <2>4
      <4>4. j > n + 1 => j # n + 1
        BY <2>4
      <4> QED BY <2>4, <2>13, <4>1, <4>2, <4>3, <4>4
    <3>5. opened' = Files[n + 1] /\ opened' # NoEntry
      BY <2>1, <2>3, <2>9, <2>14, <3>1, <3>3
    <3>6. n \in 0..Len(Files) /\ n + 1 \in 0..Len(Files) /\ documents' = Joined(EachOf(Path), n)
      BY <2>1, <2>4, <3>3
    <3>7. TakenInv'
      BY <2>1, <2>2, <2>3, <2>7, <2>8, <3>4, <3>5, <3>6, EntriesTaken DEF EntriesFound
    <3> QED BY <2>1, <3>7
  <2>15. CASE Lstat(e) # "file"
    <3>1. \A j \in 1..Len(Files) : e # Files[j]
      BY <2>10, <2>15
    <3>2. \A j \in 1..Len(Files) : j > n <=> \E k \in 1..Len(entries') : entries'[k] = Files[j]
      BY <2>4, <2>13, <3>1
    <3>3. opened' = NoEntry
      BY <2>1, <2>3, <2>15
    <3>4. n \in 0..Len(Files) /\ documents' = Joined(EachOf(Path), n)
      BY <2>1, <2>4
    <3>5. TakenInv'
      BY <2>1, <2>2, <2>3, <2>7, <2>8, <3>2, <3>3, <3>4, EntriesTaken DEF EntriesFound
    <3> QED BY <2>1, <3>5
  <2> QED BY <2>14, <2>15
<1> QED BY <1>1, <1>2

LEMMA ReadEntryTaken ==
  ASSUME FilesInv, PlainText, TakenInv, ReadEntry, tree' = tree, explainExit = NotExited,
         role \in Roles, DOMAIN inputs = Roles, {NoPath, NoEntry} \cap PathSet = {},
         \A r \in Roles : options[r] \in PathSet \cup {NoPath}
  PROVE  TakenInv' /\ role' \in Roles /\ DOMAIN inputs' = Roles
<1>1. CASE InputError
  BY <1>1, ErrorOutcome, OutcomeTaken DEF Outcome
<1>2. CASE ~InputError
  <2>1. /\ task = "entries" /\ opened # NoEntry /\ Mode(Decoded(opened), FALSE) # "error"
        /\ documents' = documents \o Decoded(opened) /\ opened' = NoEntry
        /\ UNCHANGED <<options, task, role, entries, inputs, explainExit>>
    BY <1>2 DEF ReadEntry
  <2>2. PICK m, n : EntriesFound(m, n)
    BY <2>1, EntriesAre
  <2>3. /\ m \in 0..Len(Files) /\ n \in 0..Len(Files) /\ n = m + 1 /\ opened = Files[n]
        /\ documents = Joined(EachOf(Path), m) /\ Len(Files) \in Nat
        /\ \A j \in 1..Len(Files) : j > n <=> \E k \in 1..Len(entries) : entries[k] = Files[j]
    BY <2>1, <2>2 DEF EntriesFound, ReadSoFar
  <2>4. n \in 1..Len(Files) /\ n - 1 = m
    BY <2>3
  <2>5. opened \in PathSet /\ EachOf(Path)[n] = DocumentsOf(opened)
    BY <2>2, <2>3, <2>4 DEF EntriesFound
  <2>6. Decoded(opened) = DocumentsOf(opened)
    <3>1. \A i \in DOMAIN Decoded(opened) : Decoded(opened)[i].document # NoDocument
      BY <2>1 DEF Mode, IsObject
    <3> QED BY <2>5, <3>1, PlainPath, PlainDecoded
  <2>7. Joined(EachOf(Path), n) = Joined(EachOf(Path), n - 1) \o EachOf(Path)[n]
    <3> DEFINE each == EachOf(Path)
    <3>1. IsSequence(each) /\ Len(each) = Len(Files) /\ \A j \in 1..Len(each) : IsSequence(each[j])
      BY <2>2 DEF EntriesFound
    <3> HIDE DEF each
    <3>2. Joined(each, n) = Joined(each, n - 1) \o each[n]
      BY <2>4, <3>1, JoinedFacts
    <3> QED BY <3>2 DEF each
  <2>8. documents' = Joined(EachOf(Path), n)
    BY <2>1, <2>3, <2>4, <2>5, <2>6, <2>7
  <2>9. entries' = entries /\ Ascending(entries) /\ Ascending(entries')
    <3>1. entries' = entries /\ Ascending(entries)
      BY <2>1, <2>2 DEF EntriesFound
    <3> QED BY <3>1
  <2>10. /\ UNCHANGED <<options, task, role, inputs, explainExit>>
         /\ task = "entries" /\ opened' = NoEntry
    BY <2>1
  <2>11. TakenInv'
    BY <2>2, <2>3, <2>8, <2>9, <2>10, EntriesTaken DEF EntriesFound
  <2> QED BY <2>1, <2>11
<1> QED BY <1>1, <1>2

LEMMA EndEntriesTaken ==
  ASSUME FilesInv, PlainText, TakenInv, EndEntries, tree' = tree, explainExit = NotExited,
         role \in Roles, DOMAIN inputs = Roles, {NoPath, NoEntry} \cap PathSet = {},
         \A r \in Roles : options[r] \in PathSet \cup {NoPath}
  PROVE  TakenInv' /\ role' \in Roles /\ DOMAIN inputs' = Roles
<1>1. task = "entries" /\ opened = NoEntry /\ entries = <<>>
  BY DEF EndEntries
<1>2. PICK m, n : EntriesFound(m, n)
  BY <1>1, EntriesAre
<1>3. /\ n \in 0..Len(Files) /\ n = m /\ documents = Joined(EachOf(Path), n) /\ Len(Files) \in Nat
      /\ \A j \in 1..Len(Files) : j > n <=> \E k \in 1..Len(entries) : entries[k] = Files[j]
  BY <1>1, <1>2 DEF EntriesFound, ReadSoFar
<1>4. n = Len(Files)
  <2>1. 1..Len(entries) = {}
    BY <1>1, EmptySequence
  <2>2. \A j \in 1..Len(Files) : ~(j > n)
    BY <1>3, <2>1
  <2>3. n # Len(Files) => n + 1 \in 1..Len(Files) /\ n + 1 > n
    BY <1>3
  <2> QED BY <2>2, <2>3
<1>5. documents = DocumentsGiven(options[role]) /\ Gathered(role, inputs)
  BY <1>2, <1>3, <1>4 DEF EntriesFound, Path
<1>6. InputError \/ TakeResources(documents)
  BY DEF EndEntries
<1>7. Outcome
  BY <1>5, <1>6, ErrorOutcome, ResourcesOutcome
<1> QED BY <1>7, OutcomeTaken DEF Outcome

LEMMA ReadTaken ==
  ASSUME FilesInv, PlainText, TakenInv, ReadStdin \/ ReadFile, tree' = tree,
         explainExit = NotExited,
         role \in Roles, DOMAIN inputs = Roles, {NoPath, NoEntry} \cap PathSet = {},
         \A r \in Roles : options[r] \in PathSet \cup {NoPath}
  PROVE  TakenInv' /\ role' \in Roles /\ DOMAIN inputs' = Roles
<1>1. /\ task \in {"look", "file"}
      /\ Path = Stdin \/ Lstat(Path) # "directory"
      /\ Take(Decoded(Path)) \/ InputError
  <2>1. CASE ReadStdin
    BY <2>1 DEF ReadStdin
  <2>2. CASE ReadFile
    BY <2>2 DEF ReadFile, TakenInv
  <2> QED BY <2>1, <2>2
<1>2. Path \in PathSet /\ Path # NoPath /\ Gathered(role, inputs)
  BY <1>1 DEF TakenInv, Path
<1>3. Outcome
  BY <1>1, <1>2, ErrorOutcome, TakeOutcome
<1> QED BY <1>3, OutcomeTaken DEF Outcome

LEMMA ExplainTaken ==
  ASSUME IInv, InputsInv, ExplainStep
  PROVE  InputsInv'
<1>1. ExplainNext /\ UNCHANGED <<tree, treeChanges>>
  BY DEF ExplainStep
<1>2. task \in {"look", "file", "list", "entries"}
  BY <1>1 DEF ExplainNext, ReadStdin, LookAt, ReadFile, ListEntries, InspectEntry, ReadEntry,
     EndEntries
<1>3. /\ explainExit = NotExited /\ FilesInv /\ {NoPath, NoEntry} \cap PathSet = {}
      /\ \A r \in Roles : options[r] \in PathSet \cup {NoPath}
  BY <1>2, InvocationsAssumption DEF IInv, CommandInv
<1>4. role \in Roles /\ DOMAIN inputs = Roles
  BY DEF InputsInv
<1>5. role' \in Roles /\ DOMAIN inputs' = Roles
  <2>1. \A decoded, r : Proceed(decoded, Given(r)) /\ r \subseteq Roles =>
                          role' \in Roles /\ DOMAIN inputs' = Roles
    <3> SUFFICES ASSUME NEW decoded, NEW r, Proceed(decoded, Given(r)), r \subseteq Roles
                 PROVE  role' \in Roles /\ DOMAIN inputs' = Roles
      OBVIOUS
    <3> DEFINE given == Given(r)
               next == CHOOSE q \in given : q = "webhookConfig" \/ "webhookConfig" \notin given
    <3>1. given \subseteq Roles
      BY DEF Given
    <3>2. given # {} => next \in given
      <4>1. given # {} => \E q \in given : q = "webhookConfig" \/ "webhookConfig" \notin given
        OBVIOUS
      <4> QED BY <4>1
    <3>3. given # {} => role' = next
      BY DEF Proceed
    <3>4. given = {} => role' = role
      BY DEF Proceed, InputError, ExitWith
    <3>5. DOMAIN inputs' = Roles
      BY <1>4 DEF Proceed, InputError, ExitWith
    <3> QED BY <1>4, <3>1, <3>2, <3>3, <3>4, <3>5
  <2>2. InputError => role' \in Roles /\ DOMAIN inputs' = Roles
    BY <1>4 DEF InputError, ExitWith
  <2>3. \A decoded : TakeResources(decoded) => role' \in Roles /\ DOMAIN inputs' = Roles
    <3>1. Given({}) = {} /\ {} \subseteq Roles
      BY DEF Given
    <3> QED BY <2>1, <2>2, <3>1, RoleFacts
        DEF TakeResources, TakePrimary, TakeConfigurations, TakeNamespace
  <2>4. \A decoded : TakeLegacy(decoded) => role' \in Roles /\ DOMAIN inputs' = Roles
    BY <1>4, <2>2 DEF TakeLegacy, EvaluateLegacy
  <2>5. \A decoded : Take(decoded) => role' \in Roles /\ DOMAIN inputs' = Roles
    BY <2>2, <2>3, <2>4 DEF Take
  <2> QED BY <1>1, <1>4, <2>2, <2>3, <2>5 DEF ExplainNext, ReadStdin, LookAt, ReadFile,
      ListEntries, InspectEntry, ReadEntry, EndEntries
<1>6. ASSUME Unchanged' PROVE TakenInv'
  <2>1. PlainText /\ TakenInv
    BY <1>1, <1>6, SameFiles DEF Unchanged, InputsInv
  <2> QED BY <1>1, <1>3, <1>4, <2>1, ReadTaken, LookAtTaken, ListEntriesTaken, InspectEntryTaken,
      ReadEntryTaken, EndEntriesTaken DEF ExplainNext
<1> QED BY <1>5, <1>6 DEF InputsInv

LEMMA OtherTaken ==
  ASSUME InputsInv, UNCHANGED <<tree, explainVars>>, treeChanges' = treeChanges
  PROVE  InputsInv'
<1>1. UNCHANGED <<tree, options, task, role, entries, opened, documents, inputs, explainExit>>
  BY DEF explainVars, reading
<1>2. Unchanged' <=> Unchanged
  BY SameFiles DEF Unchanged
<1>3. /\ Path' = Path /\ Lstat(Path)' = Lstat(Path)
      /\ Files' = Files /\ EachOf(Path)' = EachOf(Path)
      /\ Gathered(role, inputs)' <=> Gathered(role, inputs)
      /\ AllGiven(inputs)' <=> AllGiven(inputs)
  BY <1>1, SameInput
<1>4. \A m, n : ReadSoFar(m, n)' <=> ReadSoFar(m, n)
  BY <1>1, <1>3 DEF ReadSoFar
<1>5. DirectoryInv' <=> DirectoryInv
  BY <1>1, <1>3, <1>4 DEF DirectoryInv, Ascending
<1>6. Answered' <=> Answered
  BY <1>1 DEF Answered
<1>7. TakenInv' <=> TakenInv
  BY <1>1, <1>3, <1>5, <1>6 DEF TakenInv
<1> QED BY <1>1, <1>2, <1>7 DEF InputsInv

(* What the inputs hold so far is so in every state of every behaviour. *)
THEOREM InputsInvariant == Spec => [](IInv /\ InputsInv)
<1>1. Init => InputsInv
  <2> SUFFICES ASSUME Init PROVE InputsInv
    OBVIOUS
  <2>1. /\ invocation \in Invocations /\ options = invocation.options /\ task = FirstTask
        /\ role = "primary" /\ opened = NoEntry /\ documents = <<>>
        /\ inputs = [r \in Roles |-> <<>>] /\ explainExit = NotExited
    BY DEF Init, ExplainInit
  <2>2. task \in {"look", "idle"} /\ (task = "look" => invocation.command = "explain")
    BY <2>1 DEF FirstTask
  <2>3. ~Answered
    BY <2>1, <2>2 DEF Answered, NotExited, ExitSuccess, ExitIncompleteEvaluation,
       ExitInternalError
  <2>4. task = "look" => options[role] \in PathSet /\ Gathered(role, inputs)
    <3>1. task = "look" => options.primary \in PathSet
      BY <2>1, <2>2, InvocationsAssumption
    <3> QED BY <2>1, <3>1, RoleFacts DEF Gathered
  <2>5. TakenInv
    BY <2>1, <2>2, <2>3, <2>4 DEF TakenInv
  <2> QED BY <2>1, <2>5, RoleFacts DEF InputsInv
<1>2. IInv /\ InputsInv /\ [Next]_vars => InputsInv'
  <2> SUFFICES ASSUME IInv, InputsInv, [Next]_vars PROVE InputsInv'
    OBVIOUS
  <2>1. CASE TestStep
    BY <2>1, OtherTaken DEF TestStep
  <2>2. CASE ExplainStep
    BY <2>2, ExplainTaken
  <2>3. CASE ChangeTree
    <3>1. treeChanges' = treeChanges + 1 /\ treeChanges \in Nat /\ UNCHANGED explainVars
      BY <2>3, TreeAssumption DEF ChangeTree, TreeChanges, IInv, FilesInv
    <3>2. ~Unchanged'
      BY <3>1 DEF Unchanged
    <3> QED BY <3>1, <3>2 DEF InputsInv, explainVars, reading
  <2>4. CASE UNCHANGED vars
    BY <2>4, OtherTaken DEF vars
  <2> QED BY <2>1, <2>2, <2>3, <2>4 DEF Next
<1> QED BY <1>1, <1>2, CommandLineInvariant, PTL DEF Spec

(* What explain answers about, and what it hands over to resource mode, is *)
(* all that its options hold, as long as nobody changes the files.         *)
THEOREM NothingLeftOut == Spec => []NothingSkipped
<1>1. IInv /\ InputsInv => NothingSkipped
  BY DEF InputsInv, Unchanged, TakenInv, AllGiven, NothingSkipped
<1> QED BY <1>1, InputsInvariant, PTL

-------------------------------------------------------------------------------
(***************************************************************************)
(* test reports what it was given.  First the tree: what exists has only   *)
(* readable directories above it, and a path leads up from child to        *)
(* parent.                                                                 *)
(***************************************************************************)
Present(path, above) ==
  /\ tree[path].kind # "missing"
  /\ Searchable(Parent[path])
  /\ Parent[path] # Top => above[Parent[path]]

ExistsTo(f, n) == f = [path \in First(n) |-> Present(path, f)]

LEMMA ExistsStep ==
  ASSUME NEW n \in 1..Len(Paths), NEW f, ExistsTo(f, n - 1)
  PROVE  \E g : ExistsTo(g, n)
<1> DEFINE g == [path \in First(n) |-> IF path = Paths[n] THEN Present(path, f) ELSE f[path]]
<1>1. n \in Nat /\ n \in DOMAIN Paths /\ n - 1 \in 0..Len(Paths) /\ Len(Paths) \in Nat
  BY PathFacts, SequenceFacts
<1>2. Paths[n] \notin First(n - 1)
  <2> SUFFICES ASSUME NEW i \in 1..(n - 1), Paths[i] = Paths[n] PROVE FALSE
    BY DEF First
  <2>1. i \in DOMAIN Paths /\ i # n
    BY <1>1, PathFacts, SequenceFacts
  <2> QED BY <1>1, <2>1, TreeAssumption
<1>3. First(n) = First(n - 1) \cup {Paths[n]}
  <2>1. 1..n = 1..(n - 1) \cup {n}
    BY <1>1
  <2> HIDE DEF g
  <2> QED BY <2>1 DEF First
<1>4. \A path \in First(n) : Parent[path] = Top \/ Parent[path] \in First(n - 1)
  <2>1. ASSUME NEW path \in First(n - 1)
        PROVE  Parent[path] = Top \/ Parent[path] \in First(n - 1)
    BY <1>1, ParentFirst
  <2>2. Parent[Paths[n]] = Top \/ \E j \in 1..(n - 1) : Parent[Paths[n]] = Paths[j]
    BY <1>1, TreeAssumption
  <2>3. Parent[Paths[n]] = Top \/ Parent[Paths[n]] \in First(n - 1)
    BY <2>2 DEF First
  <2> QED BY <1>3, <2>1, <2>3
<1>5. \A path \in First(n - 1) : g[path] = f[path] /\ f[path] = Present(path, f)
  <2>1. \A path \in First(n - 1) : g[path] = f[path]
    BY <1>2, <1>3
  <2>2. \A path \in First(n - 1) : f[path] = Present(path, f)
    BY DEF ExistsTo
  <2> QED BY <2>1, <2>2
<1>6. g[Paths[n]] = Present(Paths[n], f)
  BY <1>3
<1>7. g = [path \in First(n) |-> g[path]]
  OBVIOUS
<1> HIDE DEF g
<1>8. \A path \in First(n) : Present(path, g) = Present(path, f)
  <2>1. \A path \in First(n) : Parent[path] # Top => g[Parent[path]] = f[Parent[path]]
    BY <1>4, <1>5
  <2> QED BY <2>1 DEF Present
<1>9. \A path \in First(n) : g[path] = Present(path, g)
  BY <1>3, <1>5, <1>6, <1>8
<1> QED BY <1>7, <1>9 DEF ExistsTo

LEMMA ExistsFacts == \A path \in PathSet : Exists[path] = Present(path, Exists)
<1> DEFINE T == {n \in 0..Len(Paths) : ~\E f : ExistsTo(f, n)}
<1>1. Len(Paths) \in Nat
  BY PathFacts
<1>2. T = {}
  <2> SUFFICES ASSUME T # {} PROVE FALSE
    OBVIOUS
  <2>1. T \subseteq Nat
    BY <1>1
  <2>2. PICK m \in T : \A n \in T : m <= n
    <3> HIDE DEF T
    <3> QED BY <2>1, NatMinimum
  <2>3. m \in 0..Len(Paths) /\ ~\E f : ExistsTo(f, m)
    OBVIOUS
  <2>4. m # 0
    <3> DEFINE f == [path \in {} |-> {}]
    <3>1. First(0) = {}
      BY DEF First
    <3>2. ExistsTo(f, 0)
      BY <3>1 DEF ExistsTo
    <3> QED BY <2>3, <3>2
  <2>5. m \in 1..Len(Paths) /\ m - 1 \in 0..Len(Paths) /\ ~(m <= m - 1)
    BY <1>1, <2>3, <2>4
  <2>6. \E f : ExistsTo(f, m - 1)
    BY <2>2, <2>5
  <2> QED BY <2>3, <2>5, <2>6, ExistsStep
<1>3. \E f : ExistsTo(f, Len(Paths))
  BY <1>1, <1>2
<1>4. First(Len(Paths)) = PathSet
  BY PathFacts, SequenceFacts DEF First, PathSet
<1> DEFINE there == CHOOSE f : ExistsTo(f, Len(Paths))
<1>5. ExistsTo(there, Len(Paths))
  BY <1>3
<1>6. Exists = there
  BY <1>4 DEF Exists, ExistsTo, Present
<1> HIDE DEF there
<1> QED BY <1>4, <1>5, <1>6 DEF ExistsTo

(* From a path up to the directories above it. *)
Upward(path) ==
  \A directory \in Above[path] :
    directory # Top =>
      /\ directory \in PathSet
      /\ \E child \in PathSet : Parent[child] = directory /\ Under(child, path)
      /\ Exists[path] => Exists[directory] /\ tree[directory].kind = "directory"
                            /\ tree[directory].readable

LEMMA UpwardFacts == \A path \in PathSet : Upward(path)
<1> DEFINE T == {i \in 1..Len(Paths) : ~Upward(Paths[i])}
<1> SUFFICES T = {}
  <2> SUFFICES ASSUME T = {}, NEW path \in PathSet PROVE Upward(path)
    OBVIOUS
  <2> QED BY PathFacts
<1> SUFFICES ASSUME T # {} PROVE FALSE
  OBVIOUS
<1>1. T \subseteq Nat
  BY PathFacts
<1>2. PICK m \in T : \A i \in T : m <= i
  <2> HIDE DEF T
  <2> QED BY <1>1, NatMinimum
<1>3. m \in 1..Len(Paths) /\ ~Upward(Paths[m]) /\ Len(Paths) \in Nat
  BY <1>2, PathFacts
<1> DEFINE path == Paths[m]
           up   == Parent[path]
<1>4. path \in PathSet /\ m \in DOMAIN Paths
  BY <1>3, PathFacts, SequenceFacts
<1>5. Above[path] = {up} \cup (IF up = Top THEN {} ELSE Above[up])
  BY <1>4, AboveFacts
<1>6. Exists[path] => Searchable(up) /\ (up # Top => Exists[up])
  <2>1. Exists[path] = Present(path, Exists)
    BY <1>4, ExistsFacts
  <2> QED BY <2>1 DEF Present
<1>7. ASSUME up # Top PROVE up \in PathSet /\ Upward(up)
  <2>1. PICK j \in 1..(m - 1) : up = Paths[j]
    BY <1>4, <1>7, TreeAssumption
  <2>2. j \in 1..Len(Paths) /\ ~(m <= j)
    BY <1>3
  <2>3. j \notin T
    BY <1>2, <2>2
  <2> QED BY <2>1, <2>2, <2>3, PathFacts
<1>8. ASSUME NEW directory \in Above[path], directory # Top
      PROVE  /\ directory \in PathSet
             /\ \E child \in PathSet : Parent[child] = directory /\ Under(child, path)
             /\ Exists[path] => Exists[directory] /\ tree[directory].kind = "directory"
                                   /\ tree[directory].readable
  <2> HIDE DEF T, path
  <2>1. CASE directory = up
    BY <1>4, <1>6, <1>7, <1>8, <2>1, UnderFacts DEF Searchable
  <2>2. CASE directory # up
    <3>1. up # Top /\ directory \in Above[up]
      BY <1>5, <2>2
    <3>2. /\ directory \in PathSet
          /\ \E child \in PathSet : Parent[child] = directory /\ Under(child, up)
          /\ Exists[up] => Exists[directory] /\ tree[directory].kind = "directory"
                              /\ tree[directory].readable
      BY <1>7, <1>8, <3>1 DEF Upward
    <3>3. \A child : Under(child, up) => Under(child, path)
      BY <1>5, <3>1 DEF Under
    <3> QED BY <1>6, <3>1, <3>2, <3>3
  <2> QED BY <2>1, <2>2
<1>9. Upward(path)
  <2> HIDE DEF path, T
  <2> QED BY <1>8 DEF Upward
<1> QED BY <1>3, <1>9

LEMMA StatFacts ==
  \A path : /\ Lstat(path) = "file" => Stat(path) = "file"
            /\ Lstat(path) = "directory" => Stat(path) = "directory"
            /\ Stat(path) = "directory" => Lstat(path) \in {"directory", "directory-link"}
            /\ Lstat(path) \in {"file", "directory", "directory-link"} =>
                 Exists[path] /\ tree[path].kind = Lstat(path)
BY DEF Stat, Lstat

LEMMA PathsFinite == IsFiniteSet(PathSet)
<1> DEFINE numbers == [path \in PathSet |-> Position(path)]
<1>1. IsFiniteSet(1..Len(Paths))
  BY PathFacts, FS_Interval
<1>2. numbers \in Injection(PathSet, 1..Len(Paths))
  <2>1. numbers \in [PathSet -> 1..Len(Paths)]
    BY PathFacts
  <2>2. \A p, q \in PathSet : numbers[p] = numbers[q] => p = q
    BY PathFacts
  <2> QED BY <2>1, <2>2 DEF Injection, IsInjective
<1> QED BY <1>1, <1>2, FS_Injection

(***************************************************************************)
(* The invariant of the discovery: a directory that is being walked may    *)
(* still come to all that is to be found below it, or has found it, and    *)
(* the arguments that are done with are settled.  When the discovery ends  *)
(* it is complete.                                                         *)
(***************************************************************************)
Wanted == Unlistable \cup Beneath

FoundFiles == {path \in DOMAIN discovered : discovered[path] = "file"}

Settled(argument) ==
  /\ Stat(argument) # "directory" => argument \in DOMAIN discovered
  /\ \A path \in Wanted : Under(argument, path) => path \in DOMAIN discovered
  /\ argument \in Fruitless => argument \in DOMAIN discovered

Ahead(path) ==
  \/ \E i \in 1..Len(walk.todo) : Under(walk.todo[i].path, path)
  \/ path \in DOMAIN discovered /\ (walk.found \/ walk.failed)

WalkInv ==
  /\ Stat(walk.root) = "directory"
  /\ \A i \in 1..Len(walk.todo) :
       /\ Lstat(walk.root) = "directory"
       /\ Visited(walk.todo[i]) /\ walk.todo[i].type = Lstat(walk.todo[i].path)
  /\ IF walk.begun THEN \A path \in Wanted : Under(walk.root, path) => Ahead(path)
     ELSE walk.todo = <<>> /\ ~walk.found /\ ~walk.failed
  /\ walk.found \/ walk.failed => \E path \in Wanted : Under(walk.root, path)

RecordInv ==
  /\ \A path \in DOMAIN discovered :
       path \in (IF discovered[path] = "file" THEN Selected ELSE InError)
  /\ counted = Cardinality(FoundFiles)

ArgumentsInv ==
  /\ Range(arguments) \subseteq Arguments
  /\ \A argument \in Arguments : argument \in Range(arguments) \/ Settled(argument)

Complete ==
  IF Cardinality(Selected) <= MaximumDocuments
  THEN /\ DOMAIN discovered = Selected \cup InError
       /\ \A path \in InError : discovered[path] = "error"
  ELSE \E argument \in Arguments : DOMAIN discovered = {argument} /\ discovered[argument] = "error"

WholeInv ==
  /\ phase = "inspect" => RecordInv /\ ArgumentsInv /\ (Walking => WalkInv)
  /\ phase \in {"test", "done"} => Complete

CoversInv == treeChanges = 0 => WholeInv

(* Nothing of what was given depends on more than the files. *)
LEMMA SameGiven ==
  ASSUME UNCHANGED <<tree, invocation>>
  PROVE  /\ \A path : /\ Lstat(path)' = Lstat(path) /\ Stat(path)' = Stat(path)
                      /\ CanList(path)' = CanList(path)
         /\ Arguments' = Arguments /\ Wanted' = Wanted /\ Fruitless' = Fruitless
         /\ Selected' = Selected /\ InError' = InError
<1>1. \A path : Lstat(path)' = Lstat(path)
  BY SameFiles
<1>2. \A path : Stat(path)' = Stat(path)
  BY <1>1 DEF Stat
<1>3. \A path : CanList(path)' = CanList(path)
  BY <1>1 DEF CanList
<1>4. Arguments' = Arguments
  BY DEF Arguments
<1>5. Roots' = Roots
  BY <1>1, <1>4 DEF Roots
<1>6. \A path : BelowRoots(path)' <=> BelowRoots(path)
  BY <1>5 DEF BelowRoots
<1>7. Beneath' = Beneath
  BY <1>1, <1>6 DEF Beneath
<1>8. Unlistable' = Unlistable
  BY <1>1, <1>3, <1>5, <1>6 DEF Unlistable
<1>9. Wanted' = Wanted
  BY <1>7, <1>8 DEF Wanted
<1>10. Fruitless' = Fruitless
  BY <1>2, <1>4, <1>7, <1>8 DEF Fruitless
<1>11. Selected' = Selected
  BY <1>2, <1>4, <1>7 DEF Selected
<1>12. InError' = InError
  BY <1>2, <1>4, <1>8, <1>10 DEF InError
<1> QED BY <1>1, <1>2, <1>3, <1>4, <1>9, <1>10, <1>11, <1>12

LEMMA GivenFacts ==
  /\ Arguments \subseteq PathSet => Selected \subseteq PathSet /\ InError \subseteq PathSet
  /\ Wanted \subseteq PathSet
  /\ Selected \cap InError = {}
  /\ \A path \in Wanted : Exists[path] /\ Lstat(path) \in {"file", "directory"}
  /\ Beneath \subseteq Selected /\ Unlistable \subseteq InError /\ Fruitless \subseteq InError
<1>1. \A path \in Beneath : path \in PathSet /\ Lstat(path) = "file" /\ Exists[path]
  BY TreeAssumption, StatFacts DEF Beneath
<1>2. \A path \in Unlistable : path \in PathSet /\ Lstat(path) = "directory" /\ Exists[path]
  BY StatFacts DEF Unlistable
<1>3. \A path \in Selected : Stat(path) = "file"
  BY <1>1, StatFacts DEF Selected
<1>4. \A path \in InError : Stat(path) # "file"
  BY <1>2, StatFacts DEF InError, Fruitless
<1> QED BY <1>1, <1>2, <1>3, <1>4 DEF Selected, InError, Wanted, Fruitless

(* What is wanted below a directory lies below readable directories only. *)
LEMMA WantedBelow ==
  ASSUME NEW path \in Wanted, NEW directory \in PathSet, Under(directory, path),
         directory # path
  PROVE  /\ Lstat(directory) = "directory" /\ CanList(directory)
         /\ \E child \in Entries(directory) :
              /\ Under(child, path) /\ child \in PathSet
              /\ Visited([path |-> child, type |-> Lstat(child)])
<1>1. path \in PathSet /\ Exists[path] /\ Lstat(path) \in {"file", "directory"}
  BY GivenFacts
<1>2. directory \in Above[path] /\ directory # Top
  BY TreeAssumption DEF Under
<1>3. /\ \E child \in PathSet : Parent[child] = directory /\ Under(child, path)
      /\ Exists[directory] /\ tree[directory].kind = "directory" /\ tree[directory].readable
  BY <1>1, <1>2, UpwardFacts DEF Upward
<1>4. Lstat(directory) = "directory" /\ CanList(directory)
  BY <1>3 DEF Lstat, CanList
<1>5. PICK child \in PathSet : Parent[child] = directory /\ Under(child, path)
  BY <1>3
<1>6. Exists[child] /\ (child # path => Lstat(child) = "directory")
  <2>1. CASE child = path
    BY <1>1, <2>1
  <2>2. CASE child # path
    <3>1. child \in Above[path] /\ child # Top
      BY <1>5, <2>2, TreeAssumption DEF Under
    <3>2. Exists[child] /\ tree[child].kind = "directory"
      BY <1>1, <3>1, UpwardFacts DEF Upward
    <3> QED BY <3>2 DEF Lstat
  <2> QED BY <2>1, <2>2
<1>7. Visited([path |-> child, type |-> Lstat(child)])
  <2>1. Lstat(path) = "file" => path \in Supported
    BY StatFacts DEF Wanted, Unlistable, Beneath
  <2> QED BY <1>1, <1>6, <2>1 DEF Visited
<1>8. child \in Entries(directory)
  BY <1>5, <1>6 DEF Entries
<1> QED BY <1>4, <1>5, <1>7, <1>8

-------------------------------------------------------------------------------
(***************************************************************************)
(* The steps of the discovery keep it.                                     *)
(***************************************************************************)
LEMMA ArgumentsArePaths == ASSUME IInv PROVE Arguments \subseteq PathSet
<1>1. invocation.arguments \in Seq(PathSet)
  BY InvocationsAssumption DEF IInv, CommandInv
<1> QED BY <1>1 DEF Arguments, Range

LEMMA FilesCounted ==
  ASSUME IInv, RecordInv
  PROVE  /\ IsFiniteSet(Selected) /\ IsFiniteSet(FoundFiles) /\ FoundFiles \subseteq Selected
         /\ \A path \in DOMAIN discovered : path \in Selected => path \in FoundFiles
         /\ \A path \in DOMAIN discovered : path \in InError => discovered[path] = "error"
<1>1. Selected \subseteq PathSet /\ Selected \cap InError = {}
  BY ArgumentsArePaths, GivenFacts
<1>2. IsFiniteSet(Selected)
  BY <1>1, PathsFinite, FS_Subset
<1>3. FoundFiles \subseteq Selected
  BY DEF RecordInv, FoundFiles
<1>4. IsFiniteSet(FoundFiles)
  BY <1>2, <1>3, FS_Subset
<1>5. \A path \in DOMAIN discovered : discovered[path] \in {"file", "error"}
  BY DEF IInv, DiscoveryInv
<1>6. \A path \in DOMAIN discovered : path \in Selected => path \in FoundFiles
  BY <1>1, <1>5 DEF RecordInv, FoundFiles
<1>7. \A path \in DOMAIN discovered : path \in InError => discovered[path] = "error"
  BY <1>1, <1>5 DEF RecordInv
<1> QED BY <1>2, <1>3, <1>4, <1>6, <1>7

LEMMA Noted ==
  ASSUME IInv, RecordInv, UNCHANGED <<tree, invocation>>, NEW path, NEW finding \in {"file", "error"},
         path \in (IF finding = "file" THEN Selected ELSE InError),
         discovered' = With(path, finding),
         counted' = IF finding = "file" THEN Count(path) ELSE counted
  PROVE  RecordInv' /\ DOMAIN discovered' = DOMAIN discovered \cup {path}
<1>1. /\ DOMAIN discovered' = DOMAIN discovered \cup {path}
      /\ \A p \in DOMAIN discovered' : discovered'[p] = IF p = path THEN finding ELSE discovered[p]
  BY DEF With
<1>2. Selected' = Selected /\ InError' = InError
  BY SameGiven
<1>3. \A p \in DOMAIN discovered' : p \in (IF discovered'[p] = "file" THEN Selected ELSE InError)
  BY <1>1 DEF RecordInv
<1>4. /\ IsFiniteSet(FoundFiles) /\ FoundFiles \subseteq Selected /\ Selected \cap InError = {}
      /\ path \in DOMAIN discovered /\ path \in Selected => path \in FoundFiles
  BY FilesCounted, GivenFacts
<1>5. CASE finding = "file"
  <2>1. FoundFiles' = FoundFiles \cup {path}
    BY <1>1, <1>5 DEF FoundFiles
  <2>2. path \in DOMAIN discovered <=> path \in FoundFiles
    BY <1>4, <1>5 DEF FoundFiles
  <2>3. Cardinality(FoundFiles') = IF path \in FoundFiles THEN counted ELSE counted + 1
    BY <1>4, <2>1, FS_AddElement DEF RecordInv
  <2>4. counted' = Cardinality(FoundFiles')
    BY <1>5, <2>2, <2>3 DEF Count
  <2> QED BY <1>1, <1>2, <1>3, <2>4 DEF RecordInv
<1>6. CASE finding = "error"
  <2>1. path \notin FoundFiles
    BY <1>4, <1>6
  <2>2. FoundFiles' = FoundFiles
    BY <1>1, <1>6, <2>1 DEF FoundFiles
  <2>3. counted' = Cardinality(FoundFiles')
    BY <1>6, <2>2 DEF RecordInv
  <2> QED BY <1>1, <1>2, <1>3, <2>3 DEF RecordInv
<1> QED BY <1>5, <1>6

LEMMA TooManyWhole ==
  ASSUME IInv, RecordInv, UNCHANGED <<tree, invocation>>, NEW path \in Selected,
         NEW argument \in Arguments, TooMany(path, argument)
  PROVE  WholeInv'
<1>1. /\ discovered' = [p \in {argument} |-> "error"] /\ phase' = "test"
      /\ Count(path) > MaximumDocuments
  BY DEF TooMany
<1>2. /\ IsFiniteSet(Selected) /\ IsFiniteSet(FoundFiles) /\ FoundFiles \subseteq Selected
  BY FilesCounted
<1>3. counted \in 0..MaximumDocuments /\ MaximumDocuments \in Nat
  BY LimitsAssumption DEF IInv, DiscoveryInv
<1>4. path \notin FoundFiles /\ Count(path) = counted + 1
  BY <1>1, <1>3 DEF Count, FoundFiles
<1>5. Cardinality(FoundFiles \cup {path}) = counted + 1
  BY <1>2, <1>4, FS_AddElement DEF RecordInv
<1>6. /\ Cardinality(FoundFiles \cup {path}) <= Cardinality(Selected)
      /\ Cardinality(Selected) \in Nat
  BY <1>2, FS_Subset, FS_CardinalityType
<1>7. ~(Cardinality(Selected') <= MaximumDocuments) /\ Arguments' = Arguments
  BY <1>1, <1>3, <1>4, <1>5, <1>6, SameGiven
<1>8. DOMAIN discovered' = {argument} /\ discovered'[argument] = "error"
  BY <1>1
<1>9. Complete'
  BY <1>7, <1>8 DEF Complete
<1> QED BY <1>1, <1>9 DEF WholeInv

LEMMA StillSettled ==
  ASSUME UNCHANGED <<tree, invocation>>, DOMAIN discovered \subseteq DOMAIN discovered'
  PROVE  \A argument : Settled(argument) => Settled(argument)'
<1>1. \A argument : Stat(argument)' = Stat(argument)
  BY SameGiven
<1>2. Wanted' = Wanted /\ Fruitless' = Fruitless
  BY SameGiven
<1> QED BY <1>1, <1>2 DEF Settled

LEMMA SameArguments ==
  ASSUME ArgumentsInv, UNCHANGED <<tree, invocation, arguments>>,
         DOMAIN discovered \subseteq DOMAIN discovered'
  PROVE  ArgumentsInv'
BY StillSettled, SameGiven DEF ArgumentsInv

LEMMA FirstArgument ==
  ASSUME IInv, arguments # <<>>
  PROVE  /\ Head(arguments) \in Range(arguments)
         /\ Range(Tail(arguments)) \subseteq Range(arguments)
         /\ \A argument \in Range(arguments) :
              argument = Head(arguments) \/ argument \in Range(Tail(arguments))
<1> DEFINE rest == Tail(arguments)
<1>1. IsSequence(arguments)
  BY SequenceOf DEF IInv, DiscoveryInv
<1>2. /\ Len(arguments) > 0 /\ Head(arguments) = arguments[1]
      /\ IsSequence(rest) /\ Len(rest) = Len(arguments) - 1
      /\ \A i \in 1..Len(rest) : rest[i] = arguments[i + 1]
  BY <1>1, TailFacts
<1>3. /\ DOMAIN arguments = 1..Len(arguments) /\ Len(arguments) \in Nat
      /\ DOMAIN rest = 1..Len(rest)
  BY <1>1, <1>2, SequenceFacts
<1> HIDE DEF rest
<1>4. Head(arguments) \in Range(arguments)
  <2>1. 1 \in DOMAIN arguments
    BY <1>2, <1>3
  <2> QED BY <1>2, <2>1 DEF Range
<1>5. Range(rest) \subseteq Range(arguments)
  <2>1. \A i \in 1..Len(rest) : i + 1 \in DOMAIN arguments
    BY <1>2, <1>3
  <2> QED BY <1>2, <1>3, <2>1 DEF Range
<1>6. ASSUME NEW argument \in Range(arguments)
      PROVE  argument = Head(arguments) \/ argument \in Range(rest)
  <2>1. PICK i \in 1..Len(arguments) : argument = arguments[i]
    BY <1>3 DEF Range
  <2>2. i # 1 => i - 1 \in DOMAIN rest /\ rest[i - 1] = arguments[i]
    BY <1>2, <1>3
  <2> QED BY <1>2, <2>1, <2>2 DEF Range
<1> QED BY <1>4, <1>5, <1>6 DEF rest

LEMMA NextSettled ==
  ASSUME IInv, ArgumentsInv, arguments # <<>>, NextArgument, UNCHANGED <<tree, invocation>>,
         DOMAIN discovered \subseteq DOMAIN discovered',
         NEW first, first = Head(arguments), Settled(first)'
  PROVE  ArgumentsInv' /\ ~Walking'
<1>1. arguments' = Tail(arguments) /\ walk' = NotWalking /\ Arguments' = Arguments
  BY SameGiven DEF NextArgument
<1>2. Range(arguments') \subseteq Arguments'
  BY <1>1, FirstArgument DEF ArgumentsInv
<1>3. \A argument \in Arguments' : argument \in Range(arguments') \/ Settled(argument)'
  BY <1>1, FirstArgument, StillSettled DEF ArgumentsInv
<1>4. ~Walking'
  BY <1>1, NotWalkingFacts DEF Walking
<1> QED BY <1>2, <1>3, <1>4 DEF ArgumentsInv

(* What is no directory is settled by its own entry. *)
LEMMA FileSettled ==
  ASSUME UNCHANGED <<tree, invocation>>, NEW first \in PathSet, Stat(first) # "directory",
         first \in DOMAIN discovered'
  PROVE  Settled(first)'
<1>1. Stat(first)' = Stat(first) /\ Wanted' = Wanted /\ Fruitless' = Fruitless
  BY SameGiven
<1>2. first \notin Fruitless
  BY DEF Fruitless
<1>3. \A path \in Wanted : Under(first, path) => path = first
  BY WantedBelow, StatFacts
<1> QED BY <1>1, <1>2, <1>3 DEF Settled

LEMMA InspectFileWhole ==
  ASSUME IInv, WholeInv, InspectFile, UNCHANGED <<tree, invocation>>
  PROVE  WholeInv'
<1>1. /\ phase = "inspect" /\ arguments # <<>> /\ Stat(Argument) = "file"
      /\ RecordInv /\ ArgumentsInv
  BY DEF InspectFile, Inspecting, WholeInv
<1>2. PICK first \in PathSet : first = Argument /\ first = Head(arguments)
  BY <1>1, InspectingFacts
<1>3. first \in Arguments /\ first \in Selected
  <2>1. first \in Arguments
    BY <1>1, <1>2, FirstArgument DEF ArgumentsInv
  <2> QED BY <1>1, <1>2, <2>1 DEF Selected
<1>4. CASE Keep(first) /\ NextArgument
  <2>1. discovered' = With(first, "file") /\ counted' = Count(first) /\ phase' = phase
    BY <1>4 DEF Keep
  <2>2. RecordInv' /\ DOMAIN discovered' = DOMAIN discovered \cup {first}
    BY <1>1, <1>3, <2>1, Noted
  <2>3. Settled(first)'
    BY <1>1, <1>2, <2>2, FileSettled
  <2>4. ArgumentsInv' /\ ~Walking'
    BY <1>1, <1>2, <1>4, <2>2, <2>3, NextSettled
  <2> QED BY <1>1, <2>1, <2>2, <2>4 DEF WholeInv
<1>5. CASE TooMany(first, first)
  BY <1>1, <1>3, <1>5, TooManyWhole
<1> QED BY <1>2, <1>4, <1>5 DEF InspectFile

LEMMA InspectOtherWhole ==
  ASSUME IInv, WholeInv, InspectOther, UNCHANGED <<tree, invocation>>
  PROVE  WholeInv'
<1>1. /\ phase = "inspect" /\ arguments # <<>> /\ Stat(Argument) \notin {"file", "directory"}
      /\ RecordInv /\ ArgumentsInv /\ Refuse(Argument) /\ NextArgument
  BY DEF InspectOther, Inspecting, WholeInv
<1>2. PICK first \in PathSet : first = Argument /\ first = Head(arguments)
  BY <1>1, InspectingFacts
<1>3. first \in InError
  <2>1. first \in Arguments
    BY <1>1, <1>2, FirstArgument DEF ArgumentsInv
  <2> QED BY <1>1, <1>2, <2>1 DEF InError
<1>4. discovered' = With(first, "error") /\ counted' = counted /\ phase' = phase
  BY <1>1, <1>2 DEF Refuse
<1>5. RecordInv' /\ DOMAIN discovered' = DOMAIN discovered \cup {first}
  BY <1>1, <1>3, <1>4, Noted
<1>6. Settled(first)'
  BY <1>1, <1>2, <1>5, FileSettled
<1>7. ArgumentsInv' /\ ~Walking'
  BY <1>1, <1>2, <1>5, <1>6, NextSettled
<1> QED BY <1>1, <1>4, <1>5, <1>7 DEF WholeInv

(* The walk of an argument goes on. *)
LEMMA WalkWhole ==
  ASSUME WholeInv, phase = "inspect", UNCHANGED <<tree, invocation, phase, arguments>>,
         DOMAIN discovered \subseteq DOMAIN discovered', RecordInv', WalkInv'
  PROVE  WholeInv'
BY SameArguments DEF WholeInv

LEMMA SameRecord ==
  ASSUME RecordInv, UNCHANGED <<tree, invocation, discovered, counted>>
  PROVE  RecordInv' /\ DOMAIN discovered \subseteq DOMAIN discovered'
<1>1. Selected' = Selected /\ InError' = InError
  BY SameGiven
<1>2. FoundFiles' = FoundFiles
  BY DEF FoundFiles
<1> QED BY <1>1, <1>2 DEF RecordInv

(* The invariant of the walk after a step, over the files as they are. *)
LEMMA WalkInvNext ==
  ASSUME UNCHANGED <<tree, invocation>>, NEW root, walk'.root = root, walk'.begun,
         Stat(root) = "directory",
         \A i \in 1..Len(walk'.todo) :
           /\ Lstat(root) = "directory"
           /\ Visited(walk'.todo[i]) /\ walk'.todo[i].type = Lstat(walk'.todo[i].path),
         \A path \in Wanted : Under(root, path) =>
           \/ \E i \in 1..Len(walk'.todo) : Under(walk'.todo[i].path, path)
           \/ path \in DOMAIN discovered' /\ (walk'.found \/ walk'.failed),
         walk'.found \/ walk'.failed => \E path \in Wanted : Under(root, path)
  PROVE  WalkInv'
<1>1. /\ \A path : Lstat(path)' = Lstat(path) /\ Stat(path)' = Stat(path)
      /\ Wanted' = Wanted
  BY SameGiven
<1>2. Stat(walk.root)' = "directory"
  BY <1>1
<1>3. \A i \in 1..Len(walk'.todo) :
        /\ Lstat(walk.root)' = "directory"
        /\ Visited(walk.todo[i])' /\ walk'.todo[i].type = Lstat(walk.todo[i].path)'
  BY <1>1 DEF Visited
<1>4. \A path \in Wanted' : Under(walk'.root, path) => Ahead(path)'
  BY <1>1 DEF Ahead
<1>5. walk'.found \/ walk'.failed => \E path \in Wanted' : Under(walk'.root, path)
  BY <1>1
<1> QED BY <1>2, <1>3, <1>4, <1>5 DEF WalkInv

LEMMA EntriesHold ==
  ASSUME NEW paths, paths \subseteq PathSet
  PROVE  /\ \A i \in 1..Len(EntriesOf(paths)) :
              LET entry == EntriesOf(paths)[i]
              IN Visited(entry) /\ entry.type = Lstat(entry.path) /\ entry.path \in paths
         /\ \A path \in paths :
              Visited([path |-> path, type |-> Lstat(path)]) =>
                \E i \in 1..Len(EntriesOf(paths)) : EntriesOf(paths)[i].path = path
<1> DEFINE entry(path) == [path |-> path, type |-> Lstat(path)]
           seen == {path \in paths : Visited(entry(path))}
           s == Sorted(seen)
<1>1. Lists(s, seen)
  BY SortedFacts
<1>2. EntriesOf(paths) = [i \in DOMAIN s |-> entry(s[i])]
  BY DEF EntriesOf
<1>3. \A path \in seen : /\ Visited(entry(path)) /\ path \in paths
                         /\ entry(path).path = path /\ entry(path).type = Lstat(path)
  OBVIOUS
<1>4. \A path \in paths : Visited(entry(path)) => path \in seen
  OBVIOUS
<1> HIDE DEF s, seen
<1>5. DOMAIN s = 1..Len(s) /\ Len(s) \in Nat
  BY <1>1, SequenceFacts DEF Lists
<1>6. Len(EntriesOf(paths)) = Len(s) /\ \A i \in 1..Len(s) : EntriesOf(paths)[i] = entry(s[i])
  <2> HIDE DEF entry
  <2>1. EntriesOf(paths) = [i \in 1..Len(s) |-> EntriesOf(paths)[i]]
    BY <1>2, <1>5
  <2> QED BY <1>2, <1>5, <2>1, TableIsSequence
<1>7. \A i \in 1..Len(s) : s[i] \in seen
  BY <1>1 DEF Lists
<1>8. \A path \in seen : \E i \in 1..Len(s) : s[i] = path
  BY <1>1 DEF Lists
<1> HIDE DEF entry
<1>9. ASSUME NEW i \in 1..Len(EntriesOf(paths))
      PROVE  /\ Visited(EntriesOf(paths)[i]) /\ EntriesOf(paths)[i].path \in paths
             /\ EntriesOf(paths)[i].type = Lstat(EntriesOf(paths)[i].path)
  BY <1>3, <1>6, <1>7
<1>10. ASSUME NEW path \in paths, Visited(entry(path))
       PROVE  \E i \in 1..Len(EntriesOf(paths)) : EntriesOf(paths)[i].path = path
  BY <1>3, <1>4, <1>6, <1>8, <1>10
<1> QED BY <1>9, <1>10 DEF entry

LEMMA InspectDirectoryWhole ==
  ASSUME IInv, WholeInv, InspectDirectory, UNCHANGED <<tree, invocation>>
  PROVE  WholeInv'
<1>1. /\ phase = "inspect" /\ RecordInv /\ ArgumentsInv
      /\ Stat(Argument) = "directory" /\ walk' = [NotWalking EXCEPT !.root = Argument]
      /\ UNCHANGED <<phase, arguments, discovered, counted>>
  BY DEF InspectDirectory, Inspecting, WholeInv
<1>2. /\ walk'.root = Argument /\ walk'.todo = <<>> /\ 1..Len(walk'.todo) = {}
      /\ ~walk'.begun /\ ~walk'.found /\ ~walk'.failed
  BY <1>1, EmptySequence DEF NotWalking
<1>3. WalkInv'
  <2> DEFINE first == Argument
  <2>1. \A path : Stat(path)' = Stat(path)
    BY SameGiven
  <2>2. Stat(walk.root)' = "directory"
    BY <1>1, <1>2, <2>1
  <2> QED BY <1>2, <2>2 DEF WalkInv
<1>4. RecordInv' /\ DOMAIN discovered \subseteq DOMAIN discovered'
  BY <1>1, SameRecord
<1> QED BY <1>1, <1>3, <1>4, WalkWhole

LEMMA WalkRootWhole ==
  ASSUME IInv, WholeInv, WalkRoot, UNCHANGED <<tree, invocation>>
  PROVE  WholeInv'
<1>1. Walking /\ ~walk.begun /\ UNCHANGED arguments
  BY DEF WalkRoot
<1>2. phase = "inspect" /\ RecordInv /\ WalkInv
  BY <1>1, WalkingFacts DEF WholeInv
<1>3. PICK root \in PathSet : root = walk.root
  BY <1>1, WalkingFacts
<1>4. Stat(root) = "directory" /\ ~walk.found /\ ~walk.failed
  BY <1>1, <1>2, <1>3 DEF WalkInv
<1>5. Lstat(root) \in {"directory", "directory-link"} /\ Exists[root]
  BY <1>4, StatFacts
<1>6. /\ walk' = [walk EXCEPT !.begun = TRUE, !.todo = EntriesOf({root})]
      /\ UNCHANGED <<phase, discovered, counted>>
  BY <1>3, <1>5 DEF WalkRoot
<1>7. walk \in [root : PathSet \cup {Top}, begun : BOOLEAN, todo : Seq(Entry),
                found : BOOLEAN, failed : BOOLEAN]
  BY DEF IInv, DiscoveryInv
<1>8. /\ walk'.root = root /\ walk'.begun /\ walk'.todo = EntriesOf({root})
      /\ ~walk'.found /\ ~walk'.failed
  BY <1>3, <1>4, <1>6, <1>7
<1>9. /\ \A i \in 1..Len(walk'.todo) :
           /\ Visited(walk'.todo[i]) /\ walk'.todo[i].type = Lstat(walk'.todo[i].path)
           /\ walk'.todo[i].path = root
      /\ Visited([path |-> root, type |-> Lstat(root)]) =>
           \E i \in 1..Len(walk'.todo) : walk'.todo[i].path = root
  BY <1>8, EntriesHold
<1>10. \A i \in 1..Len(walk'.todo) : Lstat(root) = "directory"
  BY <1>5, <1>9 DEF Visited
<1>11. ASSUME NEW path \in Wanted, Under(root, path)
       PROVE  \E i \in 1..Len(walk'.todo) : Under(walk'.todo[i].path, path)
  <2>1. Lstat(root) = "directory"
    <3>1. Lstat(path) \in {"file", "directory"}
      BY GivenFacts
    <3> QED BY <1>5, <1>11, <3>1, WantedBelow
  <2>2. Visited([path |-> root, type |-> Lstat(root)])
    BY <2>1 DEF Visited
  <2> QED BY <1>9, <1>11, <2>2
<1>12. WalkInv'
  BY <1>4, <1>8, <1>9, <1>10, <1>11, WalkInvNext
<1>13. RecordInv' /\ DOMAIN discovered \subseteq DOMAIN discovered'
  BY <1>2, <1>6, SameRecord
<1> QED BY <1>1, <1>2, <1>6, <1>12, <1>13, WalkWhole

(* The first entry of what is left to visit, and the others. *)
LEMMA TodoFacts ==
  ASSUME IInv, WholeInv, Walking, walk.todo # <<>>
  PROVE  /\ walk.begun /\ RecordInv /\ phase = "inspect"
         /\ walk.root \in Roots /\ walk.root \in Arguments /\ walk.root \in PathSet
         /\ Stat(walk.root) = "directory" /\ Lstat(walk.root) = "directory"
         /\ Head(walk.todo).path \in PathSet /\ Under(walk.root, Head(walk.todo).path)
         /\ Visited(Head(walk.todo)) /\ Head(walk.todo).type = Lstat(Head(walk.todo).path)
         /\ IsSequence(Tail(walk.todo))
         /\ \A i \in 1..Len(Tail(walk.todo)) :
              Visited(Tail(walk.todo)[i]) /\ Tail(walk.todo)[i].type = Lstat(Tail(walk.todo)[i].path)
         /\ \A path \in Wanted : Under(walk.root, path) =>
              \/ Under(Head(walk.todo).path, path)
              \/ \E i \in 1..Len(Tail(walk.todo)) : Under(Tail(walk.todo)[i].path, path)
              \/ path \in DOMAIN discovered /\ (walk.found \/ walk.failed)
         /\ walk.found \/ walk.failed => \E path \in Wanted : Under(walk.root, path)
<1> DEFINE todo == walk.todo
           rest == Tail(todo)
<1>1. /\ phase = "inspect" /\ arguments # <<>> /\ walk.root = Head(arguments)
      /\ walk.root \in PathSet /\ IsSequence(todo)
      /\ RecordInv /\ ArgumentsInv /\ WalkInv
  BY WalkingFacts DEF WholeInv
<1>2. /\ Len(todo) > 0 /\ Len(todo) \in Nat /\ Head(todo) = todo[1] /\ IsSequence(rest)
      /\ Len(rest) = Len(todo) - 1 /\ \A i \in 1..Len(rest) : rest[i] = todo[i + 1]
  BY <1>1, TailFacts, SequenceFacts
<1>3. /\ walk.begun /\ Stat(walk.root) = "directory"
      /\ \A i \in 1..Len(todo) :
           Lstat(walk.root) = "directory" /\ Visited(todo[i]) /\ todo[i].type = Lstat(todo[i].path)
      /\ \A path \in Wanted : Under(walk.root, path) =>
           \/ \E i \in 1..Len(todo) : Under(todo[i].path, path)
           \/ path \in DOMAIN discovered /\ (walk.found \/ walk.failed)
      /\ walk.found \/ walk.failed => \E path \in Wanted : Under(walk.root, path)
  BY <1>1 DEF WalkInv, Ahead
<1> HIDE DEF rest, todo
<1>4. 1 \in 1..Len(todo) /\ \A i \in 1..Len(rest) : i + 1 \in 1..Len(todo)
  BY <1>2
<1>5. \A path : (\E i \in 1..Len(todo) : Under(todo[i].path, path)) =>
                  \/ Under(Head(todo).path, path)
                  \/ \E i \in 1..Len(rest) : Under(rest[i].path, path)
  <2> SUFFICES ASSUME NEW path, NEW i \in 1..Len(todo), Under(todo[i].path, path), i # 1
               PROVE  \E k \in 1..Len(rest) : Under(rest[k].path, path)
    BY <1>2
  <2>1. i - 1 \in 1..Len(rest) /\ (i - 1) + 1 = i
    BY <1>2
  <2>2. rest[i - 1] = todo[i]
    BY <1>2, <2>1
  <2> QED BY <2>1, <2>2
<1>6. walk.root \in Arguments
  BY <1>1, FirstArgument DEF ArgumentsInv
<1>7. Lstat(walk.root) = "directory" /\ walk.root \in Roots
  BY <1>3, <1>4, <1>6 DEF Roots
<1>8. /\ Visited(Head(todo)) /\ Head(todo).type = Lstat(Head(todo).path)
      /\ \A i \in 1..Len(rest) : Visited(rest[i]) /\ rest[i].type = Lstat(rest[i].path)
  BY <1>2, <1>3, <1>4
<1>9. Head(todo).path \in PathSet /\ Under(walk.root, Head(todo).path)
  BY RestFacts DEF todo
<1> QED BY <1>1, <1>2, <1>3, <1>5, <1>6, <1>7, <1>8, <1>9 DEF rest, todo

LEMMA ListDirectoryWhole ==
  ASSUME IInv, WholeInv, ListDirectory, UNCHANGED <<tree, invocation>>
  PROVE  WholeInv'
<1>1. /\ Walking /\ walk.todo # <<>> /\ Head(walk.todo).type = "directory"
      /\ UNCHANGED arguments
  BY DEF ListDirectory, Visiting
<1>2. PICK root : root = walk.root
  OBVIOUS
<1>3. PICK directory : directory = Head(walk.todo).path
  OBVIOUS
<1> DEFINE rest == Tail(walk.todo)
<1>4. /\ walk.begun /\ RecordInv /\ phase = "inspect"
      /\ root \in Roots /\ Stat(root) = "directory" /\ Lstat(root) = "directory"
      /\ directory \in PathSet /\ Under(root, directory) /\ Lstat(directory) = "directory"
      /\ IsSequence(rest)
      /\ \A i \in 1..Len(rest) : Visited(rest[i]) /\ rest[i].type = Lstat(rest[i].path)
      /\ \A path \in Wanted : Under(root, path) =>
           \/ Under(directory, path)
           \/ \E i \in 1..Len(rest) : Under(rest[i].path, path)
           \/ path \in DOMAIN discovered /\ (walk.found \/ walk.failed)
      /\ walk.found \/ walk.failed => \E path \in Wanted : Under(root, path)
  BY <1>1, <1>2, <1>3, TodoFacts
<1>5. walk \in [root : PathSet \cup {Top}, begun : BOOLEAN, todo : Seq(Entry),
                found : BOOLEAN, failed : BOOLEAN]
  BY DEF IInv, DiscoveryInv
<1>6. CASE CanList(directory)
  <2> DEFINE below == EntriesOf(Entries(directory))
             todo  == below \o rest
  <2>1. walk' = [walk EXCEPT !.todo = todo] /\ UNCHANGED <<phase, discovered, counted>>
    BY <1>3, <1>6 DEF ListDirectory
  <2>2. /\ walk'.root = root /\ walk'.begun /\ walk'.todo = todo
        /\ walk'.found = walk.found /\ walk'.failed = walk.failed
    BY <1>2, <1>4, <1>5, <2>1
  <2>3. Entries(directory) \subseteq PathSet
    BY DEF Entries
  <2>4. /\ \A i \in 1..Len(below) : Visited(below[i]) /\ below[i].type = Lstat(below[i].path)
        /\ \A path \in Entries(directory) :
             Visited([path |-> path, type |-> Lstat(path)]) =>
               \E i \in 1..Len(below) : below[i].path = path
    BY <2>3, EntriesHold
  <2>5. IsSequence(below)
    BY <2>3, EntriesFacts, SequenceOf
  <2> HIDE DEF below, rest
  <2>6. /\ Len(todo) = Len(below) + Len(rest) /\ Len(below) \in Nat /\ Len(rest) \in Nat
        /\ \A i \in 1..Len(below) : todo[i] = below[i]
        /\ \A i \in 1..Len(rest) : todo[Len(below) + i] = rest[i]
    <3>1. IsSequence(rest)
      BY <1>4
    <3>2. Len(below) \in Nat /\ Len(rest) \in Nat
      BY <2>5, <3>1, SequenceFacts
    <3> HIDE DEF todo
    <3>3. todo = below \o rest
      BY DEF todo
    <3>4. /\ Len(below \o rest) = Len(below) + Len(rest)
          /\ \A i \in 1..Len(below) : (below \o rest)[i] = below[i]
          /\ \A i \in 1..Len(rest) : (below \o rest)[Len(below) + i] = rest[i]
      BY <2>5, <3>1, ConcatFacts
    <3> QED BY <3>2, <3>3, <3>4
  <2> HIDE DEF todo
  <2>7. /\ \A i \in 1..Len(below) : i \in 1..Len(todo)
        /\ \A i \in 1..Len(rest) : Len(below) + i \in 1..Len(todo)
        /\ \A i \in 1..Len(todo) :
             i \in 1..Len(below) \/ \E k \in 1..Len(rest) : i = Len(below) + k
    <3>1. PICK m \in Nat, n \in Nat : m = Len(below) /\ n = Len(rest)
      BY <2>6
    <3>2. Len(todo) = m + n
      BY <2>6, <3>1
    <3>3. \A i \in 1..m : i \in 1..(m + n)
      OBVIOUS
    <3>4. \A i \in 1..n : m + i \in 1..(m + n)
      OBVIOUS
    <3>5. ASSUME NEW i \in 1..(m + n), i \notin 1..m
          PROVE  \E k \in 1..n : i = m + k
      <4>1. i - m \in 1..n /\ i = m + (i - m)
        BY <3>5
      <4> QED BY <4>1
    <3> QED BY <3>1, <3>2, <3>3, <3>4, <3>5
  <2>8. ASSUME NEW i \in 1..Len(todo)
        PROVE  Visited(todo[i]) /\ todo[i].type = Lstat(todo[i].path)
    <3>1. CASE i \in 1..Len(below)
      <4>1. todo[i] = below[i]
        BY <2>6, <3>1
      <4> QED BY <2>4, <3>1, <4>1
    <3>2. ASSUME NEW k \in 1..Len(rest), i = Len(below) + k
          PROVE  Visited(todo[i]) /\ todo[i].type = Lstat(todo[i].path)
      <4>1. todo[i] = rest[k]
        BY <2>6, <3>2
      <4> QED BY <1>4, <4>1
    <3> QED BY <2>7, <3>1, <3>2
  <2>9. ASSUME NEW path \in Wanted, Under(directory, path)
        PROVE  \E i \in 1..Len(todo) : Under(todo[i].path, path)
    <3>1. directory # path
      BY <1>4, <1>6 DEF Wanted, Unlistable, Beneath
    <3>2. PICK child \in Entries(directory) :
            Under(child, path) /\ Visited([path |-> child, type |-> Lstat(child)])
      BY <1>4, <2>9, <3>1, WantedBelow
    <3>3. PICK i \in 1..Len(below) : below[i].path = child
      BY <2>4, <3>2
    <3> QED BY <2>6, <2>7, <3>2, <3>3
  <2>10. ASSUME NEW path \in Wanted, Under(root, path)
         PROVE  \/ \E i \in 1..Len(todo) : Under(todo[i].path, path)
                \/ path \in DOMAIN discovered /\ (walk.found \/ walk.failed)
    <3>1. ASSUME NEW k \in 1..Len(rest), Under(rest[k].path, path)
          PROVE  \E i \in 1..Len(todo) : Under(todo[i].path, path)
      BY <2>6, <2>7, <3>1
    <3> QED BY <1>4, <2>9, <2>10, <3>1
  <2>11. WalkInv'
    BY <1>4, <2>1, <2>2, <2>8, <2>10, WalkInvNext
  <2>12. RecordInv' /\ DOMAIN discovered \subseteq DOMAIN discovered'
    BY <1>4, <2>1, SameRecord
  <2> QED BY <1>1, <1>4, <2>1, <2>11, <2>12, WalkWhole
<1>7. CASE ~CanList(directory)
  <2>1. /\ walk' = [walk EXCEPT !.todo = rest, !.failed = TRUE]
        /\ discovered' = With(directory, "error") /\ UNCHANGED <<phase, counted>>
    BY <1>3, <1>7 DEF ListDirectory, Refuse
  <2>2. /\ walk'.root = root /\ walk'.begun /\ walk'.todo = rest
        /\ walk'.found = walk.found /\ walk'.failed
    BY <1>2, <1>4, <1>5, <2>1
  <2>3. directory \in Unlistable
    BY <1>4, <1>7 DEF Unlistable, BelowRoots, Under
  <2>4. directory \in Wanted /\ directory \in InError
    BY <2>3 DEF Wanted, InError
  <2>5. RecordInv' /\ DOMAIN discovered' = DOMAIN discovered \cup {directory}
    BY <1>4, <2>1, <2>4, Noted
  <2>6. ASSUME NEW path \in Wanted, Under(root, path)
        PROVE  \/ \E i \in 1..Len(rest) : Under(rest[i].path, path)
               \/ path \in DOMAIN discovered'
    <3>1. Under(directory, path) => path = directory
      BY <1>4, <1>7, WantedBelow
    <3> QED BY <1>4, <2>5, <2>6, <3>1
  <2> HIDE DEF rest
  <2>7. WalkInv'
    BY <1>4, <2>2, <2>4, <2>6, WalkInvNext
  <2> QED BY <1>1, <1>4, <2>1, <2>5, <2>7, WalkWhole
<1> QED BY <1>6, <1>7

LEMMA VisitFileWhole ==
  ASSUME IInv, WholeInv, VisitFile, UNCHANGED <<tree, invocation>>
  PROVE  WholeInv'
<1>1. Walking /\ walk.todo # <<>> /\ Head(walk.todo).type = "file"
  BY DEF VisitFile, Visiting
<1>2. PICK root : root = walk.root
  OBVIOUS
<1>3. PICK file : file = Head(walk.todo).path
  OBVIOUS
<1> DEFINE rest == Tail(walk.todo)
<1>4. /\ walk.begun /\ RecordInv /\ phase = "inspect" /\ root \in Arguments
      /\ root \in Roots /\ Stat(root) = "directory" /\ Lstat(root) = "directory"
      /\ file \in PathSet /\ Under(root, file) /\ Visited(Head(walk.todo)) /\ Lstat(file) = "file"
      /\ IsSequence(rest)
      /\ \A i \in 1..Len(rest) : Visited(rest[i]) /\ rest[i].type = Lstat(rest[i].path)
      /\ \A path \in Wanted : Under(root, path) =>
           \/ Under(file, path)
           \/ \E i \in 1..Len(rest) : Under(rest[i].path, path)
           \/ path \in DOMAIN discovered /\ (walk.found \/ walk.failed)
  BY <1>1, <1>2, <1>3, TodoFacts
<1>5. file \in Beneath
  BY <1>1, <1>3, <1>4 DEF Beneath, BelowRoots, Under, Visited
<1>6. file \in Wanted /\ file \in Selected
  BY <1>5 DEF Wanted, Selected
<1>7. CASE /\ Keep(file) /\ UNCHANGED arguments
           /\ walk' = [walk EXCEPT !.todo = rest, !.found = TRUE]
  <2>1. discovered' = With(file, "file") /\ counted' = Count(file) /\ phase' = phase
    BY <1>7 DEF Keep
  <2>2. walk \in [root : PathSet \cup {Top}, begun : BOOLEAN, todo : Seq(Entry),
                  found : BOOLEAN, failed : BOOLEAN]
    BY DEF IInv, DiscoveryInv
  <2>3. walk'.root = root /\ walk'.begun /\ walk'.todo = rest /\ walk'.found
    BY <1>2, <1>4, <1>7, <2>2
  <2>4. RecordInv' /\ DOMAIN discovered' = DOMAIN discovered \cup {file}
    BY <1>4, <1>6, <2>1, Noted
  <2>5. ASSUME NEW path \in Wanted, Under(root, path)
        PROVE  \/ \E i \in 1..Len(rest) : Under(rest[i].path, path)
               \/ path \in DOMAIN discovered'
    <3>1. Under(file, path) => path = file
      BY <1>4, WantedBelow
    <3> QED BY <1>4, <2>4, <2>5, <3>1
  <2> HIDE DEF rest
  <2>6. WalkInv'
    BY <1>4, <1>6, <2>3, <2>5, WalkInvNext
  <2> QED BY <1>4, <1>7, <2>1, <2>4, <2>6, WalkWhole
<1>8. CASE TooMany(file, root)
  BY <1>4, <1>6, <1>8, TooManyWhole
<1> QED BY <1>2, <1>3, <1>7, <1>8 DEF VisitFile

LEMMA EndWalkWhole ==
  ASSUME IInv, WholeInv, EndWalk, UNCHANGED <<tree, invocation>>
  PROVE  WholeInv'
<1>1. Walking /\ walk.begun /\ walk.todo = <<>> /\ NextArgument
  BY DEF EndWalk
<1>2. PICK root \in PathSet : root = walk.root /\ root = Head(arguments)
  BY <1>1, WalkingFacts
<1>3. /\ phase = "inspect" /\ arguments # <<>> /\ RecordInv /\ ArgumentsInv /\ WalkInv
      /\ root \in Arguments
  BY <1>1, <1>2, WalkingFacts, FirstArgument DEF WholeInv, ArgumentsInv
<1>4. /\ Stat(root) = "directory"
      /\ \A path \in Wanted : Under(root, path) =>
           path \in DOMAIN discovered /\ (walk.found \/ walk.failed)
      /\ walk.found \/ walk.failed => \E path \in Wanted : Under(root, path)
  <2>1. 1..Len(walk.todo) = {}
    BY <1>1, EmptySequence
  <2> QED BY <1>1, <1>2, <1>3, <2>1 DEF WalkInv, Ahead
<1>5. Stat(root)' = Stat(root) /\ Wanted' = Wanted /\ Fruitless' = Fruitless
  BY SameGiven
<1>6. CASE walk.found \/ walk.failed
  <2>1. UNCHANGED <<phase, discovered, counted>>
    BY <1>6 DEF EndWalk
  <2>2. RecordInv' /\ DOMAIN discovered \subseteq DOMAIN discovered'
    BY <1>3, <2>1, SameRecord
  <2>3. root \notin Fruitless
    BY <1>4, <1>6 DEF Fruitless, Wanted, Under
  <2>4. Settled(root)'
    BY <1>4, <1>5, <2>1, <2>3 DEF Settled
  <2>5. ArgumentsInv' /\ ~Walking'
    BY <1>1, <1>2, <1>3, <2>2, <2>4, NextSettled
  <2> QED BY <1>3, <2>1, <2>2, <2>5 DEF WholeInv
<1>7. CASE ~(walk.found \/ walk.failed)
  <2>1. discovered' = With(root, "error") /\ UNCHANGED <<phase, counted>>
    BY <1>2, <1>7 DEF EndWalk, Refuse
  <2>2. root \in Fruitless
    BY <1>3, <1>4, <1>7 DEF Fruitless, Wanted, Under
  <2>3. RecordInv' /\ DOMAIN discovered' = DOMAIN discovered \cup {root}
    BY <1>3, <2>1, <2>2, Noted, GivenFacts
  <2>4. Settled(root)'
    BY <1>4, <1>5, <1>7, <2>3 DEF Settled
  <2>5. ArgumentsInv' /\ ~Walking'
    BY <1>1, <1>2, <1>3, <2>3, <2>4, NextSettled
  <2> QED BY <1>3, <2>1, <2>3, <2>5 DEF WholeInv
<1> QED BY <1>6, <1>7

LEMMA EndDiscoveryWhole ==
  ASSUME IInv, WholeInv, EndDiscovery, UNCHANGED <<tree, invocation>>
  PROVE  WholeInv'
<1>1. /\ phase = "inspect" /\ arguments = <<>> /\ phase' = "test"
      /\ UNCHANGED <<discovered, counted>> /\ RecordInv /\ ArgumentsInv
  BY DEF EndDiscovery, discovery, WholeInv
<1>2. \A argument \in Arguments : Settled(argument)
  <2>1. Range(arguments) = {}
    BY <1>1, EmptySequence DEF Range
  <2> QED BY <1>1, <2>1 DEF ArgumentsInv
<1>3. Wanted \subseteq DOMAIN discovered
  <2>1. ASSUME NEW path \in Wanted PROVE \E argument \in Arguments : Under(argument, path)
    <3>1. path \in Roots \/ BelowRoots(path)
      BY DEF Wanted, Unlistable, Beneath
    <3> QED BY <3>1 DEF BelowRoots, Roots, Under
  <2> QED BY <1>2, <2>1 DEF Settled
<1>4. \A argument \in Arguments :
        Stat(argument) # "directory" \/ argument \in Fruitless => argument \in DOMAIN discovered
  BY <1>2 DEF Settled
<1>5. Selected \subseteq DOMAIN discovered
  BY <1>3, <1>4 DEF Selected, Wanted
<1>6. InError \subseteq DOMAIN discovered
  <2>1. Fruitless \subseteq Arguments
    BY DEF Fruitless
  <2> QED BY <1>3, <1>4, <2>1 DEF InError, Wanted
<1>7. DOMAIN discovered = Selected \cup InError
  BY <1>1, <1>5, <1>6 DEF RecordInv
<1>8. FoundFiles = Selected /\ \A path \in InError : discovered[path] = "error"
  BY <1>1, <1>5, <1>6, FilesCounted
<1>9. Cardinality(Selected) <= MaximumDocuments
  BY <1>1, <1>8, LimitsAssumption DEF RecordInv, IInv, DiscoveryInv
<1>10. Complete'
  BY <1>1, <1>7, <1>8, <1>9, SameGiven DEF Complete
<1> QED BY <1>1, <1>10 DEF WholeInv

LEMMA ReportingWhole ==
  ASSUME WholeInv, TestFixture \/ Summarize, UNCHANGED <<tree, invocation>>
  PROVE  WholeInv'
<1>1. phase = "test" /\ phase' \in {"test", "done"} /\ discovered' = discovered
  BY DEF TestFixture, Summarize, discovery
<1>2. Complete'
  BY <1>1, SameGiven DEF WholeInv, Complete
<1> QED BY <1>1, <1>2 DEF WholeInv

LEMMA SameWhole ==
  ASSUME WholeInv, UNCHANGED <<tree, invocation, testVars>>
  PROVE  WholeInv'
<1>1. UNCHANGED <<phase, arguments, walk, discovered, counted>>
  BY DEF testVars, discovery
<1>2. RecordInv => RecordInv'
  BY <1>1, SameRecord
<1>3. ArgumentsInv => ArgumentsInv'
  BY <1>1, SameArguments
<1>4. WalkInv => WalkInv'
  BY <1>1, SameGiven DEF WalkInv, Visited, Ahead
<1>5. Complete => Complete'
  BY <1>1, SameGiven DEF Complete
<1> QED BY <1>1, <1>2, <1>3, <1>4, <1>5 DEF WholeInv, Walking

(* What was discovered is what was given, in every state of every          *)
(* behaviour.                                                              *)
THEOREM CoversInvariant == Spec => [](IInv /\ CoversInv)
<1>1. Init => CoversInv
  <2> SUFFICES ASSUME Init PROVE WholeInv
    BY DEF CoversInv
  <2>1. /\ phase = FirstPhase /\ arguments = invocation.arguments /\ walk = NotWalking
        /\ discovered = <<>> /\ counted = 0
    BY DEF Init, TestInit
  <2>2. DOMAIN discovered = {} /\ FoundFiles = {}
    BY <2>1, EmptySequence DEF FoundFiles
  <2>3. RecordInv
    BY <2>1, <2>2, FS_EmptySet DEF RecordInv
  <2>4. ArgumentsInv
    BY <2>1 DEF ArgumentsInv, Arguments
  <2>5. ~Walking /\ phase \notin {"test", "done"}
    BY <2>1, NotWalkingFacts DEF Walking, FirstPhase
  <2> QED BY <2>3, <2>4, <2>5 DEF WholeInv
<1>2. IInv /\ CoversInv /\ [Next]_vars => CoversInv'
  <2> SUFFICES ASSUME IInv, CoversInv, [Next]_vars, treeChanges' = 0 PROVE WholeInv'
    BY DEF CoversInv
  <2>1. treeChanges \in Nat
    BY TreeAssumption DEF IInv, FilesInv
  <2>2. CASE TestStep
    <3>1. TestNext /\ UNCHANGED <<tree, invocation>> /\ WholeInv
      BY <2>2 DEF TestStep, CoversInv
    <3> QED BY <3>1, InspectFileWhole, InspectOtherWhole, InspectDirectoryWhole, WalkRootWhole,
        ListDirectoryWhole, VisitFileWhole, EndWalkWhole, EndDiscoveryWhole, ReportingWhole
        DEF TestNext
  <2>3. CASE ExplainStep
    BY <2>3, SameWhole DEF ExplainStep, CoversInv
  <2>4. CASE ChangeTree
    BY <2>1, <2>4 DEF ChangeTree, TreeChanges
  <2>5. CASE UNCHANGED vars
    BY <2>5, SameWhole DEF vars, CoversInv
  <2> QED BY <2>2, <2>3, <2>4, <2>5 DEF Next
<1> QED BY <1>1, <1>2, CommandLineInvariant, PTL DEF Spec

(* While nobody changes the files, test reports exactly the fixtures it    *)
(* was given, and every argument that is none as an error; or one error,   *)
(* when there are too many.                                                *)
THEOREM ReportCovers == Spec => []ReportCoversArguments
<1>1. IInv /\ CoversInv => ReportCoversArguments
  <2> SUFFICES ASSUME IInv, CoversInv, phase = "done", treeChanges = 0
               PROVE  IF Cardinality(Selected) <= MaximumDocuments
                      THEN /\ {report[i].path : i \in DOMAIN report} = Selected \cup InError
                           /\ \A i \in DOMAIN report :
                                report[i].path \in InError => report[i].code = ExitInvalidInput
                      ELSE /\ Len(report) = 1
                           /\ report[1].path \in Arguments /\ report[1].code = ExitInvalidInput
    BY DEF ReportCoversArguments
  <2>1. Complete
    BY DEF CoversInv, WholeInv
  <2>2. /\ IsSequence(report) /\ DOMAIN report = 1..Len(report) /\ Len(report) \in Nat
        /\ 1..Len(queue) = {}
    BY SequenceFacts, EmptySequence DEF IInv, QueueInv
  <2>3. {report[i].path : i \in DOMAIN report} = DOMAIN discovered
    BY <2>2 DEF IInv, QueueInv
  <2>4. \A i \in DOMAIN report :
          discovered[report[i].path] = "error" => report[i].code = ExitInvalidInput
    BY <2>2 DEF IInv, ReportInv, Faithful
  <2>5. CASE Cardinality(Selected) <= MaximumDocuments
    BY <2>1, <2>3, <2>4, <2>5 DEF Complete
  <2>6. CASE ~(Cardinality(Selected) <= MaximumDocuments)
    <3>1. PICK argument \in Arguments :
            DOMAIN discovered = {argument} /\ discovered[argument] = "error"
      BY <2>1, <2>6 DEF Complete
    <3>2. \A i \in 1..Len(report) : report[i].path = argument
      BY <2>2, <2>3, <3>1
    <3>3. \E i \in 1..Len(report) : TRUE
      BY <2>2, <2>3, <3>1
    <3>4. argument \in PathSet
      BY <3>1, ArgumentsArePaths
    <3>5. \A i, j \in 1..Len(report) : ~(i < j)
      <4>1. ~(Position(argument) < Position(argument))
        BY <3>4, PathFacts
      <4> QED BY <3>2, <4>1 DEF IInv, QueueInv
    <3>6. Len(report) = 1
      <4>1. Len(report) # 0
        BY <2>2, <3>3
      <4>2. Len(report) > 1 => 1 \in 1..Len(report) /\ 2 \in 1..Len(report) /\ 1 < 2
        BY <2>2
      <4> QED BY <2>2, <3>5, <4>1, <4>2
    <3> QED BY <2>2, <2>4, <2>6, <3>1, <3>2, <3>6
  <2> QED BY <2>5, <2>6
<1> QED BY <1>1, CoversInvariant, PTL
===============================================================================
