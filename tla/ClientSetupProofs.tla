------------------------- MODULE ClientSetupProofs -------------------------
(***************************************************************************)
(* Proof that after an ADD that succeeded every packet of the pod goes     *)
(* where its Egresses say, for any addresses, networks, Egresses and pods, *)
(* any order of the Egresses and any number of failing attempts.           *)
(***************************************************************************)
EXTENDS ClientSetup, FiniteSetTheorems, WellFoundedInduction, NaturalsInduction,
        SequenceTheorems, TLAPS

(***************************************************************************)
(* Lists.                                                                  *)
(***************************************************************************)

\* Induction over the numbers up to n, for a set of them.
LEMMA SetInduction ==
    ASSUME NEW n \in Nat, NEW S, 0 \in S, \A m \in 0..n : m < n /\ m \in S => m + 1 \in S
    PROVE  0..n \subseteq S
  <1> DEFINE T == {m \in 0..n : m \notin S}
  <1> SUFFICES ASSUME T # {}
               PROVE  FALSE
    OBVIOUS
  <1>1. IsWellFoundedOn(OpToRel(<, Nat), Nat)
    BY NatLessThanWellFounded
  <1>2. T \subseteq Nat
    OBVIOUS
  <1>3. PICK m \in T : \A k \in T : ~ (<<k, m>> \in OpToRel(<, Nat))
    BY <1>1, <1>2, WFMin
  <1>4. m \in Nat /\ m # 0 /\ m <= n /\ m \notin S
    OBVIOUS
  <1>5. m - 1 \in 0..n /\ m - 1 < m /\ m - 1 < n /\ (m - 1) + 1 = m
    BY <1>4
  <1>6. m - 1 \in S
    <2>1. <<m - 1, m>> \in OpToRel(<, Nat)
      BY <1>4, <1>5 DEF OpToRel
    <2> QED
      BY <1>3, <1>5, <2>1
  <1> QED
    BY <1>4, <1>5, <1>6

\* f is defined by recursion up to n.
IsRec(f, n, base, step) == f = [i \in 0..n |-> IF i = 0 THEN base ELSE step[i][f[i - 1]]]

\* There is such a function.
LEMMA RecExists ==
    ASSUME NEW n \in Nat, NEW V, NEW base \in V, NEW step \in [1..n -> [V -> V]]
    PROVE  \E f : IsRec(f, n, base, step)
  <1> DEFINE Rec(m, f) == /\ f \in [0..m -> V]
                          /\ f[0] = base
                          /\ \A i \in 1..m : f[i] = step[i][f[i - 1]]
             S == {m \in 0..n : \E f : Rec(m, f)}
  <1>1. 0 \in S
    <2> DEFINE f == [i \in 0..0 |-> base]
    <2>1. Rec(0, f)
      OBVIOUS
    <2>2. 0 \in 0..n
      OBVIOUS
    <2> QED
      BY <2>1, <2>2 DEF S
  <1>2. ASSUME NEW m \in 0..n, m < n, m \in S
        PROVE  m + 1 \in S
    <2>1. PICK f : Rec(m, f)
      BY <1>2
    <2> DEFINE g == [i \in 0..(m + 1) |-> IF i <= m THEN f[i] ELSE step[m + 1][f[m]]]
    <2>2. m \in Nat /\ m + 1 \in 1..n
      BY <1>2
    <2>3. step[m + 1] \in [V -> V] /\ f[m] \in V
      BY <2>1, <2>2
    <2>4. g \in [0..(m + 1) -> V]
      BY <2>1, <2>2, <2>3
    <2>5. g[0] = base
      BY <2>1, <2>2
    <2>6. ASSUME NEW i \in 1..(m + 1)
          PROVE  g[i] = step[i][g[i - 1]]
      <3>1. CASE i <= m
        <4>1. i \in 1..m /\ i - 1 \in 0..m /\ i - 1 <= m /\ i \in 0..(m+1) /\ i - 1 \in 0..(m + 1)
          BY <2>2, <3>1
        <4> QED
          BY <2>1, <3>1, <4>1
      <3>2. CASE ~ (i <= m)
        <4>1. i = m + 1 /\ i - 1 = m /\ m \in 0..(m + 1) /\ m <= m
          BY <2>2, <3>2
        <4> QED
          BY <3>2, <4>1
      <3> QED
        BY <3>1, <3>2
    <2> HIDE DEF g
    <2>7. Rec(m + 1, g)
      BY <2>4, <2>5, <2>6
    <2>8. m + 1 \in 0..n
      BY <1>2
    <2> QED
      BY <2>7, <2>8
  <1>3. n \in S
    <2> HIDE DEF S
    <2>1. 0..n \subseteq S
      BY <1>1, <1>2, SetInduction
    <2> QED
      BY <2>1
  <1>4. PICK f : Rec(n, f)
    BY <1>3
  <1>5. f = [i \in 0..n |-> IF i = 0 THEN base ELSE step[i][f[i - 1]]]
    <2>1. \A i \in 0..n : i # 0 => i \in 1..n
      OBVIOUS
    <2> QED
      BY <1>4, <2>1
  <1> QED
    BY <1>5 DEF IsRec

\* Append adds one element.
LEMMA AppendToSet ==
    ASSUME NEW X, NEW s \in Seq(X), NEW x \in X
    PROVE  /\ Append(s, x) \in Seq(X)
           /\ ToSet(Append(s, x)) = ToSet(s) \cup {x}
  <1>1. /\ DOMAIN s = 1..Len(s) /\ Len(s) \in Nat
        /\ DOMAIN Append(s, x) = 1..(Len(s) + 1)
        /\ Append(s, x)[Len(s) + 1] = x
        /\ \A i \in 1..Len(s) : Append(s, x)[i] = s[i]
    OBVIOUS
  <1>2. 1..(Len(s) + 1) = 1..Len(s) \cup {Len(s) + 1}
    BY <1>1
  <1> QED
    BY <1>1, <1>2 DEF ToSet

\* The loops of getGWNets: the list has the elements of s that are in S.
LEMMA KeepList ==
    ASSUME NEW X, NEW s \in Seq(X), NEW S
    PROVE  /\ Keep(s, S) \in Seq(ToSet(s) \cap S)
           /\ ToSet(Keep(s, S)) = ToSet(s) \cap S
  <1> DEFINE n    == Len(s)
             V    == Seq(X)
             step == [i \in 1..n |-> [v \in V |-> IF s[i] \in S THEN Append(v, s[i]) ELSE v]]
             Def(f) == f = [i \in 0..n |-> IF i = 0 THEN <<>>
                                           ELSE IF s[i] \in S THEN Append(f[i - 1], s[i])
                                           ELSE f[i - 1]]
             kept == CHOOSE f : Def(f)
  <1>1. n \in Nat /\ \A i \in 1..n : s[i] \in X
    OBVIOUS
  <1>2. step \in [1..n -> [V -> V]]
    <2>1. \A i \in 1..n : \A v \in V : Append(v, s[i]) \in V
      BY <1>1
    <2> QED
      BY <2>1
  <1>3. Def(kept)
    <2>1. <<>> \in V
      OBVIOUS
    <2>2. PICK f : f = [i \in 0..n |-> IF i = 0 THEN <<>> ELSE step[i][f[i - 1]]]
      <3> HIDE DEF step, V, n
      <3>1. \E f : IsRec(f, n, <<>>, step)
        BY <1>1, <1>2, <2>1, RecExists
      <3> QED
        BY <3>1 DEF IsRec
    <2>3. \A i \in 0..n : f[i] \in V
      <3> DEFINE T == {i \in 0..n : f[i] \in V}
      <3>1. 0 \in T
        BY <1>1, <2>1, <2>2
      <3>2. ASSUME NEW m \in 0..n, m < n, m \in T
            PROVE  m + 1 \in T
        <4>1. m + 1 \in 1..n /\ m + 1 \in 0..n /\ m + 1 # 0 /\ (m + 1) - 1 = m
          BY <1>1, <3>2
        <4>2. f[m + 1] = step[m + 1][f[m]]
          BY <2>2, <4>1
        <4> HIDE DEF step
        <4>3. step[m + 1][f[m]] \in V
          BY <1>2, <3>2, <4>1
        <4> QED
          BY <4>1, <4>2, <4>3
      <3> HIDE DEF T
      <3>3. 0..n \subseteq T
        BY <1>1, <3>1, <3>2, SetInduction
      <3> QED
        BY <3>3 DEF T
    <2>4. \A i \in 1..n : i - 1 \in 0..n
      BY <1>1
    <2>5. \A i \in 0..n : i # 0 => i \in 1..n
      BY <1>1
    <2>6. Def(f)
      <3>1. \A i \in 1..n : step[i][f[i - 1]] =
               (IF s[i] \in S THEN Append(f[i - 1], s[i]) ELSE f[i - 1])
        BY <2>3, <2>4
      <3> HIDE DEF step
      <3> QED
        BY <2>2, <2>5, <3>1
    <2> QED
      BY <2>6
  <1> HIDE DEF kept
  <1>4. Keep(s, S) = kept[n]
    BY DEF Keep, kept
  <1> DEFINE upTo(i) == {s[j] : j \in 1..i}
             Good == {i \in 0..n : /\ kept[i] \in Seq(ToSet(s) \cap S)
                                   /\ ToSet(kept[i]) = upTo(i) \cap S}
  <1>5. 0 \in Good
    <2>1. kept[0] = <<>>
      BY <1>1, <1>3
    <2>2. upTo(0) = {} /\ ToSet(<<>>) = {}
      BY DEF ToSet
    <2>3. kept[0] \in Seq(ToSet(s) \cap S) /\ ToSet(kept[0]) = upTo(0) \cap S
      BY <2>1, <2>2
    <2>4. 0 \in 0..n
      BY <1>1
    <2> QED
      BY <2>3, <2>4
  <1>6. ASSUME NEW m \in 0..n, m < n, m \in Good
        PROVE  m + 1 \in Good
    <2>1. m \in Nat /\ m + 1 \in 1..n /\ m + 1 \in 0..n /\ m + 1 # 0 /\ (m + 1) - 1 = m
      BY <1>1, <1>6
    <2>2. kept[m + 1] = IF s[m + 1] \in S THEN Append(kept[m], s[m + 1]) ELSE kept[m]
      BY <1>3, <2>1
    <2>3. upTo(m + 1) = upTo(m) \cup {s[m + 1]}
      <3>1. 1..(m + 1) = 1..m \cup {m + 1}
        BY <2>1
      <3> QED
        BY <3>1
    <2>4. s[m + 1] \in ToSet(s)
      BY <2>1 DEF ToSet
    <2>5. CASE s[m + 1] \in S
      <3>1. kept[m + 1] = Append(kept[m], s[m + 1])
        BY <2>2, <2>5
      <3>2. /\ Append(kept[m], s[m + 1]) \in Seq(ToSet(s) \cap S)
            /\ ToSet(Append(kept[m], s[m + 1])) = ToSet(kept[m]) \cup {s[m + 1]}
        BY <1>6, <2>4, <2>5, AppendToSet
      <3> QED
        BY <1>6, <2>1, <2>3, <2>5, <3>1, <3>2
    <2>6. CASE s[m + 1] \notin S
      BY <1>6, <2>1, <2>2, <2>3, <2>6
    <2> QED
      BY <2>5, <2>6
  <1>7. n \in Good
    <2> HIDE DEF Good
    <2>1. 0..n \subseteq Good
      BY <1>1, <1>5, <1>6, SetInduction
    <2> QED
      BY <1>1, <2>1
  <1>8. upTo(n) = ToSet(s)
    BY DEF ToSet
  <1> QED
    BY <1>4, <1>7, <1>8

\* The elements of a concatenation.
LEMMA ConcatToSet ==
    ASSUME NEW X, NEW s \in Seq(X), NEW t \in Seq(X)
    PROVE  /\ s \o t \in Seq(X)
           /\ ToSet(s \o t) = ToSet(s) \cup ToSet(t)
  <1>1. /\ DOMAIN s = 1..Len(s) /\ DOMAIN t = 1..Len(t)
        /\ Len(s) \in Nat /\ Len(t) \in Nat
        /\ s \o t \in Seq(X)
        /\ DOMAIN (s \o t) = 1..(Len(s) + Len(t))
        /\ \A i \in 1..(Len(s) + Len(t)) :
              (s \o t)[i] = IF i <= Len(s) THEN s[i] ELSE t[i - Len(s)]
    OBVIOUS
  <1>2. ASSUME NEW x \in ToSet(s \o t)
        PROVE  x \in ToSet(s) \cup ToSet(t)
    <2>1. PICK i \in 1..(Len(s) + Len(t)) : x = (s \o t)[i]
      BY <1>1, <1>2 DEF ToSet
    <2>2. CASE i <= Len(s)
      <3>1. i \in 1..Len(s) /\ x = s[i]
        BY <1>1, <2>1, <2>2
      <3> QED
        BY <1>1, <3>1 DEF ToSet
    <2>3. CASE ~ (i <= Len(s))
      <3>1. i - Len(s) \in 1..Len(t) /\ x = t[i - Len(s)]
        BY <1>1, <2>1, <2>3
      <3> QED
        BY <1>1, <3>1 DEF ToSet
    <2> QED
      BY <2>2, <2>3
  <1>3. ASSUME NEW x \in ToSet(s)
        PROVE  x \in ToSet(s \o t)
    <2>1. PICK i \in 1..Len(s) : x = s[i]
      BY <1>1, <1>3 DEF ToSet
    <2>2. i \in 1..(Len(s) + Len(t)) /\ i <= Len(s)
      BY <1>1
    <2> QED
      BY <1>1, <2>1, <2>2 DEF ToSet
  <1>4. ASSUME NEW x \in ToSet(t)
        PROVE  x \in ToSet(s \o t)
    <2>1. PICK i \in 1..Len(t) : x = t[i]
      BY <1>1, <1>4 DEF ToSet
    <2> DEFINE k == Len(s) + i
    <2>2. k \in 1..(Len(s) + Len(t)) /\ ~ (k <= Len(s)) /\ k - Len(s) = i
      BY <1>1
    <2> HIDE DEF k
    <2>3. (s \o t)[k] = x
      BY <1>1, <2>1, <2>2
    <2> QED
      BY <1>1, <2>2, <2>3 DEF ToSet
  <1> QED
    BY <1>1, <1>2, <1>3, <1>4

\* The names in the annotations, put together: no more and no less of them.
LEMMA FlattenList ==
    ASSUME NEW X, NEW seqs \in Seq(Seq(X))
    PROVE  /\ FlattenSeq(seqs) \in Seq(X)
           /\ ToSet(FlattenSeq(seqs)) = UNION {ToSet(seqs[i]) : i \in 1..Len(seqs)}
  <1> DEFINE n == Len(seqs)
             V == Seq(X)
             upTo(i) == UNION {ToSet(seqs[j]) : j \in 1..i}
  <1>1. n \in Nat /\ \A i \in 1..n : seqs[i] \in V
    OBVIOUS
  <1>2. CASE n = 0
    <2>1. FlattenSeq(seqs) = <<>>
      BY <1>2 DEF FlattenSeq
    <2>2. upTo(n) = {}
      <3>1. 1..n = {}
        BY <1>2
      <3> QED
        BY <3>1
    <2>3. ToSet(<<>>) = {}
      BY DEF ToSet
    <2>4. FlattenSeq(seqs) \in Seq(X)
      BY <2>1
    <2>5. ToSet(FlattenSeq(seqs)) = upTo(n)
      BY <2>1, <2>2, <2>3, Zenon
    <2> QED
      BY <2>4, <2>5, Zenon
  <1>3. CASE n # 0
    <2> DEFINE Def(f) == f = [i \in 1..n |-> IF i = 1 THEN seqs[i] ELSE f[i - 1] \o seqs[i]]
               flat   == CHOOSE f : Def(f)
               m      == n - 1
               step   == [i \in 1..m |-> [v \in V |-> v \o seqs[i + 1]]]
    <2>1. m \in Nat /\ seqs[1] \in V /\ m + 1 = n
      BY <1>1, <1>3
    <2>2. step \in [1..m -> [V -> V]]
      <3>1. \A i \in 1..m : i + 1 \in 1..n
        BY <1>1
      <3>2. \A i \in 1..m : \A v \in V : v \o seqs[i + 1] \in V
        BY <1>1, <3>1
      <3> QED
        BY <3>2
    <2>3. PICK g : IsRec(g, m, seqs[1], step)
      <3> HIDE DEF m, step, V
      <3> QED
        BY <2>1, <2>2, RecExists
    <2> DEFINE f == [i \in 1..n |-> g[i - 1]]
    <2>4. g[0] = seqs[1] /\ \A i \in 1..m : g[i] = step[i][g[i - 1]]
      <3> HIDE DEF step
      <3>1. \A i \in 1..m : i \in 0..m /\ i # 0
        BY <2>1
      <3>2. 0 \in 0..m
        BY <2>1
      <3> QED
        BY <2>3, <3>1, <3>2 DEF IsRec
    <2>5. \A i \in 0..m : g[i] \in V
      <3> DEFINE T == {i \in 0..m : g[i] \in V}
      <3>1. 0 \in T
        BY <2>1, <2>4
      <3>2. ASSUME NEW k \in 0..m, k < m, k \in T
            PROVE  k + 1 \in T
        <4>1. k + 1 \in 1..m /\ k + 1 \in 0..m /\ (k + 1) - 1 = k
          BY <2>1, <3>2
        <4> HIDE DEF step
        <4>2. g[k + 1] = step[k + 1][g[k]] /\ step[k + 1][g[k]] \in V
          BY <2>2, <2>4, <3>2, <4>1
        <4> QED
          BY <4>1, <4>2
      <3> HIDE DEF T
      <3>3. 0..m \subseteq T
        BY <2>1, <3>1, <3>2, SetInduction
      <3> QED
        BY <3>3 DEF T
    <2>6. Def(f)
      <3>1. ASSUME NEW i \in 1..n
            PROVE  f[i] = IF i = 1 THEN seqs[i] ELSE f[i - 1] \o seqs[i]
        <4>1. CASE i = 1
          BY <2>4, <4>1
        <4>2. CASE i # 1
          <5>1. /\ i - 1 \in 1..m /\ i - 1 \in 1..n /\ (i - 1) - 1 \in 0..m
                /\ (i - 1) + 1 = i
            BY <2>1, <4>2
          <5>2. g[(i - 1) - 1] \in V
            BY <2>5, <5>1
          <5>3. step[i - 1][g[(i - 1) - 1]] = g[(i - 1) - 1] \o seqs[(i - 1) + 1]
            BY <5>1, <5>2
          <5>4. f[i] = g[i - 1] /\ f[i - 1] = g[(i - 1) - 1]
            BY <5>1
          <5> HIDE DEF step, f
          <5>5. g[i - 1] = step[i - 1][g[(i - 1) - 1]]
            BY <2>4, <5>1
          <5> QED
            BY <4>2, <5>1, <5>3, <5>4, <5>5
        <4> QED
          BY <4>1, <4>2
      <3>2. DOMAIN f = 1..n
        OBVIOUS
      <3>3. f = [i \in 1..n |-> f[i]]
        OBVIOUS
      <3> HIDE DEF f
      <3> QED
        BY <3>1, <3>3
    <2>7. Def(flat)
      <3> HIDE DEF f
      <3> QED
        BY <2>6
    <2>8. FlattenSeq(seqs) = flat[n]
      BY <1>3 DEF FlattenSeq
    <2> HIDE DEF flat
    <2> DEFINE Good == {k \in 0..m : flat[k + 1] \in V /\ ToSet(flat[k + 1]) = upTo(k + 1)}
    <2>9. 0 \in Good
      <3>1. flat[1] = seqs[1]
        BY <2>1, <2>7
      <3>2. upTo(1) = ToSet(seqs[1])
        <4>1. 1..1 = {1}
          OBVIOUS
        <4> QED
          BY <4>1
      <3>3. 0 \in 0..m /\ 0 + 1 = 1
        BY <2>1
      <3> QED
        BY <2>1, <3>1, <3>2, <3>3
    <2>10. ASSUME NEW k \in 0..m, k < m, k \in Good
           PROVE  k + 1 \in Good
      <3> DEFINE j == k + 2
      <3>1. j \in 1..n /\ j # 1 /\ j - 1 = k + 1 /\ k + 1 \in 0..m /\ (k + 1) + 1 = j
        BY <2>1, <2>10
      <3>2. 1..j = 1..(k + 1) \cup {j}
        BY <2>10
      <3> HIDE DEF j
      <3>3. flat[j] = flat[k + 1] \o seqs[j]
        BY <2>7, <3>1
      <3>4. upTo(j) = upTo(k + 1) \cup ToSet(seqs[j])
        BY <3>2
      <3>5. flat[k + 1] \in Seq(X) /\ ToSet(flat[k + 1]) = upTo(k + 1) /\ seqs[j] \in Seq(X)
        BY <1>1, <2>10, <3>1
      <3>6. flat[j] \in Seq(X) /\ ToSet(flat[j]) = ToSet(flat[k + 1]) \cup ToSet(seqs[j])
        BY <3>3, <3>5, ConcatToSet
      <3> QED
        BY <3>1, <3>4, <3>5, <3>6
    <2>11. m \in Good
      <3> HIDE DEF Good, m
      <3>1. 0..m \subseteq Good
        BY <2>1, <2>9, <2>10, SetInduction
      <3> QED
        BY <2>1, <3>1
    <2> HIDE DEF m
    <2> QED
      BY <2>1, <2>8, <2>11
  <1> QED
    BY <1>2, <1>3

\* A listing of a finite set without repetition has all its elements.
LEMMA SetToSeqsList ==
    ASSUME NEW S, IsFiniteSet(S), NEW s \in SetToSeqs(S)
    PROVE  s \in Seq(S) /\ ToSet(s) = S
  <1> DEFINE n == Cardinality(S)
  <1>1. n \in Nat /\ IsFiniteSet(1..n) /\ Cardinality(1..n) = n
    BY FS_CardinalityType, FS_Interval
  <1>2. s \in Injection(1..n, S)
    BY DEF SetToSeqs, Injection, IsInjective
  <1>3. s \in Surjection(1..n, S) /\ s \in [1..n -> S]
    BY <1>1, <1>2, FS_Injection DEF Injection
  <1> HIDE DEF n
  <1> QED
    BY <1>1, <1>3 DEF ToSet, Surjection

(***************************************************************************)
(* What the agent reads: getGWNets and parseConfig.                        *)
(***************************************************************************)

\* The types of what a pod asks for.
LEMMA PodTypes ==
    ASSUME pod \in Pods
    PROVE  Named \subseteq Egress /\ local \subseteq Families /\ Asked \subseteq Named
  <1>1. \A s \in pod.annotations : s \in Seq(Egress)
    BY ObjectAssumption
  <1>2. \A s \in Seq(Egress) : ToSet(s) \subseteq Egress
    BY DEF ToSet
  <1>3. Named \subseteq Egress
    BY <1>1, <1>2 DEF Named
  <1>4. local \subseteq Families
    BY ObjectAssumption DEF local
  <1> QED
    BY <1>3, <1>4 DEF Asked

\* In whichever order the annotations come, the names are the same.
LEMMA NamesList ==
    ASSUME pod \in Pods, NEW names \in EgNames
    PROVE  names \in Seq(Egress) /\ ToSet(names) = Named
  <1>1. PICK s \in SetToSeqs(pod.annotations) : names = FlattenSeq(s)
    BY DEF EgNames
  <1>2. IsFiniteSet(pod.annotations) /\ pod.annotations \subseteq Seq(Egress)
    BY ObjectAssumption
  <1>3. s \in Seq(pod.annotations) /\ ToSet(s) = pod.annotations
    BY <1>2, SetToSeqsList
  <1>4. s \in Seq(Seq(Egress))
    BY <1>2, <1>3
  <1>5. /\ names \in Seq(Egress)
        /\ ToSet(names) = UNION {ToSet(s[i]) : i \in 1..Len(s)}
    BY <1>1, <1>4, FlattenList
  <1>6. pod.annotations = {s[i] : i \in 1..Len(s)}
    BY <1>3 DEF ToSet
  <1> QED
    BY <1>5, <1>6 DEF Named

\* The networks of an Egress are networks, of the family of its gateway.
LEMMA NetworksList ==
    ASSUME NEW e \in Egress, cluster[e].destinations \in Destinations
    PROVE  /\ Networks(e) \in Seq(Nets)
           /\ \A n \in ToSet(Networks(e)) : n \in Nets /\ Family[n.ip] = Gateway[e]
  <1> DEFINE ds == cluster[e].destinations
             S  == NetsOf[Gateway[e]]
  <1>1. ds \in Seq(Nets \cup {NotCIDR})
    BY ObjectAssumption DEF Destinations
  <1>2. S = {n \in Nets : Family[n.ip] = Gateway[e]}
    BY ObjectAssumption DEF NetsOf
  <1> HIDE DEF ds, S
  <1>3. Keep(ds, S) \in Seq(ToSet(ds) \cap S) /\ ToSet(Keep(ds, S)) = ToSet(ds) \cap S
    BY <1>1, KeepList
  <1>4. Networks(e) = Keep(ds, S)
    BY DEF Networks, ds, S
  <1>5. S \subseteq Nets
    BY <1>2
  <1>6. Networks(e) \in Seq(Nets)
    BY <1>3, <1>4, <1>5
  <1> QED
    BY <1>2, <1>3, <1>4, <1>6

\* A list that has an element is not empty.
LEMMA NotEmptyList ==
    ASSUME NEW X, NEW s \in Seq(X)
    PROVE  s # <<>> <=> ToSet(s) # {}
  BY DEF ToSet

\* getGWNets gives each gateway with a network, and with its networks.
LEMMA GWNetsList ==
    ASSUME pod \in Pods, NEW names \in EgNames,
           \A e \in Named : cluster[e].destinations \in Destinations
    PROVE  /\ GWNets(names) \in Seq(GWNetsRecs)
           /\ \A j \in DOMAIN GWNets(names) :
                 /\ GWNets(names)[j].gw \in Named
                 /\ GWNets(names)[j].nets = Networks(GWNets(names)[j].gw)
                 /\ GWNets(names)[j].nets # <<>>
           /\ \A e \in Named : Networks(e) # <<>> =>
                 \E j \in DOMAIN GWNets(names) : GWNets(names)[j].gw = e
  <1> DEFINE S    == {e \in Named : Networks(e) # <<>>}
             some == Keep(names, S)
  <1>1. names \in Seq(Egress) /\ ToSet(names) = Named
    BY NamesList
  <1>2. some \in Seq(Named \cap S) /\ ToSet(some) = Named \cap S
    BY <1>1, KeepList
  <1>3. GWNets(names) = [i \in DOMAIN some |-> [gw |-> some[i], nets |-> Networks(some[i])]]
    BY DEF GWNets
  <1> HIDE DEF some
  <1>4. DOMAIN some = 1..Len(some) /\ Len(some) \in Nat
        /\ \A i \in DOMAIN some : some[i] \in Named /\ Networks(some[i]) # <<>>
    BY <1>2
  <1>5. \A e \in Named : e \in Egress /\ Networks(e) \in Seq(Nets)
    BY PodTypes, NetworksList
  <1>6. GWNets(names) \in Seq(GWNetsRecs)
    <2>1. \A i \in DOMAIN some : [gw |-> some[i], nets |-> Networks(some[i])] \in GWNetsRecs
      BY <1>4, <1>5 DEF GWNetsRecs
    <2> QED
      BY <1>3, <1>4, <2>1
  <1>7. ASSUME NEW e \in Named, Networks(e) # <<>>
        PROVE  \E j \in DOMAIN GWNets(names) : GWNets(names)[j].gw = e
    <2>1. PICK j \in DOMAIN some : some[j] = e
      BY <1>2, <1>7 DEF ToSet
    <2> QED
      BY <1>3, <2>1
  <1>8. \A j \in DOMAIN GWNets(names) :
           /\ GWNets(names)[j].gw \in Named
           /\ GWNets(names)[j].nets = Networks(GWNets(names)[j].gw)
           /\ GWNets(names)[j].nets # <<>>
    BY <1>3, <1>4
  <1> QED
    BY <1>6, <1>7, <1>8

(***************************************************************************)
(* NatClient.Init: the rules.                                              *)
(***************************************************************************)

\* The rules of a family, without their order.
RuleSet(f) ==
    {Rule(1800, LinkLocal \cap Of(f), "main"), Rule(1900, Of(f), "narrow")}
    \cup {Rule(2000 + i - 1, Private[f][i], "main") : i \in DOMAIN Private[f]}
    \cup {Rule(2100, Of(f), "wide")}

\* NatClient.Init adds these rules, and no others.
LEMMA RulesList ==
    ASSUME NEW f \in Families
    PROVE  /\ NewRules(f) \in Seq(RuleRecs)
           /\ DOMAIN NewRules(f) = 1..Len(NewRules(f))
           /\ Len(NewRules(f)) \in Nat /\ 1 \in DOMAIN NewRules(f)
           /\ ToSet(NewRules(f)) = RuleSet(f)
  <1> DEFINE a == Rule(1800, LinkLocal \cap Of(f), "main")
             b == Rule(1900, Of(f), "narrow")
             c == [i \in DOMAIN Private[f] |-> Rule(2000 + i - 1, Private[f][i], "main")]
             d == Rule(2100, Of(f), "wide")
             p == Len(Private[f])
  <1>1. /\ p \in Nat /\ DOMAIN Private[f] = 1..p
        /\ \A i \in 1..p : Private[f][i] \in SUBSET Addrs
    BY AddressAssumption
  <1>2. a \in RuleRecs /\ b \in RuleRecs /\ d \in RuleRecs
    BY AddressAssumption DEF Rule, RuleRecs, Of, Tables
  <1>3. \A i \in 1..p : Rule(2000 + i - 1, Private[f][i], "main") \in RuleRecs
    <2>1. \A i \in 1..p : 2000 + i - 1 \in Nat
      BY <1>1
    <2> QED
      BY <1>1, <2>1 DEF Rule, RuleRecs
  <1>4. c \in Seq(RuleRecs)
    BY <1>1, <1>3
  <1>5. ToSet(c) = {Rule(2000 + i - 1, Private[f][i], "main") : i \in DOMAIN Private[f]}
    <2>1. /\ DOMAIN c = DOMAIN Private[f]
          /\ \A i \in DOMAIN Private[f] : c[i] = Rule(2000 + i - 1, Private[f][i], "main")
      OBVIOUS
    <2> DEFINE rule(i) == Rule(2000 + i - 1, Private[f][i], "main")
    <2>2. \A i \in DOMAIN Private[f] : c[i] = rule(i)
      BY <2>1
    <2> HIDE DEF c, rule
    <2>3. ToSet(c) = {rule(i) : i \in DOMAIN Private[f]}
      BY <2>1, <2>2 DEF ToSet
    <2> QED
      BY <2>3 DEF rule
  <1> DEFINE ab == <<a, b>>
             dd == <<d>>
  <1>6. NewRules(f) = (ab \o c) \o dd
    BY DEF NewRules
  <1> HIDE DEF a, b, c, d
  <1>7. /\ ab \in Seq(RuleRecs) /\ ToSet(ab) = {a, b}
        /\ dd \in Seq(RuleRecs) /\ ToSet(dd) = {d}
    <2>1. ab \in Seq(RuleRecs) /\ dd \in Seq(RuleRecs)
      BY <1>2
    <2>2. DOMAIN ab = {1, 2} /\ ab[1] = a /\ ab[2] = b
      OBVIOUS
    <2>3. DOMAIN dd = {1} /\ dd[1] = d
      OBVIOUS
    <2> HIDE DEF ab, dd
    <2> QED
      BY <2>1, <2>2, <2>3 DEF ToSet
  <1> HIDE DEF ab, dd
  <1>8. ab \o c \in Seq(RuleRecs) /\ ToSet(ab \o c) = {a, b} \cup ToSet(c)
    BY <1>4, <1>7, ConcatToSet
  <1>9. /\ NewRules(f) \in Seq(RuleRecs)
        /\ ToSet(NewRules(f)) = ({a, b} \cup ToSet(c)) \cup {d}
    <2> DEFINE s == ab \o c
    <2> HIDE DEF s
    <2>1. s \in Seq(RuleRecs) /\ ToSet(s) = {a, b} \cup ToSet(c) /\ NewRules(f) = s \o dd
      BY <1>6, <1>8 DEF s
    <2> QED
      BY <1>7, <2>1, ConcatToSet
  <1>10. Len(NewRules(f)) \in Nat /\ DOMAIN NewRules(f) = 1..Len(NewRules(f))
    BY <1>9
  <1>11. 1 \in DOMAIN NewRules(f)
    <2>1. PICK i \in DOMAIN NewRules(f) : NewRules(f)[i] = a
      BY <1>9 DEF ToSet
    <2> QED
      BY <1>10, <2>1
  <1> QED
    BY <1>5, <1>9, <1>10, <1>11 DEF a, b, d, RuleSet

(***************************************************************************)
(* The invariant holds initially, and the API server keeps it.             *)
(***************************************************************************)

\* A pod without a network namespace satisfies the invariant.
LEMMA InitClient == Init => ClientInv
  <1> SUFFICES ASSUME Init PROVE ClientInv
    OBVIOUS
  <1>1. TypeOK
    <2>1. EmptyRules \in [Families -> SUBSET RuleRecs]
      BY DEF EmptyRules
    <2>2. EmptyRoutes \in [Families \X Tables -> SUBSET RouteRecs]
      BY DEF EmptyRoutes
    <2>3. NoAttempt \in [pc : {"none", "fou", "clear", "rule", "peer", "route"},
                         g : Seq(GWNetsRecs), fam : Families, i : Nat, late : BOOLEAN]
      BY DEF NoAttempt, Families
    <2> QED
      BY <2>1, <2>2, <2>3 DEF Init, TypeOK
  <1>2. AttemptOK
    BY DEF Init, AttemptOK, NoAttempt
  <1>3. NetnsOK
    BY DEF Init, NetnsOK, NoAttempt, Made, NoRoutes, EmptyRules, EmptyRoutes
  <1>4. FreshOK
    BY DEF Init, FreshOK, NoAttempt
  <1> QED
    BY <1>1, <1>2, <1>3, <1>4 DEF ClientInv

\* The pod stays the same.
LEMMA SamePod ==
    ASSUME UNCHANGED pod
    PROVE  Named' = Named /\ local' = local /\ Asked' = Asked
  <1>1. Named' = Named
    BY DEF Named
  <1>2. local' = local
    BY DEF local
  <1> QED
    BY <1>1, <1>2 DEF Asked

\* The same destinations are the same demand.
LEMMA SameDemand ==
    ASSUME UNCHANGED pod,
           \A e \in Asked : cluster'[e].destinations = cluster[e].destinations
    PROVE  Demand' = Demand /\ \A e \in Asked : Networks(e)' = Networks(e)
  <1>1. Asked' = Asked
    BY SamePod
  <1>2. \A e \in Asked : Networks(e)' = Networks(e)
    BY DEF Networks
  <1> QED
    BY <1>1, <1>2 DEF Demand

\* A step that leaves the attempt and the network namespace alone.
LEMMA SameNetns ==
    ASSUME UNCHANGED <<pod, rules, routes, att, result>>, AttemptOK, NetnsOK
    PROVE  AttemptOK' /\ NetnsOK'
  <1>1. local' = local
    BY SamePod
  <1>2. AttemptOK'
    BY <1>1 DEF AttemptOK
  <1>3. Made' = Made
    BY <1>1 DEF Made
  <1>4. \A f \in Families : NoRoutes(f)' = NoRoutes(f)
    BY DEF NoRoutes
  <1>5. Made \subseteq local /\ att' = att
    BY DEF Made
  <1> QED
    BY <1>1, <1>2, <1>3, <1>4, <1>5 DEF NetnsOK, NoRoutes

\* A change of the API objects that loses none of the pod's Egresses, so that
\* the destinations that there are stay the same.
LEMMA ApiKeeps ==
    ASSUME ClientInv, TypeOK', UNCHANGED <<pod, rules, routes, att, result>>,
           lost' = {} => /\ lost = {}
                         /\ \A e \in Named : \/ cluster[e].destinations = None
                                             \/ cluster'[e].destinations = cluster[e].destinations
    PROVE  ClientInv'
  <1>1. AttemptOK' /\ NetnsOK'
    BY SameNetns DEF ClientInv
  <1>2. FreshOK'
    <2> SUFFICES ASSUME lost' = {}
                 PROVE  FreshOK'
      BY DEF FreshOK
    <2>1. /\ lost = {} /\ FreshOK /\ Named' = Named /\ Asked' = Asked /\ local' = local
          /\ Asked \subseteq Named
      BY SamePod, PodTypes DEF ClientInv, TypeOK
    <2> DEFINE Kept(e) == /\ cluster[e].destinations # None
                          /\ cluster'[e].destinations = cluster[e].destinations
               Used == routes # EmptyRoutes \/ att.pc # "none"
    <2>2. \A e : Kept(e) => Networks(e)' = Networks(e) /\ cluster'[e].destinations # None
      BY DEF Networks
    <2>3. Used => \A e \in Named : Kept(e)
      BY <2>1 DEF FreshOK
    <2>4. Used \/ result = "ok" => Demand' = Demand
      <3>1. Used \/ result = "ok" => \A e \in Asked : Kept(e)
        BY <2>1 DEF FreshOK
      <3> QED
        BY <3>1, SameDemand
    <2>5. \A d : IsRouted(d)' = IsRouted(d) /\ Pending(d)' = Pending(d)
      BY DEF IsRouted, Pending, Route, KeyOf
    <2>6. Demand' = Demand => Sound' = Sound
      BY DEF Sound, KeyOf, Route
    <2>7. att' = att /\ routes' = routes /\ rules' = rules /\ result' = result
      OBVIOUS
    <2>8. Used' => /\ \A e \in Named : cluster'[e].destinations # None
                   /\ \E e \in Named : Networks(e)' # <<>>
      BY <2>1, <2>2, <2>3, <2>7 DEF FreshOK
    <2>9. att.pc # "none" => \A j \in DOMAIN att.g :
              att.g[j].gw \in Named /\ att.g[j].nets = Networks(att.g[j].gw)'
      <3> SUFFICES ASSUME att.pc # "none", NEW j \in DOMAIN att.g
                   PROVE  att.g[j].gw \in Named /\ att.g[j].nets = Networks(att.g[j].gw)'
        OBVIOUS
      <3>1. att.g[j].gw \in Named /\ att.g[j].nets = Networks(att.g[j].gw)
        BY <2>1 DEF FreshOK
      <3>2. PICK e \in Named : att.g[j].gw = e
        BY <3>1
      <3>3. Networks(e)' = Networks(e)
        BY <2>2, <2>3
      <3> QED
        BY <2>7, <3>1, <3>2, <3>3
    <2>10. att.pc \in {"fou", "clear", "rule"} => \A d \in Demand' : Pending(d)'
      BY <2>1, <2>4, <2>5 DEF FreshOK
    <2>11. att.pc \in {"peer", "route"} =>
              Sound' /\ \A d \in Demand' : IsRouted(d)' \/ Pending(d)'
      BY <2>1, <2>4, <2>5, <2>6 DEF FreshOK
    <2>12. result = "ok" => Sound' /\ \A d \in Demand' : IsRouted(d)'
      BY <2>1, <2>4, <2>5, <2>6 DEF FreshOK
    <2>13. result = "ok" =>
              /\ \A e \in Asked : cluster'[e].destinations # None
              /\ routes = EmptyRoutes \/ \A f \in local : rules[f] = ToSet(NewRules(f))
      BY <2>1, <2>2 DEF FreshOK
    <2> HIDE DEF Kept
    <2> QED
      BY <2>1, <2>7, <2>8, <2>9, <2>10, <2>11, <2>12, <2>13 DEF FreshOK
  <1> QED
    BY <1>1, <1>2 DEF ClientInv

ClusterTypes == [destinations : Destinations \cup {None}, svc : {"none", "own", "old"}]

\* Users and the controller: what an attempt has read stays, or is lost.
LEMMA ApiStep ==
    ASSUME ClientInv, NEW e \in Named,
           \/ \E ds \in Offers[e] : CreateEgress(e, ds) \/ UpdateEgress(e, ds)
           \/ CreateService(e) \/ DeleteEgress(e) \/ DeleteService(e)
    PROVE  ClientInv'
  <1>1. /\ TypeOK /\ e \in Egress
        /\ cluster \in [Egress -> ClusterTypes]
    BY PodTypes DEF ClientInv, TypeOK, ClusterTypes
  <1>2. ASSUME NEW ds \in Offers[e], CreateEgress(e, ds)
        PROVE  ClientInv'
    <2>1. /\ cluster' = [cluster EXCEPT ![e] = [@ EXCEPT !.destinations = ds]]
          /\ cluster[e].destinations = None
          /\ UNCHANGED <<pod, lost, deletes, fou, links, rules, routes, att, result, faults>>
      BY <1>2 DEF CreateEgress, netns
    <2>2. [cluster[e] EXCEPT !.destinations = ds] \in ClusterTypes
      BY <1>1 DEF ClusterTypes, Destinations
    <2>3. cluster' \in [Egress -> ClusterTypes]
      BY <1>1, <2>1, <2>2
    <2>4. TypeOK'
      BY <1>1, <2>1, <2>3 DEF TypeOK, ClusterTypes
    <2>5. \A x \in Egress : x # e => cluster'[x] = cluster[x]
      BY <1>1, <2>1
    <2> QED
      BY <2>1, <2>4, <2>5, ApiKeeps, PodTypes DEF ClientInv, TypeOK
  <1>3. ASSUME NEW ds \in Offers[e], UpdateEgress(e, ds)
        PROVE  ClientInv'
    <2>1. /\ cluster' = [cluster EXCEPT ![e] = [@ EXCEPT !.destinations = ds]]
          /\ cluster[e].destinations = ds
          /\ UNCHANGED <<pod, lost, deletes, fou, links, rules, routes, att, result, faults>>
      BY <1>3 DEF UpdateEgress, validateUpdate, netns
    <2>2. [cluster[e] EXCEPT !.destinations = ds] = cluster[e]
      BY <1>1, <2>1 DEF ClusterTypes
    <2>3. cluster' = cluster
      BY <1>1, <2>1, <2>2
    <2>4. TypeOK'
      BY <1>1, <2>1, <2>3 DEF TypeOK
    <2> QED
      BY <2>1, <2>3, <2>4, ApiKeeps
  <1>4. ASSUME CreateService(e)
        PROVE  ClientInv'
    <2>1. /\ cluster' = [cluster EXCEPT ![e] = [@ EXCEPT !.svc = "own"]]
          /\ UNCHANGED <<pod, lost, deletes, fou, links, rules, routes, att, result, faults>>
      BY <1>4 DEF CreateService, netns
    <2>2. /\ [cluster[e] EXCEPT !.svc = "own"] \in ClusterTypes
          /\ [cluster[e] EXCEPT !.svc = "own"].destinations = cluster[e].destinations
      BY <1>1 DEF ClusterTypes
    <2>3. /\ cluster' \in [Egress -> ClusterTypes]
          /\ \A x \in Egress : cluster'[x].destinations = cluster[x].destinations
      BY <1>1, <2>1, <2>2
    <2>4. TypeOK'
      BY <1>1, <2>1, <2>3 DEF TypeOK, ClusterTypes
    <2> QED
      BY <2>1, <2>3, <2>4, ApiKeeps, PodTypes DEF ClientInv, TypeOK
  <1>5. ASSUME DeleteEgress(e)
        PROVE  ClientInv'
    <2> DEFINE c == [destinations |-> None,
                     svc |-> IF cluster[e].svc = "own" THEN "old" ELSE cluster[e].svc]
    <2>1. /\ cluster' = [cluster EXCEPT ![e] = c]
          /\ lost' = lost \cup {e} /\ deletes' = deletes + 1
          /\ UNCHANGED <<pod, fou, links, rules, routes, att, result, faults>>
      BY <1>5 DEF DeleteEgress, Delete, netns
    <2>2. c \in ClusterTypes
      BY <1>1 DEF ClusterTypes
    <2> HIDE DEF c
    <2>3. cluster' \in [Egress -> ClusterTypes]
      BY <1>1, <2>1, <2>2
    <2>4. TypeOK'
      BY <1>1, <2>1, <2>3 DEF TypeOK, ClusterTypes
    <2> QED
      BY <2>1, <2>4, ApiKeeps
  <1>6. ASSUME DeleteService(e)
        PROVE  ClientInv'
    <2>1. /\ cluster' = [cluster EXCEPT ![e] = [@ EXCEPT !.svc = "none"]]
          /\ \/ lost' = lost \cup {e} /\ deletes' = deletes + 1
             \/ lost' = lost /\ deletes' = deletes
          /\ UNCHANGED <<pod, fou, links, rules, routes, att, result, faults>>
      BY <1>6 DEF DeleteService, Delete, netns
    <2>2. /\ [cluster[e] EXCEPT !.svc = "none"] \in ClusterTypes
          /\ [cluster[e] EXCEPT !.svc = "none"].destinations = cluster[e].destinations
      BY <1>1 DEF ClusterTypes
    <2>3. /\ cluster' \in [Egress -> ClusterTypes]
          /\ \A x \in Egress : cluster'[x].destinations = cluster[x].destinations
      BY <1>1, <2>1, <2>2
    <2>4. TypeOK'
      BY <1>1, <2>1, <2>3 DEF TypeOK, ClusterTypes
    <2> QED
      BY <2>1, <2>3, <2>4, ApiKeeps, PodTypes DEF ClientInv, TypeOK
  <1> QED
    BY <1>2, <1>3, <1>4, <1>5, <1>6

(***************************************************************************)
(* Attempts begin and end.                                                 *)
(***************************************************************************)
AttTypes == [pc : {"none", "fou", "clear", "rule", "peer", "route"},
             g : Seq(GWNetsRecs), fam : Families, i : Nat, late : BOOLEAN]

\* The API objects stay the same.
LEMMA SameApi ==
    ASSUME UNCHANGED <<pod, cluster>>
    PROVE  /\ Named' = Named /\ local' = local /\ Asked' = Asked
           /\ Demand' = Demand /\ \A e : Networks(e)' = Networks(e)
  <1>1. Named' = Named /\ local' = local /\ Asked' = Asked
    BY SamePod
  <1>2. \A e : Networks(e)' = Networks(e)
    BY DEF Networks
  <1> QED
    BY <1>1, <1>2, SameDemand

\* What an attempt that fails leaves behind is harmless: it is cleared or not
\* used.
LEMMA FailedKeeps ==
    ASSUME ClientInv, TypeOK', UNCHANGED <<pod, cluster, lost, rules, routes>>,
           att' = NoAttempt, result' # "ok"
    PROVE  ClientInv'
  <1>1. att'.pc = "none" /\ att'.g = <<>>
    BY DEF NoAttempt
  <1>2. local' = local /\ Made' = {}
    BY <1>1, SamePod DEF Made
  <1>3. AttemptOK'
    BY <1>1 DEF AttemptOK
  <1>4. NetnsOK'
    <2>1. \A f \in Families \ local : rules'[f] = {} /\ NoRoutes(f)'
      BY DEF ClientInv, NetnsOK, NoRoutes
    <2>2. pod'.hostNetwork => routes' = EmptyRoutes
      BY DEF ClientInv, NetnsOK
    <2> QED
      BY <1>1, <1>2, <2>1, <2>2 DEF NetnsOK
  <1>5. FreshOK'
    <2> SUFFICES ASSUME lost = {}
                 PROVE  FreshOK'
      BY DEF FreshOK
    <2>1. routes # EmptyRoutes => /\ \A e \in Named : cluster[e].destinations # None
                                  /\ \E e \in Named : Networks(e) # <<>>
      BY DEF ClientInv, FreshOK
    <2>2. Named' = Named /\ \A e : Networks(e)' = Networks(e)
      BY SameApi
    <2> QED
      BY <1>1, <2>1, <2>2 DEF FreshOK
  <1> QED
    BY <1>3, <1>4, <1>5 DEF ClientInv

\* An attempt returns an error.
LEMMA ReturnError ==
    ASSUME ClientInv, Return("error"), UNCHANGED <<pod, cluster, lost, deletes, links, rules, routes>>,
           fou' \in {"none", "partial", "done"}, faults' \in Nat, att # NoAttempt \/ Starting
    PROVE  ClientInv'
  <1>1. att' = NoAttempt /\ result' = IF att.late THEN result ELSE "error"
    BY DEF Return
  <1>2. result' \in {"none", "error"}
    <2>1. result \in {"none", "ok", "error"} /\ result # "ok"
      BY DEF ClientInv, TypeOK, AttemptOK, Starting
    <2> QED
      BY <1>1, <2>1
  <1>3. NoAttempt \in AttTypes
    BY DEF NoAttempt, Families, AttTypes
  <1>4. TypeOK'
    BY <1>1, <1>2, <1>3 DEF ClientInv, TypeOK, AttTypes
  <1> QED
    BY <1>1, <1>2, <1>4, FailedKeeps

\* The ways to fail.
LEMMA FailingStep ==
    ASSUME ClientInv, AddRefused \/ FouInitFails \/ RouteExists \/ Fail
    PROVE  ClientInv'
  <1>0. fou \in {"none", "partial", "done"} /\ faults \in Nat
    BY DEF ClientInv, TypeOK
  <1>1. att.pc # "none" => att # NoAttempt
    BY DEF NoAttempt
  <1>2. CASE AddRefused
    BY <1>0, <1>2, ReturnError DEF AddRefused, api, netns
  <1>3. CASE FouInitFails
    BY <1>0, <1>1, <1>3, ReturnError DEF FouInitFails, api, netns
  <1>4. CASE RouteExists
    BY <1>0, <1>1, <1>4, ReturnError DEF RouteExists, api, netns
  <1>5. CASE Fail
    BY <1>0, <1>5, ReturnError DEF Fail, api
  <1> QED
    BY <1>2, <1>3, <1>4, <1>5

\* A new network namespace is empty.
LEMMA NewSandboxStep ==
    ASSUME ClientInv, NewSandbox
    PROVE  ClientInv'
  <1>1. /\ att' = NoAttempt /\ result' = "none" /\ rules' = EmptyRules /\ routes' = EmptyRoutes
        /\ fou' = "none" /\ links' = {}
        /\ UNCHANGED <<pod, cluster, lost, deletes, faults>>
    BY DEF NewSandbox, api
  <1>2. att'.pc = "none" /\ att'.g = <<>>
    BY <1>1 DEF NoAttempt
  <1>3. TypeOK'
    <2>1. NoAttempt \in AttTypes
      BY DEF NoAttempt, Families, AttTypes
    <2>2. EmptyRules \in [Families -> SUBSET RuleRecs]
      BY DEF EmptyRules
    <2>3. EmptyRoutes \in [Families \X Tables -> SUBSET RouteRecs]
      BY DEF EmptyRoutes
    <2> QED
      BY <1>1, <2>1, <2>2, <2>3 DEF ClientInv, TypeOK, AttTypes
  <1>4. AttemptOK'
    BY <1>1, <1>2 DEF AttemptOK
  <1>5. NetnsOK'
    BY <1>1, <1>2 DEF NetnsOK, Made, NoRoutes, EmptyRules, EmptyRoutes
  <1>6. FreshOK'
    BY <1>1, <1>2 DEF FreshOK
  <1> QED
    BY <1>3, <1>4, <1>5, <1>6 DEF ClientInv

\* The handler goes on after the timeout.
LEMMA TimeoutStep ==
    ASSUME ClientInv, Timeout
    PROVE  ClientInv'
  <1>1. /\ att' = [att EXCEPT !.late = TRUE] /\ result' = "error"
        /\ att # NoAttempt /\ faults' = faults + 1
        /\ UNCHANGED <<pod, cluster, lost, deletes, fou, links, rules, routes>>
    BY DEF Timeout, api, netns
  <1>2. /\ att \in AttTypes /\ att.pc # "none"
    BY <1>1 DEF ClientInv, TypeOK, AttemptOK, AttTypes
  <1>3. /\ att' \in AttTypes
        /\ att'.pc = att.pc /\ att'.g = att.g /\ att'.fam = att.fam /\ att'.i = att.i
    BY <1>1, <1>2 DEF AttTypes
  <1>4. TypeOK'
    BY <1>1, <1>3 DEF ClientInv, TypeOK, AttTypes
  <1>5. /\ Named' = Named /\ local' = local /\ Asked' = Asked
        /\ Demand' = Demand /\ \A e : Networks(e)' = Networks(e)
    BY <1>1, SameApi
  <1>6. AttemptOK'
    BY <1>1, <1>2, <1>3, <1>5 DEF ClientInv, AttemptOK
  <1>7. NetnsOK'
    <2>1. Made' = Made
      BY <1>3, <1>5 DEF Made
    <2>2. \A f : NoRoutes(f)' = NoRoutes(f)
      BY <1>1 DEF NoRoutes
    <2> QED
      BY <1>1, <1>3, <1>5, <2>1, <2>2 DEF ClientInv, NetnsOK, NoRoutes
  <1>8. FreshOK'
    <2>1. \A d : IsRouted(d)' = IsRouted(d) /\ Pending(d)' = Pending(d)
      BY <1>1, <1>3 DEF IsRouted, Pending, Route, KeyOf
    <2>2. Sound' = Sound
      BY <1>1, <1>5 DEF Sound, KeyOf, Route
    <2> QED
      BY <1>1, <1>2, <1>3, <1>5, <2>1, <2>2 DEF ClientInv, FreshOK
  <1> QED
    BY <1>4, <1>6, <1>7, <1>8 DEF ClientInv

\* Nothing to set up: there is no demand then, and no route is left over.
LEMMA AddNothingStep ==
    ASSUME ClientInv, AddNothing
    PROVE  ClientInv'
  <1>1. /\ att = NoAttempt /\ att' = NoAttempt /\ result' = "ok"
        /\ UNCHANGED <<pod, cluster, deletes, fou, links, rules, routes, faults>>
        /\ lost' = (IF routes = EmptyRoutes THEN {} ELSE lost)
                   \cup {e \in Named : cluster[e].svc = "old"}
    BY DEF AddNothing, Starting, Return, Read, netns, NoAttempt
  <1>2. att.pc = "none" /\ att.g = <<>> /\ att' = att
    BY <1>1 DEF NoAttempt
  <1>3. Named \subseteq Egress /\ Asked \subseteq Named
    BY PodTypes DEF ClientInv, TypeOK
  <1>4. TypeOK'
    BY <1>1, <1>2, <1>3 DEF ClientInv, TypeOK
  <1>5. /\ Named' = Named /\ local' = local /\ Asked' = Asked
        /\ Demand' = Demand /\ \A e : Networks(e)' = Networks(e)
    BY <1>1, SameApi
  <1>6. AttemptOK'
    BY <1>1, <1>2 DEF AttemptOK
  <1>7. NetnsOK'
    <2>1. Made' = Made
      BY <1>2, <1>5 DEF Made
    <2>2. \A f : NoRoutes(f)' = NoRoutes(f)
      BY <1>1 DEF NoRoutes
    <2> QED
      BY <1>1, <1>2, <1>5, <2>1, <2>2 DEF ClientInv, NetnsOK, NoRoutes
  <1>8. \/ pod.hostNetwork
        \/ /\ \A e \in Named : cluster[e].destinations # None
           /\ \A e \in Named : Networks(e) = <<>>
    <2> SUFFICES ASSUME ~ pod.hostNetwork
                 PROVE  /\ \A e \in Named : cluster[e].destinations # None
                        /\ \A e \in Named : Networks(e) = <<>>
      OBVIOUS
    <2>1. PICK names \in EgNames : Ready /\ GWNets(names) = <<>>
      BY DEF AddNothing
    <2>2. \A e \in Named : cluster[e].destinations # None
      BY <2>1 DEF Ready, Present
    <2>3. \A e \in Named : cluster[e].destinations \in Destinations
      BY <1>3, <2>2 DEF ClientInv, TypeOK
    <2>4. DOMAIN GWNets(names) = {}
      BY <2>1
    <2> QED
      BY <2>2, <2>3, <2>4, GWNetsList DEF ClientInv, TypeOK
  <1>9. FreshOK'
    <2> SUFFICES ASSUME lost' = {}
                 PROVE  FreshOK'
      BY DEF FreshOK
    <2>1. routes = EmptyRoutes
      <3> SUFFICES ASSUME routes # EmptyRoutes
                   PROVE  FALSE
        OBVIOUS
      <3>1. lost = {}
        BY <1>1
      <3>2. ~ pod.hostNetwork
        BY DEF ClientInv, NetnsOK
      <3> QED
        BY <1>8, <3>1, <3>2 DEF ClientInv, FreshOK
    <2>2. Demand = {}
      <3>1. \A e \in Asked : Networks(e) = <<>>
        BY <1>3, <1>8 DEF Asked
      <3>2. ToSet(<<>>) = {}
        BY DEF ToSet
      <3> QED
        BY <3>1, <3>2 DEF Demand
    <2>3. Sound'
      BY <1>1, <2>1 DEF Sound, EmptyRoutes
    <2>4. \A e \in Asked : cluster[e].destinations # None
      BY <1>3, <1>8 DEF Asked
    <2> QED
      BY <1>1, <1>2, <1>5, <2>1, <2>2, <2>3, <2>4 DEF FreshOK
  <1> QED
    BY <1>4, <1>6, <1>7, <1>9 DEF ClientInv

\* A new attempt has all of the demand before it.
LEMMA AddStep ==
    ASSUME ClientInv, Add
    PROVE  ClientInv'
  <1>1. PICK names \in EgNames :
           /\ GWNets(names) # <<>>
           /\ att' = [NoAttempt EXCEPT !.pc = "fou", !.g = GWNets(names)]
    BY DEF Add
  <1>2. /\ att = NoAttempt /\ ~ pod.hostNetwork /\ result' = "none"
        /\ lost' = {e \in Named : cluster[e].svc = "old"}
        /\ UNCHANGED <<pod, cluster, deletes, fou, links, rules, routes, faults>>
        /\ \A e \in Named : cluster[e].destinations # None
    BY DEF Add, Starting, Read, Ready, Present, netns
  <1>3. Named \subseteq Egress /\ Asked \subseteq Named /\ pod \in Pods
    BY PodTypes DEF ClientInv, TypeOK
  <1>4. \A e \in Named : cluster[e].destinations \in Destinations
    BY <1>2, <1>3 DEF ClientInv, TypeOK
  <1>0. PICK g : g = GWNets(names)
    OBVIOUS
  <1>5. /\ g \in Seq(GWNetsRecs)
        /\ \A j \in DOMAIN g : g[j].gw \in Named /\ g[j].nets = Networks(g[j].gw) /\ g[j].nets # <<>>
        /\ \A e \in Named : Networks(e) # <<>> => \E j \in DOMAIN g : g[j].gw = e
    BY <1>0, <1>3, <1>4, GWNetsList
  <1>6. att' = [pc |-> "fou", g |-> g, fam |-> 4, i |-> 1, late |-> FALSE]
    BY <1>0, <1>1 DEF NoAttempt
  <1>7. att'.pc = "fou" /\ att'.g = g /\ att' \in AttTypes
    BY <1>5, <1>6 DEF AttTypes, Families
  <1>8. TypeOK'
    BY <1>2, <1>3, <1>7 DEF ClientInv, TypeOK, AttTypes
  <1>9. /\ Named' = Named /\ local' = local /\ Asked' = Asked
        /\ Demand' = Demand /\ \A e : Networks(e)' = Networks(e)
    BY <1>2, SameApi
  <1>10. \A e \in Named : /\ Networks(e) \in Seq(Nets)
                          /\ \A n \in ToSet(Networks(e)) : Family[n.ip] = Gateway[e]
    BY <1>3, <1>4, NetworksList
  <1>11. AttemptOK'
    <2>1. ASSUME NEW j \in DOMAIN g, NEW k \in DOMAIN g[j].nets
          PROVE  Family[g[j].nets[k].ip] = Gateway[g[j].gw]
      <3>1. g[j].gw \in Named /\ g[j].nets[k] \in ToSet(Networks(g[j].gw))
        BY <1>5, <2>1 DEF ToSet
      <3> QED
        BY <1>10, <3>1
    <2> QED
      BY <1>2, <1>5, <1>7, <2>1 DEF AttemptOK
  <1>12. NetnsOK'
    <2>1. Made' = {}
      BY <1>7 DEF Made
    <2>2. \A f : NoRoutes(f)' = NoRoutes(f)
      BY <1>2 DEF NoRoutes
    <2> QED
      BY <1>2, <1>7, <1>9, <2>1, <2>2 DEF ClientInv, NetnsOK, NoRoutes
  <1>13. FreshOK'
    <2>1. \E e \in Named : Networks(e) # <<>>
      <3>1. PICK j \in DOMAIN g : TRUE
        BY <1>0, <1>1, <1>5
      <3> QED
        BY <1>5, <3>1
    <2>2. ASSUME NEW d \in Demand
          PROVE  Pending(d)'
      <3>1. PICK e \in Asked : \E n \in ToSet(Networks(e)) : d = <<e, n>>
        BY DEF Demand
      <3>2. PICK n \in ToSet(Networks(e)) : d = <<e, n>>
        BY <3>1
      <3>3. e \in Named /\ Networks(e) # <<>>
        BY <1>3, <1>10, <3>1, <3>2, NotEmptyList
      <3>4. PICK j \in DOMAIN g : g[j].gw = e /\ g[j].nets = Networks(e)
        BY <1>5, <3>3
      <3>5. PICK k \in DOMAIN g[j].nets : g[j].nets[k] = n
        BY <3>2, <3>4 DEF ToSet
      <3> QED
        BY <1>7, <3>2, <3>4, <3>5 DEF Pending
    <2>3. \A j \in DOMAIN g : g[j].gw \in Named /\ g[j].nets = Networks(g[j].gw)'
      <3> SUFFICES ASSUME NEW j \in DOMAIN g
                   PROVE  g[j].gw \in Named /\ g[j].nets = Networks(g[j].gw)'
        OBVIOUS
      <3>1. PICK e \in Named : g[j].gw = e /\ g[j].nets = Networks(e)
        BY <1>5
      <3> QED
        BY <1>9, <3>1
    <2> QED
      BY <1>2, <1>7, <1>9, <2>1, <2>2, <2>3 DEF FreshOK
  <1> QED
    BY <1>8, <1>11, <1>12, <1>13 DEF ClientInv

\* The attempt has come to the end of its gateways: all of the demand is routed.
LEMMA AddDoneStep ==
    ASSUME ClientInv, AddDone
    PROVE  ClientInv'
  <1>1. /\ att.pc = "peer" /\ att.g = <<>> /\ att' = NoAttempt
        /\ result' = IF att.late THEN result ELSE "ok"
        /\ UNCHANGED <<pod, cluster, lost, deletes, fou, links, rules, routes, faults>>
    BY DEF AddDone, Return, api, netns
  <1>2. result # "ok" /\ result \in {"none", "ok", "error"}
    BY <1>1 DEF ClientInv, TypeOK, AttemptOK
  <1>3. TypeOK'
    <2>1. NoAttempt \in AttTypes /\ result' \in {"none", "ok", "error"}
      BY <1>1, <1>2 DEF NoAttempt, Families, AttTypes
    <2> QED
      BY <1>1, <2>1 DEF ClientInv, TypeOK, AttTypes
  <1>4. CASE result' # "ok"
    BY <1>1, <1>3, <1>4, FailedKeeps
  <1>5. CASE result' = "ok"
    <2>1. att'.pc = "none" /\ att'.g = <<>>
      BY <1>1 DEF NoAttempt
    <2>2. AttemptOK'
      BY <1>1, <2>1 DEF AttemptOK
    <2>3. /\ Named' = Named /\ local' = local /\ Asked' = Asked
          /\ Demand' = Demand /\ \A e : Networks(e)' = Networks(e)
      BY <1>1, SameApi
    <2>4. NetnsOK'
      <3>1. Made' = {}
        BY <2>1 DEF Made
      <3>2. \A f : NoRoutes(f)' = NoRoutes(f)
        BY <1>1 DEF NoRoutes
      <3> QED
        BY <1>1, <2>1, <2>3, <3>1, <3>2 DEF ClientInv, NetnsOK, NoRoutes
    <2>5. FreshOK'
      <3> SUFFICES ASSUME lost = {}
                   PROVE  FreshOK'
        BY <1>1 DEF FreshOK
      <3>1. \A d : ~ Pending(d)
        BY <1>1 DEF Pending
      <3>2. Sound /\ \A d \in Demand : IsRouted(d)
        BY <1>1, <3>1 DEF ClientInv, FreshOK
      <3>3. Sound' = Sound /\ \A d : IsRouted(d)' = IsRouted(d)
        BY <1>1, <2>3 DEF Sound, IsRouted, Route, KeyOf
      <3>4. Made = local
        BY <1>1 DEF Made
      <3>5. \A f \in local : rules[f] = ToSet(NewRules(f))
        BY <3>4 DEF ClientInv, NetnsOK
      <3>6. /\ \A e \in Named : cluster[e].destinations # None
            /\ \E e \in Named : Networks(e) # <<>>
        BY <1>1 DEF ClientInv, FreshOK
      <3>7. Asked \subseteq Named
        BY PodTypes DEF ClientInv, TypeOK
      <3> QED
        BY <1>1, <1>5, <2>1, <2>3, <3>2, <3>3, <3>5, <3>6, <3>7 DEF FreshOK
    <2> QED
      BY <1>3, <2>2, <2>4, <2>5 DEF ClientInv
  <1> QED
    BY <1>4, <1>5

(***************************************************************************)
(* The handler: FoUTunnel.Init and NatClient.Init.                         *)
(***************************************************************************)

\* The next family of Clear.
LEMMA ClearNext ==
    ASSUME att \in AttTypes, NEW fams, fams \subseteq Families
    PROVE  /\ Clear(fams) \in AttTypes /\ Clear(fams).g = att.g
           /\ fams = {} => Clear(fams).pc = "peer"
           /\ fams # {} => /\ Clear(fams).pc = "clear" /\ Clear(fams).i = 1
                           /\ Clear(fams).fam \in fams
                           /\ \A f \in fams : ~ (f < Clear(fams).fam)
  <1>1. CASE fams = {}
    BY <1>1 DEF Clear, AttTypes
  <1>2. CASE fams # {}
    <2> DEFINE f0 == IF 4 \in fams THEN 4 ELSE 6
    <2>1. f0 \in fams /\ f0 \in Families /\ \A f \in fams : ~ (f < f0)
      <3>1. \A f \in fams : f = 4 \/ f = 6
        BY DEF Families
      <3>2. CASE 4 \in fams
        BY <3>1, <3>2 DEF Families
      <3>3. CASE 4 \notin fams
        <4>1. 6 \in fams /\ \A f \in fams : f = 6
          BY <1>2, <3>1, <3>3
        <4> QED
          BY <3>3, <4>1 DEF Families
      <3> QED
        BY <3>2, <3>3
    <2>2. Clear(fams) = [att EXCEPT !.pc = "clear", !.fam = f0, !.i = 1]
      BY <1>2 DEF Clear
    <2> HIDE DEF f0
    <2>3. Clear(fams) = [pc |-> "clear", g |-> att.g, fam |-> f0, i |-> 1, late |-> att.late]
      BY <2>2 DEF AttTypes
    <2>4. Clear(fams) \in AttTypes
      BY <2>1, <2>3 DEF AttTypes
    <2> QED
      BY <1>2, <2>1, <2>3, <2>4
  <1> QED
    BY <1>1, <1>2

\* Until the loop over the gateways all of the demand is pending.
LEMMA EarlyFresh ==
    ASSUME ClientInv, UNCHANGED <<pod, cluster, lost, result>>,
           att.pc \in {"fou", "clear", "rule"}, att'.g = att.g,
           \/ att'.pc \in {"fou", "clear", "rule"}
           \/ att'.pc = "peer" /\ \A k \in Families \X Tables : routes'[k] = {}
    PROVE  FreshOK'
  <1> SUFFICES ASSUME lost = {}
               PROVE  FreshOK'
    BY DEF FreshOK
  <1>1. /\ \A e \in Named : cluster[e].destinations # None
        /\ \E e \in Named : Networks(e) # <<>>
        /\ \A j \in DOMAIN att.g :
              att.g[j].gw \in Named /\ att.g[j].nets = Networks(att.g[j].gw)
        /\ \A d \in Demand : Pending(d)
        /\ result # "ok"
    BY DEF ClientInv, FreshOK, AttemptOK
  <1>2. /\ Named' = Named /\ local' = local /\ Asked' = Asked
        /\ Demand' = Demand /\ \A e : Networks(e)' = Networks(e)
    BY SameApi
  <1>3. \A d \in Demand' : Pending(d)'
    <2> SUFFICES ASSUME NEW d \in Demand
                 PROVE  Pending(d)'
      BY <1>2
    <2>1. Pending(d)
      BY <1>1
    <2>2. att'.pc # "route"
      OBVIOUS
    <2> QED
      BY <2>1, <2>2 DEF Pending
  <1>4. att'.pc = "peer" => Sound'
    BY DEF Sound
  <1>5. \A j \in DOMAIN att'.g : att'.g[j].gw \in Named' /\ att'.g[j].nets = Networks(att.g[j].gw)'
    <2> SUFFICES ASSUME NEW j \in DOMAIN att.g
                 PROVE  att'.g[j].gw \in Named' /\ att'.g[j].nets = Networks(att.g[j].gw)'
      OBVIOUS
    <2>1. PICK e \in Named : att.g[j].gw = e /\ att.g[j].nets = Networks(e)
      BY <1>1
    <2>2. att'.g[j].gw = e
      BY <2>1
    <2> QED
      BY <1>2, <2>1, <2>2
  <1> QED
    BY <1>1, <1>2, <1>3, <1>4, <1>5 DEF FreshOK

\* What AttemptOK says of the gateways that are left.
GatewaysOK ==
    \A j \in DOMAIN att.g :
          /\ att.g[j].nets # <<>>
          /\ \A k \in DOMAIN att.g[j].nets : Family[att.g[j].nets[k].ip] = Gateway[att.g[j].gw]

\* NatClient.Init begins with the first family of the pod.
LEMMA FouInitStep ==
    ASSUME ClientInv, FouInit
    PROVE  ClientInv'
  <1>1. /\ att.pc = "fou" /\ fou' = "done" /\ att' = Clear(local)
        /\ UNCHANGED <<pod, cluster, lost, deletes, links, rules, routes, result, faults>>
    BY DEF FouInit, api
  <1>2. att \in AttTypes /\ pod \in Pods /\ local \subseteq Families
    BY PodTypes DEF ClientInv, TypeOK, AttTypes
  <1>3. /\ att' \in AttTypes /\ att'.g = att.g
        /\ local = {} => att'.pc = "peer"
        /\ local # {} => /\ att'.pc = "clear" /\ att'.i = 1 /\ att'.fam \in local
                         /\ \A f \in local : ~ (f < att'.fam)
    BY <1>1, <1>2, ClearNext
  <1>4. TypeOK'
    BY <1>1, <1>3 DEF ClientInv, TypeOK, AttTypes
  <1>5. local' = local
    BY <1>1, SamePod
  <1>6. AttemptOK'
    BY <1>1, <1>3, <1>5 DEF ClientInv, AttemptOK
  <1>7. Made' = {}
    BY <1>3, <1>5 DEF Made
  <1>8. NetnsOK'
    <2>1. \A f : NoRoutes(f)' = NoRoutes(f)
      BY <1>1 DEF NoRoutes
    <2> QED
      BY <1>1, <1>3, <1>5, <1>7, <2>1 DEF ClientInv, NetnsOK, NoRoutes
  <1>9. local = {} => \A k \in Families \X Tables : routes'[k] = {}
    BY <1>1 DEF ClientInv, NetnsOK, NoRoutes
  <1>10. FreshOK'
    BY <1>1, <1>3, <1>9, EarlyFresh
  <1> QED
    BY <1>4, <1>6, <1>8, <1>10 DEF ClientInv

\* clear touches no family that the attempt is done with.
LEMMA ClearRuleStep ==
    ASSUME ClientInv, ClearRule
    PROVE  ClientInv'
  <1>1. PICK r : rules' = [rules EXCEPT ![att.fam] = @ \ {r}]
    BY DEF ClearRule
  <1>2. /\ att.pc = "clear"
        /\ UNCHANGED <<pod, cluster, lost, deletes, fou, links, routes, att, result, faults>>
    BY DEF ClearRule, api
  <1>3. /\ att.fam \in local /\ local \subseteq Families /\ att.fam \in Nat
        /\ rules \in [Families -> SUBSET RuleRecs]
    BY <1>2, PodTypes DEF ClientInv, TypeOK, AttemptOK, Families
  <1>4. rules' \in [Families -> SUBSET RuleRecs] /\ \A f \in Families : f # att.fam => rules'[f] = rules[f]
    BY <1>1, <1>3
  <1>5. TypeOK'
    BY <1>2, <1>4 DEF ClientInv, TypeOK
  <1>6. local' = local
    BY <1>2, SamePod
  <1>7. AttemptOK'
    BY <1>2, <1>6 DEF ClientInv, AttemptOK
  <1>8. Made' = Made /\ Made \subseteq Families /\ att.fam \notin Made
    BY <1>2, <1>3, <1>6 DEF Made
  <1>9. NetnsOK'
    <2>1. \A f : NoRoutes(f)' = NoRoutes(f)
      BY <1>2 DEF NoRoutes
    <2> QED
      BY <1>2, <1>3, <1>4, <1>6, <1>8, <2>1 DEF ClientInv, NetnsOK, NoRoutes
  <1>10. FreshOK'
    BY <1>2, EarlyFresh
  <1> QED
    BY <1>5, <1>7, <1>9, <1>10 DEF ClientInv

\* The same for the routes.
LEMMA ClearRouteStep ==
    ASSUME ClientInv, ClearRoute
    PROVE  ClientInv'
  <1>0. PICK t \in Tables : \E r : routes' = [routes EXCEPT ![<<att.fam, t>>] = @ \ {r}]
    BY DEF ClearRoute
  <1>1. PICK r : routes' = [routes EXCEPT ![<<att.fam, t>>] = @ \ {r}]
    BY <1>0
  <1>2. /\ att.pc = "clear"
        /\ UNCHANGED <<pod, cluster, lost, deletes, fou, links, rules, att, result, faults>>
    BY DEF ClearRoute, api
  <1>3. /\ att.fam \in local /\ local \subseteq Families /\ att.fam \in Nat
        /\ routes \in [Families \X Tables -> SUBSET RouteRecs]
        /\ ~ pod.hostNetwork
    BY <1>2, PodTypes DEF ClientInv, TypeOK, AttemptOK, Families
  <1>4. /\ routes' \in [Families \X Tables -> SUBSET RouteRecs]
        /\ \A f \in Families : f # att.fam => \A u \in Tables : routes'[<<f, u>>] = routes[<<f, u>>]
    BY <1>1, <1>3
  <1>5. TypeOK'
    BY <1>2, <1>4 DEF ClientInv, TypeOK
  <1>6. local' = local
    BY <1>2, SamePod
  <1>7. AttemptOK'
    BY <1>2, <1>6 DEF ClientInv, AttemptOK
  <1>8. Made' = Made /\ Made \subseteq Families /\ att.fam \notin Made
    BY <1>2, <1>3, <1>6 DEF Made
  <1>9. \A f \in Families : f # att.fam => NoRoutes(f)' = NoRoutes(f)
    BY <1>4 DEF NoRoutes
  <1>10. NetnsOK'
    BY <1>2, <1>3, <1>6, <1>8, <1>9 DEF ClientInv, NetnsOK
  <1>11. FreshOK'
    BY <1>2, EarlyFresh
  <1> QED
    BY <1>5, <1>7, <1>10, <1>11 DEF ClientInv

\* The family is empty, and its first rule is next.
LEMMA ClearedStep ==
    ASSUME ClientInv, Cleared
    PROVE  ClientInv'
  <1>1. /\ att.pc = "clear" /\ rules[att.fam] = {} /\ NoRoutes(att.fam)
        /\ att' = [att EXCEPT !.pc = "rule"]
        /\ UNCHANGED <<pod, cluster, lost, deletes, fou, links, rules, routes, result, faults>>
    BY DEF Cleared, NoRoutes, api, netns
  <1>2. /\ att.fam \in local /\ local \subseteq Families /\ att.i = 1 /\ att \in AttTypes
        /\ ~ pod.hostNetwork /\ result # "ok"
    BY <1>1, PodTypes DEF ClientInv, TypeOK, AttemptOK, AttTypes
  <1>3. /\ att' \in AttTypes /\ att'.g = att.g /\ att'.pc = "rule" /\ att'.i = 1
        /\ att'.fam = att.fam
    BY <1>1, <1>2 DEF AttTypes
  <1>4. TypeOK'
    BY <1>1, <1>3 DEF ClientInv, TypeOK, AttTypes
  <1>5. local' = local
    BY <1>1, SamePod
  <1>6. 1 \in DOMAIN NewRules(att.fam)
    BY <1>2, RulesList
  <1>7. AttemptOK'
    <2>1. (att.i \in DOMAIN NewRules(att.fam))'
      BY <1>3, <1>6
    <2>2. GatewaysOK'
      BY <1>3 DEF ClientInv, AttemptOK, GatewaysOK
    <2> QED
      BY <1>1, <1>2, <1>3, <1>5, <2>1, <2>2 DEF AttemptOK, GatewaysOK
  <1>8. Made' = Made
    BY <1>1, <1>3, <1>5 DEF Made
  <1>9. NetnsOK'
    <2>1. \A f : NoRoutes(f)' = NoRoutes(f)
      BY <1>1 DEF NoRoutes
    <2>2. {NewRules(att.fam)[j] : j \in 1..(1 - 1)} = {}
      OBVIOUS
    <2> QED
      BY <1>1, <1>2, <1>3, <1>5, <1>8, <2>1, <2>2 DEF ClientInv, NetnsOK, NoRoutes
  <1>10. FreshOK'
    BY <1>1, <1>3, EarlyFresh
  <1> QED
    BY <1>4, <1>7, <1>9, <1>10 DEF ClientInv

\* After the last rule the family is done; after the last family no routes are
\* left from earlier attempts.
LEMMA RuleAddStep ==
    ASSUME ClientInv, RuleAdd
    PROVE  ClientInv'
  <1>1. PICK f0 : f0 = att.fam
    OBVIOUS
  <1> DEFINE n    == Len(NewRules(f0))
             new  == NewRules(f0)[att.i]
             more == {f \in local : f > f0}
  <1>2. /\ att.pc = "rule"
        /\ rules' = [rules EXCEPT ![f0] = @ \cup {new}]
        /\ att' = IF att.i < n THEN [att EXCEPT !.i = @ + 1] ELSE Clear(more)
        /\ UNCHANGED <<pod, cluster, lost, deletes, fou, links, routes, result, faults>>
    BY <1>1 DEF RuleAdd, api
  <1>3. /\ f0 \in local /\ f0 \in Families /\ local \subseteq Families
        /\ att \in AttTypes /\ att.i \in DOMAIN NewRules(f0)
        /\ rules \in [Families -> SUBSET RuleRecs]
        /\ ~ pod.hostNetwork /\ result # "ok"
        /\ \A f \in Families : f \in Nat
    BY <1>1, <1>2, PodTypes DEF ClientInv, TypeOK, AttemptOK, AttTypes, Families
  <1>4. /\ NewRules(f0) \in Seq(RuleRecs) /\ DOMAIN NewRules(f0) = 1..n /\ n \in Nat
        /\ ToSet(NewRules(f0)) = {NewRules(f0)[j] : j \in 1..n}
    BY <1>3, RulesList DEF ToSet
  <1>5. att.i \in 1..n /\ att.i \in Nat /\ new \in RuleRecs
    BY <1>3, <1>4
  <1>6. /\ rules' \in [Families -> SUBSET RuleRecs]
        /\ rules'[f0] = rules[f0] \cup {new}
        /\ \A f \in Families : f # f0 => rules'[f] = rules[f]
    BY <1>2, <1>3, <1>5
  <1>7. rules'[f0] = {NewRules(f0)[j] : j \in 1..att.i}
    <2>1. rules[f0] = {NewRules(f0)[j] : j \in 1..(att.i - 1)}
      BY <1>1, <1>2 DEF ClientInv, NetnsOK
    <2>2. 1..att.i = 1..(att.i - 1) \cup {att.i}
      BY <1>5
    <2> QED
      BY <1>6, <2>1, <2>2
  <1>8. local' = local /\ \A f : NoRoutes(f)' = NoRoutes(f)
    BY <1>2, SamePod DEF NoRoutes
  <1>9. GatewaysOK
    BY DEF ClientInv, AttemptOK, GatewaysOK
  <1>10. /\ Made = {f \in local : f < f0} /\ NoRoutes(f0)
         /\ \A f \in Made : rules[f] = ToSet(NewRules(f)) /\ NoRoutes(f)
         /\ \A f \in Families \ local : rules[f] = {} /\ NoRoutes(f)
    BY <1>1, <1>2 DEF ClientInv, NetnsOK, Made
  <1> HIDE DEF n, new
  <1>11. CASE att.i < n
    <2>1. /\ att' \in AttTypes /\ att'.pc = "rule" /\ att'.g = att.g /\ att'.fam = f0
          /\ att'.i = att.i + 1
      BY <1>1, <1>2, <1>3, <1>5, <1>11 DEF AttTypes
    <2>2. att'.i \in DOMAIN NewRules(f0) /\ att'.i - 1 = att.i
      BY <1>4, <1>5, <1>11, <2>1
    <2>3. TypeOK'
      BY <1>2, <1>6, <2>1 DEF ClientInv, TypeOK, AttTypes
    <2>4. AttemptOK'
      <3>1. GatewaysOK'
        BY <1>9, <2>1 DEF GatewaysOK
      <3> QED
        BY <1>2, <1>3, <1>8, <2>1, <2>2, <3>1 DEF AttemptOK, GatewaysOK
    <2>5. NetnsOK'
      <3>1. Made' = Made
        BY <1>8, <1>10, <2>1 DEF Made
      <3>2. \A f \in Made : f # f0 /\ f \in Families
        BY <1>3, <1>10
      <3>3. \A f \in Made' : rules'[f] = ToSet(NewRules(f)) /\ NoRoutes(f)'
        BY <1>6, <1>8, <1>10, <3>1, <3>2
      <3>4. \A f \in Families \ local' : rules'[f] = {} /\ NoRoutes(f)'
        BY <1>3, <1>6, <1>8, <1>10
      <3>5. (rules[att.fam] = {NewRules(att.fam)[j] : j \in 1..(att.i - 1)})' /\ NoRoutes(att.fam)'
        BY <1>7, <1>8, <1>10, <2>1, <2>2
      <3> QED
        BY <1>2, <1>3, <2>1, <3>3, <3>4, <3>5 DEF NetnsOK
    <2>6. FreshOK'
      BY <1>2, <2>1, EarlyFresh
    <2> QED
      BY <2>3, <2>4, <2>5, <2>6 DEF ClientInv
  <1>12. CASE ~ (att.i < n)
    <2>1. att.i = n /\ rules'[f0] = ToSet(NewRules(f0))
      BY <1>4, <1>5, <1>7, <1>12
    <2>2. more \subseteq Families
      BY <1>3
    <2>3. /\ att' \in AttTypes /\ att'.g = att.g
          /\ more = {} => att'.pc = "peer"
          /\ more # {} => /\ att'.pc = "clear" /\ att'.i = 1
                          /\ att'.fam \in more /\ \A f \in more : ~ (f < att'.fam)
      <3> HIDE DEF more
      <3> QED
        BY <1>2, <1>3, <1>12, <2>2, ClearNext
    <2>4. Made' = Made \cup {f0}
      <3>1. CASE more = {}
        <4>1. \A f \in local : f < f0 \/ f = f0
          BY <1>3, <3>1
        <4> QED
          BY <1>3, <1>8, <1>10, <2>3, <3>1, <4>1 DEF Made
      <3>2. CASE more # {}
        <4>1. att'.fam \in Nat /\ att'.fam > f0 /\ f0 \in Nat
          BY <1>3, <2>3, <3>2
        <4>2. \A f \in local : f < att'.fam <=> f < f0 \/ f = f0
          <5> SUFFICES ASSUME NEW f \in local
                       PROVE  f < att'.fam <=> f < f0 \/ f = f0
            OBVIOUS
          <5>1. f \in Nat
            BY <1>3
          <5>2. f > f0 => ~ (f < att'.fam)
            BY <2>3, <3>2
          <5> QED
            BY <4>1, <5>1, <5>2
        <4>3. Made' = {f \in local : f < att'.fam}
          BY <1>8, <2>3, <3>2 DEF Made
        <4> QED
          BY <1>3, <1>10, <4>2, <4>3
      <3> QED
        BY <3>1, <3>2
    <2>5. TypeOK'
      BY <1>2, <1>6, <2>3 DEF ClientInv, TypeOK, AttTypes
    <2>6. AttemptOK'
      <3>1. GatewaysOK'
        BY <1>9, <2>3 DEF GatewaysOK
      <3> QED
        BY <1>2, <1>3, <1>8, <2>3, <3>1 DEF AttemptOK, GatewaysOK
    <2>7. \A f \in Made' : rules'[f] = ToSet(NewRules(f)) /\ NoRoutes(f)'
      <3>1. \A f \in Made : f # f0 /\ f \in Families
        BY <1>3, <1>10
      <3> QED
        BY <1>6, <1>8, <1>10, <2>1, <2>4, <3>1
    <2>8. NetnsOK'
      <3>1. \A f \in Families \ local' : rules'[f] = {} /\ NoRoutes(f)'
        BY <1>3, <1>6, <1>8, <1>10
      <3> QED
        BY <1>2, <1>3, <2>3, <2>7, <3>1 DEF NetnsOK
    <2>9. more = {} => \A k \in Families \X Tables : routes'[k] = {}
      <3> SUFFICES ASSUME more = {}
                   PROVE  \A k \in Families \X Tables : routes'[k] = {}
        OBVIOUS
      <3>1. local \subseteq Made'
        BY <1>8, <2>3 DEF Made
      <3>2. \A f \in Families : NoRoutes(f)'
        BY <1>8, <1>10, <2>7, <3>1
      <3> QED
        BY <3>2 DEF NoRoutes
    <2>10. FreshOK'
      BY <1>2, <2>3, <2>9, EarlyFresh
    <2> QED
      BY <2>5, <2>6, <2>8, <2>10 DEF ClientInv
  <1> QED
    BY <1>11, <1>12

(***************************************************************************)
(* The handler: the loop over the gateways.                                *)
(***************************************************************************)

\* The head and the tail of a list.
LEMMA TailList ==
    ASSUME NEW X, NEW s \in Seq(X), s # <<>>
    PROVE  /\ Tail(s) \in Seq(X) /\ Head(s) = s[1] /\ 1 \in DOMAIN s
           /\ \A j \in DOMAIN Tail(s) : j + 1 \in DOMAIN s /\ Tail(s)[j] = s[j + 1]
           /\ \A j \in DOMAIN s : j # 1 => j - 1 \in DOMAIN Tail(s) /\ Tail(s)[j - 1] = s[j]
  <1>1. Len(s) \in Nat /\ Len(s) # 0 /\ DOMAIN s = 1..Len(s)
    OBVIOUS
  <1>2. /\ Tail(s) \in Seq(X) /\ Head(s) = s[1] /\ Len(Tail(s)) = Len(s) - 1
        /\ DOMAIN Tail(s) = 1..(Len(s) - 1)
        /\ \A j \in 1..(Len(s) - 1) : Tail(s)[j] = s[j + 1]
    OBVIOUS
  <1>3. 1 \in DOMAIN s
    BY <1>1
  <1>4. ASSUME NEW j \in DOMAIN Tail(s)
        PROVE  j + 1 \in DOMAIN s /\ Tail(s)[j] = s[j + 1]
    BY <1>1, <1>2
  <1>5. ASSUME NEW j \in DOMAIN s, j # 1
        PROVE  j - 1 \in DOMAIN Tail(s) /\ Tail(s)[j - 1] = s[j]
    <2>1. j - 1 \in 1..(Len(s) - 1) /\ (j - 1) + 1 = j
      BY <1>1, <1>5
    <2> QED
      BY <1>2, <2>1
  <1> QED
    BY <1>2, <1>3, <1>4, <1>5

\* What the steps of the loop have in common: the rules are made, the routes
\* grow by routes of the demand, and what was pending is pending or routed.
LEMMA LoopKeeps ==
    ASSUME ClientInv, TypeOK', AttemptOK',
           UNCHANGED <<pod, cluster, lost, rules, result>>,
           att.pc \in {"peer", "route"}, att'.pc \in {"peer", "route"},
           \A f \in Families \ local : NoRoutes(f) => NoRoutes(f)',
           lost = {} =>
              /\ \A j \in DOMAIN att'.g : \E i \in DOMAIN att.g : att'.g[j] = att.g[i]
              /\ \A k \in Families \X Tables :
                    /\ routes[k] \subseteq routes'[k]
                    /\ \A r \in routes'[k] \ routes[k] :
                          \E d \in Demand : k = KeyOf(d) /\ r = Route(d)
              /\ \A d \in Demand : KeyOf(d) \in Families \X Tables
              /\ \A d \in Demand : Pending(d) => Pending(d)' \/ IsRouted(d)'
    PROVE  ClientInv'
  <1>1. /\ Named' = Named /\ local' = local /\ Asked' = Asked
        /\ Demand' = Demand /\ \A e : Networks(e)' = Networks(e)
    BY SameApi
  <1>2. NetnsOK'
    <2>1. Made' = local /\ Made = local
      BY <1>1 DEF Made
    <2>2. \A f \in Families \ local : rules'[f] = {} /\ NoRoutes(f)'
      BY DEF ClientInv, NetnsOK
    <2>3. \A f \in local : rules'[f] = ToSet(NewRules(f))
      BY <2>1 DEF ClientInv, NetnsOK
    <2>4. ~ pod'.hostNetwork
      BY DEF ClientInv, AttemptOK
    <2> QED
      BY <1>1, <2>1, <2>2, <2>3, <2>4 DEF NetnsOK
  <1>3. FreshOK'
    <2> SUFFICES ASSUME lost = {}
                 PROVE  FreshOK'
      BY DEF FreshOK
    <2>1. /\ \A e \in Named : cluster[e].destinations # None
          /\ \E e \in Named : Networks(e) # <<>>
          /\ \A j \in DOMAIN att.g :
                att.g[j].gw \in Named /\ att.g[j].nets = Networks(att.g[j].gw)
          /\ Sound /\ \A d \in Demand : IsRouted(d) \/ Pending(d)
          /\ result # "ok"
      BY DEF ClientInv, FreshOK, AttemptOK
    <2>2. \A d \in Demand : IsRouted(d)' \/ Pending(d)'
      <3>1. \A d \in Demand : IsRouted(d) => IsRouted(d)'
        BY DEF IsRouted, KeyOf, Route
      <3> QED
        BY <2>1, <3>1
    <2>3. Sound'
      <3> SUFFICES ASSUME NEW k \in Families \X Tables, NEW r \in routes'[k]
                   PROVE  \E d \in Demand : k = KeyOf(d) /\ r = Route(d)
        BY <1>1 DEF Sound, KeyOf, Route
      <3>1. CASE r \in routes[k]
        BY <2>1, <3>1 DEF Sound
      <3>2. CASE r \notin routes[k]
        BY <3>2
      <3> QED
        BY <3>1, <3>2
    <2>4. \A j \in DOMAIN att'.g : att'.g[j].gw \in Named /\ att'.g[j].nets = Networks(att.g[j].gw)'
      <3> SUFFICES ASSUME NEW j \in DOMAIN att'.g
                   PROVE  att'.g[j].gw \in Named /\ att'.g[j].nets = Networks(att.g[j].gw)'
        OBVIOUS
      <3>1. PICK i \in DOMAIN att.g : att'.g[j] = att.g[i]
        OBVIOUS
      <3>2. PICK e \in Named : att.g[i].gw = e /\ att.g[i].nets = Networks(e)
        BY <2>1
      <3>3. att'.g[j].gw = e /\ att'.g[j].nets = Networks(e)
        BY <3>1, <3>2
      <3> QED
        BY <1>1, <3>2, <3>3
    <2> QED
      BY <1>1, <2>1, <2>2, <2>3, <2>4 DEF FreshOK
  <1> QED
    BY <1>2, <1>3 DEF ClientInv

\* The demand is of networks, of the families of their gateways.
LEMMA DemandTypes ==
    ASSUME ClientInv, lost = {}, att.pc # "none" \/ result = "ok", NEW d \in Demand
    PROVE  /\ d[1] \in Asked /\ d[2] \in ToSet(Networks(d[1])) /\ d = <<d[1], d[2]>>
           /\ d[2] \in Nets /\ Family[d[2].ip] = Gateway[d[1]]
           /\ KeyOf(d) \in Families \X Tables
  <1>1. PICK e \in Asked : \E n \in ToSet(Networks(e)) : d = <<e, n>>
    BY DEF Demand
  <1>2. PICK n \in ToSet(Networks(e)) : d = <<e, n>>
    BY <1>1
  <1>3. Asked \subseteq Named /\ Named \subseteq Egress
    BY PodTypes DEF ClientInv, TypeOK
  <1>4. e \in Egress /\ cluster[e].destinations # None
    BY <1>3 DEF ClientInv, FreshOK
  <1>5. cluster[e].destinations \in Destinations
    BY <1>4 DEF ClientInv, TypeOK
  <1>6. n \in Nets /\ Family[n.ip] = Gateway[e] /\ Gateway[e] \in Families
    BY <1>4, <1>5, NetworksList, ObjectAssumption
  <1>7. d[1] = e /\ d[2] = n
    BY <1>2
  <1>8. Table(n) \in Tables
    BY DEF Table, Tables
  <1>9. KeyOf(d) \in Families \X Tables
    BY <1>6, <1>7, <1>8 DEF KeyOf
  <1> QED
    BY <1>2, <1>6, <1>7, <1>9

\* A gateway of a family that the pod does not have is in nobody's demand.
LEMMA SkipGatewayStep ==
    ASSUME ClientInv, SkipGateway
    PROVE  ClientInv'
  <1>1. /\ att.pc = "peer" /\ att.g # <<>> /\ Gateway[Head(att.g).gw] \notin local
        /\ att' = [att EXCEPT !.g = Tail(@)]
        /\ UNCHANGED <<pod, cluster, lost, deletes, fou, links, rules, routes, result, faults>>
    BY DEF SkipGateway, api, netns
  <1>2. /\ att \in AttTypes /\ att.g \in Seq(GWNetsRecs)
        /\ result # "ok" /\ ~ pod.hostNetwork /\ GatewaysOK
    BY <1>1 DEF ClientInv, TypeOK, AttemptOK, AttTypes, GatewaysOK
  <1> DEFINE g == att.g
  <1>3. /\ Tail(g) \in Seq(GWNetsRecs) /\ Head(g) = g[1] /\ 1 \in DOMAIN g
        /\ \A j \in DOMAIN Tail(g) : j + 1 \in DOMAIN g /\ Tail(g)[j] = g[j + 1]
        /\ \A j \in DOMAIN g : j # 1 => j - 1 \in DOMAIN Tail(g) /\ Tail(g)[j - 1] = g[j]
    BY <1>1, <1>2, TailList
  <1>4. att' \in AttTypes /\ att'.pc = "peer" /\ att'.g = Tail(g)
    BY <1>1, <1>2, <1>3 DEF AttTypes
  <1>5. TypeOK'
    BY <1>1, <1>4 DEF ClientInv, TypeOK, AttTypes
  <1>6. AttemptOK'
    <2>1. GatewaysOK'
      BY <1>2, <1>3, <1>4 DEF GatewaysOK
    <2> QED
      BY <1>1, <1>2, <1>4, <2>1 DEF AttemptOK, GatewaysOK
  <1>7. ASSUME lost = {}, NEW d \in Demand, Pending(d)
        PROVE  Pending(d)'
    <2>1. d[1] \in Asked
      BY <1>1, <1>7, DemandTypes
    <2>2. Gateway[d[1]] \in local
      BY <2>1 DEF Asked
    <2>3. PICK j \in DOMAIN g : \E k \in DOMAIN g[j].nets : d = <<g[j].gw, g[j].nets[k]>>
      BY <1>7 DEF Pending
    <2>4. PICK k \in DOMAIN g[j].nets : d = <<g[j].gw, g[j].nets[k]>>
      BY <2>3
    <2>5. j # 1
      BY <1>1, <1>3, <2>2, <2>4
    <2>6. j - 1 \in DOMAIN att'.g /\ att'.g[j - 1] = g[j]
      BY <1>3, <1>4, <2>5
    <2> HIDE DEF g
    <2> QED
      BY <1>4, <2>4, <2>6 DEF Pending
  <1>8. \A j \in DOMAIN att'.g : \E i \in DOMAIN att.g : att'.g[j] = att.g[i]
    BY <1>3, <1>4
  <1>9. \A f : NoRoutes(f)' = NoRoutes(f)
    BY <1>1 DEF NoRoutes
  <1>10. lost = {} => \A d \in Demand : KeyOf(d) \in Families \X Tables
    BY <1>1, DemandTypes
  <1> HIDE DEF g
  <1> QED
    BY <1>1, <1>4, <1>5, <1>6, <1>7, <1>8, <1>9, <1>10, LoopKeeps

\* AddPeer changes no rule and no route.
LEMMA AddPeerStep ==
    ASSUME ClientInv, AddPeer
    PROVE  ClientInv'
  <1>1. /\ att.pc = "peer" /\ att.g # <<>> /\ Gateway[Head(att.g).gw] \in local
        /\ links' = links \cup {Head(att.g).gw}
        /\ att' = [att EXCEPT !.pc = "route", !.i = 1]
        /\ UNCHANGED <<pod, cluster, lost, deletes, fou, rules, routes, result, faults>>
    BY DEF AddPeer, api
  <1>2. /\ att \in AttTypes /\ att.g \in Seq(GWNetsRecs)
        /\ result # "ok" /\ ~ pod.hostNetwork /\ GatewaysOK
    BY <1>1 DEF ClientInv, TypeOK, AttemptOK, AttTypes, GatewaysOK
  <1>3. Head(att.g) = att.g[1] /\ 1 \in DOMAIN att.g
    BY <1>1, <1>2, TailList
  <1>4. Head(att.g) \in GWNetsRecs /\ Head(att.g).nets # <<>>
    BY <1>2, <1>3 DEF GatewaysOK
  <1>5. 1 \in DOMAIN Head(att.g).nets /\ Head(att.g).gw \in Egress
    BY <1>4 DEF GWNetsRecs
  <1>6. att' \in AttTypes /\ att'.pc = "route" /\ att'.g = att.g /\ att'.i = 1
    BY <1>1, <1>2 DEF AttTypes
  <1>7. TypeOK'
    BY <1>1, <1>5, <1>6 DEF ClientInv, TypeOK, AttTypes
  <1>8. local' = local
    BY <1>1, SamePod
  <1>9. AttemptOK'
    <2>1. GatewaysOK'
      BY <1>2, <1>6 DEF GatewaysOK
    <2> QED
      BY <1>1, <1>2, <1>5, <1>6, <1>8, <2>1 DEF AttemptOK, GatewaysOK
  <1>10. ASSUME NEW d, Pending(d)
         PROVE  Pending(d)'
    <2>1. PICK j \in DOMAIN att.g : \E k \in DOMAIN att.g[j].nets :
             d = <<att.g[j].gw, att.g[j].nets[k]>>
      BY <1>10 DEF Pending
    <2>2. PICK k \in DOMAIN att.g[j].nets : d = <<att.g[j].gw, att.g[j].nets[k]>>
      BY <2>1
    <2>3. k >= 1
      <3>1. att.g[j] \in GWNetsRecs
        BY <1>2
      <3>2. PICK nets \in Seq(Nets) : nets = att.g[j].nets
        BY <3>1 DEF GWNetsRecs
      <3>3. k \in 1..Len(nets)
        BY <3>2
      <3> QED
        BY <3>3
    <2> QED
      BY <1>6, <2>2, <2>3 DEF Pending
  <1>11. \A f : NoRoutes(f)' = NoRoutes(f)
    BY <1>1 DEF NoRoutes
  <1>12. lost = {} => \A d \in Demand : KeyOf(d) \in Families \X Tables
    BY <1>1, DemandTypes
  <1> QED
    BY <1>1, <1>6, <1>7, <1>9, <1>10, <1>11, <1>12, LoopKeeps

\* addEgress1 makes a route of the demand, and the next destination is pending.
LEMMA RouteAddStep ==
    ASSUME ClientInv, RouteAdd
    PROVE  ClientInv'
  <1> DEFINE h  == Head(att.g)
             n  == Destination
             d0 == <<h.gw, n>>
  <1>1. /\ att.pc = "route"
        /\ routes' = [routes EXCEPT ![Key] = @ \cup {[dst |-> n.addrs, gw |-> h.gw]}]
        /\ att' = IF att.i < Len(h.nets) THEN [att EXCEPT !.i = @ + 1]
                  ELSE [att EXCEPT !.pc = "peer", !.g = Tail(@)]
        /\ UNCHANGED <<pod, cluster, lost, deletes, fou, links, rules, result, faults>>
    BY DEF RouteAdd, api
  <1>2. /\ att \in AttTypes /\ att.g \in Seq(GWNetsRecs) /\ att.g # <<>> /\ att.i \in Nat
        /\ result # "ok" /\ ~ pod.hostNetwork /\ GatewaysOK
        /\ Gateway[h.gw] \in local /\ att.i \in DOMAIN h.nets
        /\ routes \in [Families \X Tables -> SUBSET RouteRecs]
        /\ local \subseteq Families
    BY <1>1, PodTypes DEF ClientInv, TypeOK, AttemptOK, AttTypes, GatewaysOK
  <1>3. /\ Tail(att.g) \in Seq(GWNetsRecs) /\ h = att.g[1] /\ 1 \in DOMAIN att.g
        /\ \A j \in DOMAIN Tail(att.g) : j + 1 \in DOMAIN att.g /\ Tail(att.g)[j] = att.g[j + 1]
        /\ \A j \in DOMAIN att.g : j # 1 =>
              j - 1 \in DOMAIN Tail(att.g) /\ Tail(att.g)[j - 1] = att.g[j]
    BY <1>2, TailList
  <1>4. h \in GWNetsRecs
    BY <1>2, <1>3
  <1>5. /\ h.gw \in Egress /\ h.nets \in Seq(Nets) /\ DOMAIN h.nets = 1..Len(h.nets)
        /\ Len(h.nets) \in Nat
    BY <1>4 DEF GWNetsRecs
  <1>6. n = h.nets[att.i] /\ n \in Nets
    BY <1>2, <1>5 DEF Destination
  <1>7. Family[n.ip] = Gateway[h.gw]
    BY <1>2, <1>3, <1>6 DEF GatewaysOK
  <1>8. Key = <<Family[n.ip], Table(n)>>
    BY DEF Key
  <1>9. Table(n) \in Tables /\ [dst |-> n.addrs, gw |-> h.gw] \in RouteRecs
    <2>1. n.addrs \subseteq Addrs
      BY <1>6, NetworkAssumption
    <2> QED
      BY <1>5, <2>1 DEF Table, Tables, RouteRecs
  <1> HIDE DEF n, h
  <1>10. Key \in Families \X Tables /\ Key[1] \in local /\ Key = KeyOf(d0)
         /\ [dst |-> n.addrs, gw |-> h.gw] = Route(d0)
    BY <1>2, <1>7, <1>8, <1>9 DEF KeyOf, Route
  <1>11. /\ routes' \in [Families \X Tables -> SUBSET RouteRecs]
         /\ routes'[Key] = routes[Key] \cup {Route(d0)}
         /\ \A k \in Families \X Tables : k # Key => routes'[k] = routes[k]
    BY <1>1, <1>2, <1>9, <1>10
  <1>12. local' = local
    BY <1>1, SamePod
  <1>13. \A f \in Families \ local : NoRoutes(f) => NoRoutes(f)'
    <2>1. \A f \in Families \ local : \A t \in Tables : <<f, t>> # Key
      BY <1>10
    <2> QED
      BY <1>11, <2>1 DEF NoRoutes
  <1>14. lost = {} => d0 \in Demand
    <2> SUFFICES ASSUME lost = {}
                 PROVE  d0 \in Demand
      OBVIOUS
    <2>1. h.gw \in Named /\ h.nets = Networks(h.gw)
      BY <1>1, <1>3 DEF ClientInv, FreshOK
    <2>2. h.gw \in Asked
      BY <1>2, <2>1 DEF Asked
    <2>3. n \in ToSet(Networks(h.gw))
      BY <1>2, <1>6, <2>1 DEF ToSet
    <2> QED
      BY <2>2, <2>3 DEF Demand
  <1>15. lost = {} => \A k \in Families \X Tables :
            /\ routes[k] \subseteq routes'[k]
            /\ \A r \in routes'[k] \ routes[k] :
                  \E d \in Demand : k = KeyOf(d) /\ r = Route(d)
    <2> SUFFICES ASSUME lost = {}, NEW k \in Families \X Tables
                 PROVE  /\ routes[k] \subseteq routes'[k]
                        /\ \A r \in routes'[k] \ routes[k] :
                              \E d \in Demand : k = KeyOf(d) /\ r = Route(d)
      OBVIOUS
    <2> HIDE DEF d0
    <2>1. CASE k = Key
      BY <1>10, <1>11, <1>14, <2>1
    <2>2. CASE k # Key
      BY <1>11, <2>2
    <2> QED
      BY <2>1, <2>2
  <1>16. ASSUME NEW d, d = d0
         PROVE  IsRouted(d)'
    BY <1>10, <1>11, <1>16 DEF IsRouted, KeyOf, Route
  <1>17. lost = {} => \A d \in Demand : KeyOf(d) \in Families \X Tables
    BY <1>1, DemandTypes
  <1>18. ASSUME NEW d, Pending(d)
         PROVE  \E j \in DOMAIN att.g : \E k \in DOMAIN att.g[j].nets :
                   /\ d = <<att.g[j].gw, att.g[j].nets[k]>>
                   /\ d = d0 \/ j # 1 \/ k > att.i
    <2>1. PICK j \in DOMAIN att.g : \E k \in DOMAIN att.g[j].nets :
             d = <<att.g[j].gw, att.g[j].nets[k]>> /\ (j = 1 => k >= att.i)
      BY <1>1, <1>18 DEF Pending
    <2>2. PICK k \in DOMAIN att.g[j].nets :
             d = <<att.g[j].gw, att.g[j].nets[k]>> /\ (j = 1 => k >= att.i)
      BY <2>1
    <2>3. j = 1 /\ k = att.i => d = d0
      BY <1>3, <1>6, <2>2
    <2>4. j = 1 => k = att.i \/ k > att.i
      <3> SUFFICES ASSUME j = 1
                   PROVE  k = att.i \/ k > att.i
        OBVIOUS
      <3>1. k \in 1..Len(h.nets)
        BY <1>3, <1>5, <2>2
      <3> QED
        BY <1>2, <2>2, <3>1
    <2> QED
      BY <2>2, <2>3, <2>4
  <1>19. CASE att.i < Len(h.nets)
    <2>1. att' \in AttTypes /\ att'.pc = "route" /\ att'.g = att.g /\ att'.i = att.i + 1
      BY <1>1, <1>2, <1>19 DEF AttTypes
    <2>2. TypeOK'
      BY <1>1, <1>11, <2>1 DEF ClientInv, TypeOK, AttTypes
    <2>3. AttemptOK'
      <3>1. GatewaysOK'
        BY <1>2, <2>1 DEF GatewaysOK
      <3>2. Head(att'.g) = h
        BY <2>1 DEF h
      <3>3. att'.i \in DOMAIN h.nets
        BY <1>2, <1>5, <1>19, <2>1
      <3> QED
        BY <1>1, <1>2, <1>12, <2>1, <3>1, <3>2, <3>3 DEF AttemptOK, GatewaysOK
    <2>4. ASSUME NEW d, Pending(d)
          PROVE  Pending(d)' \/ IsRouted(d)'
      <3>1. PICK j \in DOMAIN att.g : \E k \in DOMAIN att.g[j].nets :
               /\ d = <<att.g[j].gw, att.g[j].nets[k]>>
               /\ d = d0 \/ j # 1 \/ k > att.i
        BY <1>18, <2>4
      <3>2. PICK k \in DOMAIN att.g[j].nets :
               /\ d = <<att.g[j].gw, att.g[j].nets[k]>>
               /\ d = d0 \/ j # 1 \/ k > att.i
        BY <3>1
      <3>3. CASE d = d0
        BY <1>16, <3>3
      <3>4. CASE j # 1
        BY <2>1, <3>2, <3>4 DEF Pending
      <3>5. CASE j = 1 /\ k > att.i
        <4>1. k \in 1..Len(h.nets)
          BY <1>3, <1>5, <3>2, <3>5
        <4>2. k >= att'.i
          BY <1>2, <2>1, <3>5, <4>1
        <4> QED
          BY <2>1, <3>2, <4>2 DEF Pending
      <3> QED
        BY <3>2, <3>3, <3>4, <3>5
    <2> HIDE DEF d0
    <2> QED
      BY <1>1, <1>13, <1>15, <1>17, <2>1, <2>2, <2>3, <2>4, LoopKeeps
  <1>20. CASE ~ (att.i < Len(h.nets))
    <2>1. att' \in AttTypes /\ att'.pc = "peer" /\ att'.g = Tail(att.g)
      BY <1>1, <1>2, <1>3, <1>20 DEF AttTypes
    <2>2. TypeOK'
      BY <1>1, <1>11, <2>1 DEF ClientInv, TypeOK, AttTypes
    <2>3. AttemptOK'
      <3>1. GatewaysOK'
        BY <1>2, <1>3, <2>1 DEF GatewaysOK
      <3> QED
        BY <1>1, <1>2, <1>12, <2>1, <3>1 DEF AttemptOK, GatewaysOK
    <2>4. ASSUME NEW d, Pending(d)
          PROVE  Pending(d)' \/ IsRouted(d)'
      <3>1. PICK j \in DOMAIN att.g : \E k \in DOMAIN att.g[j].nets :
               /\ d = <<att.g[j].gw, att.g[j].nets[k]>>
               /\ d = d0 \/ j # 1 \/ k > att.i
        BY <1>18, <2>4
      <3>2. PICK k \in DOMAIN att.g[j].nets :
               /\ d = <<att.g[j].gw, att.g[j].nets[k]>>
               /\ d = d0 \/ j # 1 \/ k > att.i
        BY <3>1
      <3>3. CASE d = d0
        BY <1>16, <3>3
      <3>4. CASE j # 1
        <4>1. j - 1 \in DOMAIN att'.g /\ att'.g[j - 1] = att.g[j]
          BY <1>3, <2>1, <3>4
        <4> QED
          BY <2>1, <3>2, <4>1 DEF Pending
      <3>5. CASE j = 1 /\ k > att.i
        <4>1. k \in 1..Len(h.nets)
          BY <1>3, <1>5, <3>2, <3>5
        <4> QED
          BY <1>2, <1>5, <1>20, <3>5, <4>1
      <3> QED
        BY <3>2, <3>3, <3>4, <3>5
    <2>5. \A j \in DOMAIN att'.g : \E i \in DOMAIN att.g : att'.g[j] = att.g[i]
      BY <1>3, <2>1
    <2> HIDE DEF d0
    <2> QED
      BY <1>1, <1>13, <1>15, <1>17, <2>1, <2>2, <2>3, <2>4, <2>5, LoopKeeps
  <1> QED
    BY <1>19, <1>20

\* Nothing happens.
LEMMA StutterClient ==
    ASSUME ClientInv, UNCHANGED vars
    PROVE  ClientInv'
  <1>1. UNCHANGED <<pod, cluster, lost, deletes, fou, links, rules, routes, att, result, faults>>
    BY DEF vars, api, netns
  <1>2. TypeOK'
    BY <1>1 DEF ClientInv, TypeOK
  <1> QED
    BY <1>1, <1>2, ApiKeeps

\* Every step keeps the invariant.
LEMMA NextClient == ClientInv /\ [Next]_vars => ClientInv'
  <1> SUFFICES ASSUME ClientInv, [Next]_vars
               PROVE  ClientInv'
    OBVIOUS
  <1>1. CASE \E e \in Named : \E ds \in Offers[e] : CreateEgress(e, ds) \/ UpdateEgress(e, ds)
    BY <1>1, ApiStep
  <1>2. CASE \E e \in Named : CreateService(e) \/ DeleteEgress(e) \/ DeleteService(e)
    BY <1>2, ApiStep
  <1>3. CASE AddNothing \/ AddRefused \/ Add
    BY <1>3, AddNothingStep, FailingStep, AddStep
  <1>4. CASE Agent
    BY <1>4, FouInitStep, FailingStep, ClearRuleStep, ClearRouteStep, ClearedStep, RuleAddStep,
       SkipGatewayStep, AddPeerStep, RouteAddStep, AddDoneStep DEF Agent
  <1>5. CASE Fail \/ Timeout \/ NewSandbox
    BY <1>5, FailingStep, TimeoutStep, NewSandboxStep
  <1>6. CASE UNCHANGED vars
    BY <1>6, StutterClient
  <1> QED
    BY <1>1, <1>2, <1>3, <1>4, <1>5, <1>6 DEF Next

(***************************************************************************)
(* What the kernel makes of the rules and routes.                          *)
(***************************************************************************)

\* There is a first one of any rules.
LEMMA FirstRule ==
    ASSUME NEW R, R \subseteq RuleRecs, R # {}
    PROVE  \E r \in R : \A q \in R : r.prio <= q.prio
  <1> DEFINE P == {r.prio : r \in R}
  <1>1. P \subseteq Nat /\ P # {}
    BY DEF RuleRecs
  <1>2. IsWellFoundedOn(OpToRel(<, Nat), Nat)
    BY NatLessThanWellFounded
  <1>3. PICK p \in P : \A q \in P : ~ (<<q, p>> \in OpToRel(<, Nat))
    BY <1>1, <1>2, WFMin
  <1>4. PICK r \in R : r.prio = p
    OBVIOUS
  <1>5. \A q \in P : p <= q
    <2> SUFFICES ASSUME NEW q \in P
                 PROVE  p <= q
      OBVIOUS
    <2>1. q \in Nat /\ p \in Nat
      BY <1>1
    <2>2. q < p => <<q, p>> \in OpToRel(<, Nat)
      BY <2>1 DEF OpToRel
    <2> HIDE DEF P
    <2>3. ~ (q < p)
      BY <1>3, <2>2
    <2> QED
      BY <2>1, <2>3
  <1> QED
    BY <1>4, <1>5

\* There is a most specific one of any routes that are nested.
LEMMA MostSpecific ==
    ASSUME NEW R, R # {}, \A r \in R : r.dst \subseteq Addrs,
           \A r, q \in R : r.dst \subseteq q.dst \/ q.dst \subseteq r.dst
    PROVE  \E r \in R : \A q \in R : r.dst \subseteq q.dst
  <1> DEFINE D == {r.dst : r \in R}
  <1>1. IsFiniteSet(Addrs)
    BY AddressAssumption
  <1>2. IsWellFoundedOn(StrictSubsetOrdering(Addrs), FiniteSubsetsOf(Addrs))
    BY FS_StrictSubsetOrderingWellFounded
  <1>3. D \subseteq FiniteSubsetsOf(Addrs) /\ D # {}
    BY <1>1, FS_Subset DEF FiniteSubsetsOf
  <1>4. PICK m \in D : \A x \in D : ~ (<<x, m>> \in StrictSubsetOrdering(Addrs))
    BY <1>2, <1>3, WFMin
  <1>5. PICK r \in R : r.dst = m
    OBVIOUS
  <1>6. ASSUME NEW q \in R, ~ (r.dst \subseteq q.dst)
        PROVE  FALSE
    <2>1. q.dst \subseteq m /\ q.dst # m /\ q.dst \in D
      BY <1>5, <1>6
    <2>2. <<q.dst, m>> \in StrictSubsetOrdering(Addrs)
      BY <2>1 DEF StrictSubsetOrdering
    <2> QED
      BY <1>4, <2>1, <2>2
  <1> QED
    BY <1>6

\* A destination is in the narrow table when it begins in a private network.
LEMMA TablePrivate ==
    ASSUME NEW n \in Nets, NEW a \in n.addrs
    PROVE  /\ Table(n) \in Tables /\ (Table(n) = "narrow" <=> IsPrivate(n.ip))
           /\ a \in Addrs /\ Family[a] = Family[n.ip]
  <1>1. Table(n) \in Tables /\ (Table(n) = "narrow" <=> IsPrivate(n.ip))
    BY DEF Table, Tables, IsPrivate
  <1>2. a \in Addrs /\ Family[a] = Family[n.ip]
    BY NetworkAssumption
  <1> QED
    BY <1>1, <1>2

\* ADD has succeeded, and the Egresses are the ones that it read.
SetUp == ClientInv /\ result = "ok" /\ lost = {}

\* What claims an address has a route for it.
LEMMA ClaimRouted ==
    ASSUME SetUp, NEW a \in Addrs, NEW c \in Claims(a)
    PROVE  /\ c.net \in Nets /\ a \in c.net.addrs /\ a \notin LinkLocal
           /\ Table(c.net) \in Tables
           /\ IsPrivate(c.net.ip) <=> Table(c.net) = "narrow"
           /\ IsPrivate(a) => Table(c.net) = "narrow"
           /\ Family[a] \in local
           /\ [dst |-> c.net.addrs, gw |-> c.gw] \in Matching(a, Table(c.net))
  <1>1. PICK e \in Asked : \E n \in ToSet(Networks(e)) : c = [gw |-> e, net |-> n]
    BY DEF Claims
  <1>2. PICK n \in ToSet(Networks(e)) : c = [gw |-> e, net |-> n]
    BY <1>1
  <1>3. c.gw = e /\ c.net = n
    BY <1>2
  <1>4. a \in n.addrs /\ a \notin LinkLocal /\ (IsPrivate(a) => IsPrivate(n.ip))
    BY <1>3 DEF Claims
  <1>5. PICK d \in Demand : d = <<e, n>>
    <2>1. <<e, n>> \in {<<e, m>> : m \in ToSet(Networks(e))}
      OBVIOUS
    <2>2. <<e, n>> \in Demand
      BY <2>1 DEF Demand
    <2> QED
      BY <2>2
  <1>6. n \in Nets /\ Family[n.ip] = Gateway[e] /\ Gateway[e] \in local
    BY <1>5, DemandTypes DEF SetUp, Asked
  <1>7. /\ Table(n) \in Tables /\ (Table(n) = "narrow" <=> IsPrivate(n.ip))
        /\ Family[a] = Family[n.ip]
    BY <1>4, <1>6, TablePrivate
  <1>8. [dst |-> n.addrs, gw |-> e] \in routes[<<Family[n.ip], Table(n)>>]
    <2>1. IsRouted(d)
      BY DEF SetUp, ClientInv, FreshOK
    <2> QED
      BY <1>5, <2>1 DEF IsRouted, Route, KeyOf
  <1>9. [dst |-> n.addrs, gw |-> e] \in Matching(a, Table(n))
    BY <1>4, <1>7, <1>8 DEF Matching
  <1> QED
    BY <1>3, <1>4, <1>6, <1>7, <1>9

\* A route for an address is that of a destination.
LEMMA MatchDemand ==
    ASSUME SetUp, NEW a \in Addrs, NEW t \in Tables, NEW r \in Matching(a, t)
    PROVE  \E e \in Asked : \E n \in ToSet(Networks(e)) :
              /\ n \in Nets /\ a \in n.addrs /\ t = Table(n)
              /\ r = [dst |-> n.addrs, gw |-> e]
  <1>1. r \in routes[<<Family[a], t>>] /\ a \in r.dst
    BY DEF Matching
  <1>2. <<Family[a], t>> \in Families \X Tables
    BY AddressAssumption
  <1>3. PICK d \in Demand : <<Family[a], t>> = KeyOf(d) /\ r = Route(d)
    BY <1>1, <1>2 DEF SetUp, ClientInv, FreshOK, Sound
  <1>4. d[1] \in Asked /\ d[2] \in ToSet(Networks(d[1])) /\ d[2] \in Nets
    BY DemandTypes DEF SetUp
  <1>5. t = Table(d[2]) /\ r = [dst |-> d[2].addrs, gw |-> d[1]]
    BY <1>3 DEF KeyOf, Route
  <1>6. a \in d[2].addrs
    BY <1>1, <1>5
  <1> QED
    BY <1>4, <1>5, <1>6

\* The most specific route of the table that decides is a wanted one.
LEMMA TableDecides ==
    ASSUME SetUp, NEW a \in Addrs \ LinkLocal, NEW t \in Tables, Matching(a, t) # {},
           \/ t = "narrow"
           \/ t = "wide" /\ Matching(a, "narrow") = {} /\ ~ IsPrivate(a)
    PROVE  (CHOOSE r \in Matching(a, t) : \A q \in Matching(a, t) : r.dst \subseteq q.dst).gw
              \in Wanted(a)
  <1> DEFINE M == Matching(a, t)
             least(r) == \A q \in M : r.dst \subseteq q.dst
             r0 == CHOOSE r \in M : least(r)
  <1>1. /\ \A r \in M : r.dst \subseteq Addrs
        /\ \A r, q \in M : r.dst \subseteq q.dst \/ q.dst \subseteq r.dst
    <2>1. ASSUME NEW r \in M
          PROVE  \E n \in Nets : a \in n.addrs /\ r.dst = n.addrs
      <3>1. PICK e \in Asked : \E n \in ToSet(Networks(e)) :
               n \in Nets /\ a \in n.addrs /\ t = Table(n) /\ r = [dst |-> n.addrs, gw |-> e]
        BY MatchDemand
      <3> QED
        BY <3>1
    <2>2. \A n \in Nets : n.addrs \subseteq Addrs
      BY NetworkAssumption
    <2>3. \A m, n \in Nets : a \in m.addrs /\ a \in n.addrs =>
             m.addrs \subseteq n.addrs \/ n.addrs \subseteq m.addrs
      BY NetworkAssumption
    <2> HIDE DEF M
    <2> QED
      BY <2>1, <2>2, <2>3
  <1>2. r0 \in M /\ least(r0)
    <2> HIDE DEF M
    <2>1. M # {}
      BY DEF M
    <2>2. \E r \in M : least(r)
      BY <1>1, <2>1, MostSpecific
    <2> HIDE DEF least
    <2> QED
      BY <2>2
  <1> HIDE DEF r0
  <1>3. PICK e \in Asked : \E n \in ToSet(Networks(e)) :
           n \in Nets /\ a \in n.addrs /\ t = Table(n) /\ r0 = [dst |-> n.addrs, gw |-> e]
    BY <1>2, MatchDemand
  <1>4. PICK n \in ToSet(Networks(e)) :
           n \in Nets /\ a \in n.addrs /\ t = Table(n) /\ r0 = [dst |-> n.addrs, gw |-> e]
    BY <1>3
  <1> DEFINE c == [gw |-> e, net |-> n]
  <1>5. /\ c \in Claims(a) /\ c.gw = r0.gw /\ c.net.addrs = r0.dst
        /\ t = "narrow" <=> IsPrivate(c.net.ip)
    <2>1. t = "narrow" <=> IsPrivate(n.ip)
      BY <1>4, TablePrivate
    <2>2. IsPrivate(a) => IsPrivate(n.ip)
      BY <2>1
    <2> QED
      BY <1>4, <2>1, <2>2 DEF Claims
  <1>6. \A q \in Claims(a) :
           /\ Table(q.net) \in Tables /\ (IsPrivate(q.net.ip) <=> Table(q.net) = "narrow")
           /\ [dst |-> q.net.addrs, gw |-> q.gw] \in Matching(a, Table(q.net))
    BY ClaimRouted
  <1> HIDE DEF c, M, least
  <1>7. c \in Preferred(a) /\ \A q \in Preferred(a) : q \in Claims(a) /\ Table(q.net) = t
    <2>1. CASE t = "narrow"
      BY <1>5, <1>6, <2>1 DEF Preferred
    <2>2. CASE t = "wide" /\ Matching(a, "narrow") = {}
      <3>1. \A q \in Claims(a) : Table(q.net) = "wide" /\ ~ IsPrivate(q.net.ip)
        BY <1>6, <2>2 DEF Tables
      <3> QED
        BY <1>5, <2>2, <3>1 DEF Preferred
    <2> QED
      BY <2>1, <2>2
  <1>8. ASSUME NEW q \in Preferred(a)
        PROVE  r0.dst \subseteq q.net.addrs
    <2>1. [dst |-> q.net.addrs, gw |-> q.gw] \in Matching(a, t)
      BY <1>6, <1>7
    <2> QED
      BY <1>2, <2>1 DEF M, least
  <1>9. r0.gw \in Wanted(a)
    BY <1>5, <1>7, <1>8 DEF Wanted
  <1> QED
    BY <1>9 DEF r0, M, least

\* The rules and routes that NatClient makes send every packet where it is
\* wanted.
LEMMA LookupRight ==
    ASSUME SetUp, NEW a \in Addrs
    PROVE  Lookup(a) \in Wanted(a)
  <1> DEFINE f    == Family[a]
             App  == Applicable(a)
             lo(r) == \A q \in App : r.prio <= q.prio
             first == CHOOSE r \in App : lo(r)
             best(t) == (CHOOSE r \in Matching(a, t) :
                            \A q \in Matching(a, t) : r.dst \subseteq q.dst).gw
  <1>1. f \in Families /\ rules \in [Families -> SUBSET RuleRecs]
    BY AddressAssumption DEF SetUp, ClientInv, TypeOK
  <1>2. App \subseteq rules[f] /\ rules[f] \subseteq RuleRecs
    BY <1>1 DEF Applicable
  <1>3. App # {} => first \in App /\ lo(first)
    <2> SUFFICES ASSUME App # {}
                 PROVE  first \in App /\ lo(first)
      OBVIOUS
    <2> HIDE DEF App
    <2>1. \E r \in App : lo(r)
      BY <1>2, FirstRule
    <2> HIDE DEF lo
    <2> QED
      BY <2>1
  <1>4. Lookup(a) = IF App = {} THEN "main"
                    ELSE IF first.table = "main" THEN "main" ELSE best(first.table)
    BY DEF Lookup
  <1> HIDE DEF first, best
  <1>5. Claims(a) = {} => "main" \in Wanted(a)
    BY DEF Wanted
  <1>6. \A c \in Claims(a) : Table(c.net) \in Tables /\ Matching(a, Table(c.net)) # {}
    <2> SUFFICES ASSUME NEW c \in Claims(a)
                 PROVE  Table(c.net) \in Tables /\ Matching(a, Table(c.net)) # {}
      OBVIOUS
    <2>1. /\ Table(c.net) \in Tables
          /\ [dst |-> c.net.addrs, gw |-> c.gw] \in Matching(a, Table(c.net))
      BY ClaimRouted
    <2> QED
      BY <2>1
  <1>7. Claims(a) # {} => a \notin LinkLocal /\ f \in local
    BY ClaimRouted
  <1>9. CASE routes = EmptyRoutes \/ f \notin local
    <2>1. \A t \in Tables : Matching(a, t) = {}
      <3>1. CASE routes = EmptyRoutes
        BY <1>1, <3>1 DEF Matching, EmptyRoutes
      <3>2. CASE f \notin local
        <4>1. NoRoutes(f)
          BY <1>1, <3>2 DEF SetUp, ClientInv, NetnsOK
        <4> QED
          BY <4>1 DEF Matching, NoRoutes
      <3> QED
        BY <1>9, <3>1, <3>2
    <2>2. Claims(a) = {}
      BY <1>6, <2>1
    <2>3. \A r \in App : r.table = "main"
      BY <1>2, <2>1 DEF Applicable, RuleRecs
    <2> QED
      BY <1>3, <1>4, <1>5, <2>2, <2>3
  <1>10. CASE routes # EmptyRoutes /\ f \in local
    <2>1. rules[f] = RuleSet(f)
      <3>1. rules[f] = ToSet(NewRules(f))
        BY <1>10 DEF SetUp, ClientInv, FreshOK
      <3> QED
        BY <1>1, <3>1, RulesList
    <2> DEFINE ll == Rule(1800, LinkLocal \cap Of(f), "main")
               na == Rule(1900, Of(f), "narrow")
               pr(i) == Rule(2000 + i - 1, Private[f][i], "main")
               wi == Rule(2100, Of(f), "wide")
    <2>2. /\ \A r \in rules[f] : r = ll \/ r = na \/ r = wi \/ \E i \in DOMAIN Private[f] : r = pr(i)
          /\ ll \in rules[f] /\ na \in rules[f] /\ wi \in rules[f]
          /\ \A i \in DOMAIN Private[f] : pr(i) \in rules[f]
      BY <2>1 DEF RuleSet
    <2>3. /\ ll.prio = 1800 /\ ll.table = "main" /\ (a \in ll.dst <=> a \in LinkLocal)
          /\ na.prio = 1900 /\ na.table = "narrow" /\ a \in na.dst
          /\ wi.prio = 2100 /\ wi.table = "wide" /\ a \in wi.dst
      BY DEF Rule, Of
    <2>4. \A i \in DOMAIN Private[f] :
             /\ pr(i).prio = 2000 + i - 1 /\ pr(i).table = "main"
             /\ (a \in pr(i).dst <=> a \in Private[f][i])
             /\ pr(i).prio \in 2000..2099
      <3>1. DOMAIN Private[f] = 1..Len(Private[f]) /\ Len(Private[f]) \in Nat /\ Len(Private[f]) <= 100
        BY <1>1, AddressAssumption
      <3>2. PICK p \in Nat : p = Len(Private[f]) /\ p <= 100
        BY <3>1
      <3>3. ASSUME NEW i \in DOMAIN Private[f]
            PROVE  2000 + i - 1 \in 2000..2099
        <4>1. i \in 1..p
          BY <3>1, <3>2
        <4> QED
          BY <3>2, <4>1
      <3> QED
        BY <3>3 DEF Rule
    <2> HIDE DEF ll, na, pr, wi
    <2>5. /\ \A r \in App : /\ r = ll \/ r = na \/ r = wi \/ \E i \in DOMAIN Private[f] : r = pr(i)
                            /\ a \in r.dst /\ (r.table # "main" => Matching(a, r.table) # {})
          /\ \A r \in rules[f] : a \in r.dst /\ (r.table # "main" => Matching(a, r.table) # {})
                                 => r \in App
      BY <2>2 DEF Applicable
    <2> HIDE DEF App
    <2>6. IsPrivate(a) <=> \E i \in DOMAIN Private[f] : a \in Private[f][i]
      BY DEF IsPrivate
    <2>7. "narrow" \in Tables /\ "wide" \in Tables
      BY DEF Tables
    <2>8. CASE a \in LinkLocal
      <3>1. ll \in App
        BY <2>2, <2>3, <2>5, <2>8
      <3>2. first \in App /\ first.prio <= 1800
        BY <1>3, <2>3, <3>1
      <3>3. first # na /\ first # wi
        BY <2>3, <3>2
      <3>4. first.table = "main"
        BY <2>3, <2>4, <2>5, <3>2, <3>3
      <3> QED
        BY <1>4, <1>5, <1>7, <2>8, <3>4
    <2>9. CASE a \notin LinkLocal /\ Matching(a, "narrow") # {}
      <3>1. na \in App /\ ll \notin App
        BY <2>2, <2>3, <2>5, <2>9
      <3>2. first \in App /\ first.prio <= 1900
        BY <1>3, <2>3, <3>1
      <3>3. first # wi
        BY <2>3, <3>2
      <3>4. \A i \in DOMAIN Private[f] : first # pr(i)
        BY <2>4, <3>2
      <3>5. first = na
        BY <2>5, <3>1, <3>2, <3>3, <3>4
      <3>6. Lookup(a) = best("narrow")
        BY <1>4, <2>3, <3>1, <3>5
      <3>7. a \in Addrs \ LinkLocal
        BY <2>9
      <3>8. best("narrow") \in Wanted(a)
        BY <2>7, <2>9, <3>7, TableDecides DEF best
      <3> QED
        BY <3>6, <3>8
    <2>10. CASE a \notin LinkLocal /\ Matching(a, "narrow") = {} /\ IsPrivate(a)
      <3>1. PICK i \in DOMAIN Private[f] : a \in Private[f][i]
        BY <2>6, <2>10
      <3>2. pr(i) \in App
        BY <2>2, <2>4, <2>5, <3>1
      <3>3. first \in App /\ first.prio <= pr(i).prio
        BY <1>3, <3>2
      <3>4. first # wi
        BY <2>3, <2>4, <3>3
      <3>5. first # na
        BY <2>3, <2>5, <2>10, <3>3
      <3>6. first.table = "main"
        BY <2>3, <2>4, <2>5, <3>3, <3>4, <3>5
      <3>7. Claims(a) = {}
        BY <1>6, <2>7, <2>10, ClaimRouted
      <3> QED
        BY <1>4, <1>5, <3>6, <3>7
    <2>11. CASE a \notin LinkLocal /\ Matching(a, "narrow") = {} /\ ~ IsPrivate(a)
      <3>1. \A r \in App : r = wi
        BY <2>3, <2>4, <2>5, <2>6, <2>11
      <3>2. CASE Matching(a, "wide") # {}
        <4>1. wi \in App
          BY <2>2, <2>3, <2>5, <3>2
        <4>2. first = wi
          BY <1>3, <3>1, <4>1
        <4>3. Lookup(a) = best("wide")
          BY <1>4, <2>3, <4>1, <4>2
        <4>4. /\ a \in Addrs \ LinkLocal /\ ~ IsPrivate(a)
              /\ Matching(a, "narrow") = {}
          BY <2>11
        <4>5. best("wide") \in Wanted(a)
          BY <2>7, <3>2, <4>4, TableDecides DEF best
        <4> QED
          BY <4>3, <4>5
      <3>3. CASE Matching(a, "wide") = {}
        <4>1. App = {}
          BY <2>3, <2>5, <3>1, <3>3
        <4>2. \A c \in Claims(a) : Table(c.net) \in Tables
          BY ClaimRouted
        <4>3. Claims(a) = {}
          BY <1>6, <2>7, <2>11, <3>3, <4>2 DEF Tables
        <4> QED
          BY <1>4, <1>5, <4>1, <4>3
      <3> QED
        BY <3>2, <3>3
    <2> QED
      BY <2>8, <2>9, <2>10, <2>11
  <1> QED
    BY <1>9, <1>10

-----------------------------------------------------------------------------
\* Every variable of the ADD of a pod keeps its type, whatever fails and
\* however often ADD is called again.
THEOREM ClientTypes == Spec => []TypeOK
  <1>1. ClientInv => TypeOK
    BY DEF ClientInv
  <1> QED
    BY <1>1, InitClient, NextClient, PTL DEF Spec

\* After an ADD that succeeded every packet goes where the pod's Egresses say,
\* for as long as they are the ones that ADD read (setupEgressGW,
\* NatClient.Init, NatClient.AddEgress, validateUpdate).
THEOREM PacketsRouted == Spec => []Routed
  <1>1. ClientInv => Routed
    BY LookupRight DEF Routed, SetUp
  <1> QED
    BY <1>1, InitClient, NextClient, PTL DEF Spec
=============================================================================
