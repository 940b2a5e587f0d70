----------------------------- MODULE TreeProofs -----------------------------
(***************************************************************************)
(* What the functions of MerkleTree compute, for every tree.  They recurse *)
(* along the nodes; the theorems on induction take an operator and cannot  *)
(* be used, so the induction is on sets: among the nodes for which a claim *)
(* fails there would be a longest path.                                    *)
(***************************************************************************)
EXTENDS MerkleTree, SequenceTheorems, FiniteSetTheorems, WellFoundedInduction, TLAPS

-----------------------------------------------------------------------------
(* Induction, for sets.                                                    *)

LEMMA Least ==
  ASSUME NEW T, T \subseteq Nat, T # {}
  PROVE  \E m \in T : \A k \in T : m <= k
  <1> DEFINE R == OpToRel(<, Nat)
  <1>1. \E x \in T : \A y \in T : ~ (<<y, x>> \in R)
    <2> HIDE DEF R
    <2>1. IsWellFoundedOn(R, Nat)
      BY NatLessThanWellFounded DEF R
    <2> QED
      BY <2>1, WFMin
  <1>2. \A x, y \in Nat : <<y, x>> \in R <=> y < x
    <2>1. R = {ss \in Nat \X Nat : ss[1] < ss[2]}
      BY DEF OpToRel
    <2> HIDE DEF R
    <2> QED
      BY <2>1
  <1> HIDE DEF R
  <1>3. PICK x \in T : \A y \in T : ~ (<<y, x>> \in R)
    BY <1>1
  <1>4. \A y \in T : ~ (y < x)
    BY <1>2, <1>3
  <1> QED
    BY <1>4

\* What has 0 and each successor of its numbers has all numbers.
LEMMA Climb ==
  ASSUME NEW n \in Nat, NEW S, 0 \in S, \A k \in 1..n : k - 1 \in S => k \in S
  PROVE  0..n \subseteq S
  <1> SUFFICES ASSUME (0..n) \ S # {} PROVE FALSE
    OBVIOUS
  <1>1. PICK m \in (0..n) \ S : \A k \in (0..n) \ S : m <= k
    <2> DEFINE T == (0..n) \ S
    <2>1. T \subseteq Nat /\ T # {}
      OBVIOUS
    <2> HIDE DEF T
    <2>2. \E m \in T : \A k \in T : m <= k
      BY <2>1, Least
    <2> QED
      BY <2>2 DEF T
  <1>2. m \in 1..n /\ m - 1 \in 0..n /\ ~ (m <= m - 1)
    OBVIOUS
  <1>3. m - 1 \in S
    BY <1>1, <1>2
  <1> QED
    BY <1>2, <1>3

\* What has an element if it has those of a lower rank has all elements.
LEMMA RankInduction ==
  ASSUME NEW D, NEW rank, \A p \in D : rank[p] \in Nat, NEW S,
         \A p \in D : (\A q \in D : rank[q] < rank[p] => q \in S) => p \in S
  PROVE  D \subseteq S
  <1> SUFFICES ASSUME D \ S # {} PROVE FALSE
    OBVIOUS
  <1> DEFINE R == {rank[p] : p \in D \ S}
  <1>1. R \subseteq Nat /\ R # {}
    OBVIOUS
  <1>2. \E m \in R : \A k \in R : m <= k
    <2> HIDE DEF R
    <2> QED
      BY <1>1, Least
  <1>3. PICK m \in D \ S : \A k \in D \ S : rank[m] <= rank[k]
    BY <1>2
  <1>4. \A q \in D : rank[q] < rank[m] => q \in S
    BY <1>3
  <1> QED
    BY <1>4

-----------------------------------------------------------------------------
(* Concatenation.                                                          *)

Parts(parts, n, V) == n \in Nat /\ \A i \in 1..n : parts[i] \in Seq(V)

Joins(upto, parts, n) ==
    upto = [i \in 0..n |-> IF i = 0 THEN <<>> ELSE upto[i - 1] \o parts[i]]

\* What such a function is.
IsJoin(upto, parts, n, V) ==
    /\ upto \in [0..n -> Seq(V)]
    /\ upto[0] = <<>>
    /\ \A i \in 1..n : upto[i] = upto[i - 1] \o parts[i]

\* There is a function with the equation of Concatenation.
LEMMA JoinExists ==
  ASSUME NEW V, NEW n, NEW parts, Parts(parts, n, V)
  PROVE  \E upto \in [0..n -> Seq(V)] : Joins(upto, parts, n)
  <1> USE DEF Parts
  <1> DEFINE Good(k, f) == f[0] = <<>> /\ \A i \in 1..k : f[i] = f[i - 1] \o parts[i]
             S == {k \in 0..n : \E f \in [0..n -> Seq(V)] : Good(k, f)}
  <1>1. 0 \in S
    <2> DEFINE f == [i \in 0..n |-> <<>>]
    <2>1. f \in [0..n -> Seq(V)]
      OBVIOUS
    <2>2. Good(0, f)
      OBVIOUS
    <2>3. \E h \in [0..n -> Seq(V)] : Good(0, h)
      <3> HIDE DEF f, Good
      <3> QED
        BY <2>1, <2>2
    <2> HIDE DEF Good
    <2> QED
      BY <2>3
  <1>2. ASSUME NEW m \in 1..n, m - 1 \in S PROVE m \in S
    <2>1. PICK f \in [0..n -> Seq(V)] : Good(m - 1, f)
      BY <1>2
    <2> DEFINE g == [i \in 0..n |-> IF i = m THEN f[m - 1] \o parts[m] ELSE f[i]]
    <2>2. f[m - 1] \o parts[m] \in Seq(V)
      <3>1. f[m - 1] \in Seq(V) /\ parts[m] \in Seq(V)
        OBVIOUS
      <3> QED
        BY <3>1, ConcatProperties
    <2>3. g \in [0..n -> Seq(V)]
      BY <2>2
    <2>4. \A i \in 1..m : g[i] = g[i - 1] \o parts[i]
      <3> SUFFICES ASSUME NEW i \in 1..m PROVE g[i] = g[i - 1] \o parts[i]
        OBVIOUS
      <3>1. i - 1 \in 0..n /\ i \in 0..n /\ i - 1 # m
        OBVIOUS
      <3>2. g[i - 1] = f[i - 1]
        BY <3>1
      <3>3. CASE i = m
        BY <3>1, <3>2, <3>3
      <3>4. CASE i # m
        <4>1. i \in 1..(m - 1)
          BY <3>4
        <4>2. g[i] = f[i]
          BY <3>1, <3>4
        <4> QED
          BY <2>1, <3>2, <4>1, <4>2
      <3> QED
        BY <3>3, <3>4
    <2>5. g[0] = <<>>
      BY <2>1
    <2>6. Good(m, g)
      BY <2>4, <2>5
    <2>7. \E h \in [0..n -> Seq(V)] : Good(m, h)
      <3> HIDE DEF g, Good
      <3> QED
        BY <2>3, <2>6
    <2> HIDE DEF Good
    <2> QED
      BY <2>7
  <1>3. n \in S
    <2> HIDE DEF S
    <2>1. 0..n \subseteq S
      BY <1>1, <1>2, Climb
    <2> QED
      BY <2>1
  <1>4. PICK f \in [0..n -> Seq(V)] : Good(n, f)
    BY <1>3
  <1>5. f = [i \in 0..n |-> f[i]]
    OBVIOUS
  <1>6. ASSUME NEW i \in 0..n
        PROVE  f[i] = IF i = 0 THEN <<>> ELSE f[i - 1] \o parts[i]
    <2>1. CASE i = 0
      BY <1>4, <2>1
    <2>2. CASE i # 0
      <3>1. i \in 1..n
        BY <2>2
      <3> QED
        BY <1>4, <2>2, <3>1
    <2> QED
      BY <2>1, <2>2
  <1>7. f = [i \in 0..n |-> IF i = 0 THEN <<>> ELSE f[i - 1] \o parts[i]]
    BY <1>5, <1>6
  <1> QED
    BY <1>4, <1>7 DEF Joins

LEMMA JoinIs ==
  ASSUME NEW V, NEW n, NEW parts, Parts(parts, n, V),
         NEW upto, Joins(upto, parts, n)
  PROVE  IsJoin(upto, parts, n, V)
  <1> USE DEF Parts
  <1>1. upto = [i \in 0..n |-> IF i = 0 THEN <<>> ELSE upto[i - 1] \o parts[i]]
    BY DEF Joins
  <1>2. DOMAIN upto = 0..n /\ upto = [i \in 0..n |-> upto[i]]
    BY <1>1
  <1>3. upto[0] = <<>> /\ \A i \in 1..n : upto[i] = upto[i - 1] \o parts[i]
    <2>1. \A i \in 0..n : upto[i] = IF i = 0 THEN <<>> ELSE upto[i - 1] \o parts[i]
      BY <1>1
    <2>2. 0 \in 0..n /\ \A i \in 1..n : i \in 0..n /\ i # 0
      OBVIOUS
    <2>3. upto[0] = <<>>
      BY <2>1, <2>2
    <2>4. ASSUME NEW i \in 1..n PROVE upto[i] = upto[i - 1] \o parts[i]
      BY <2>1, <2>2
    <2> QED
      BY <2>3, <2>4
  <1> DEFINE S == {i \in 0..n : upto[i] \in Seq(V)}
  <1>4. 0 \in S
    <2>1. <<>> \in Seq(V) /\ 0 \in 0..n
      OBVIOUS
    <2> QED
      BY <1>3, <2>1
  <1>5. ASSUME NEW m \in 1..n, m - 1 \in S PROVE m \in S
    <2>1. upto[m - 1] \in Seq(V) /\ parts[m] \in Seq(V)
      BY <1>5
    <2>2. upto[m] \in Seq(V)
      BY <1>3, <2>1, ConcatProperties
    <2> QED
      BY <2>2
  <1>6. 0..n \subseteq S
    <2> HIDE DEF S
    <2> QED
      BY <1>4, <1>5, Climb
  <1>7. \A i \in 0..n : upto[i] \in Seq(V)
    BY <1>6
  <1>8. upto \in [0..n -> Seq(V)]
    BY <1>2, <1>7
  <1> QED
    BY <1>3, <1>8 DEF IsJoin

LEMMA ConcatenationJoins ==
  ASSUME NEW V, NEW n, NEW parts, Parts(parts, n, V)
  PROVE  \E upto : IsJoin(upto, parts, n, V) /\ Concatenation(parts, n) = upto[n]
  <1> DEFINE Eq(f) == f = [i \in 0..n |-> IF i = 0 THEN <<>> ELSE f[i - 1] \o parts[i]]
             u == CHOOSE f : Eq(f)
  <1>1. Concatenation(parts, n) = u[n]
    BY DEF Concatenation
  <1>2. \E f : Eq(f)
    <2>1. PICK f \in [0..n -> Seq(V)] : Joins(f, parts, n)
      BY JoinExists
    <2> QED
      BY <2>1 DEF Joins
  <1>3. Eq(u)
    BY <1>2
  <1>4. Joins(u, parts, n)
    BY <1>3 DEF Joins
  <1>5. PICK w : Joins(w, parts, n) /\ Concatenation(parts, n) = w[n]
    <2> HIDE DEF u
    <2> QED
      BY <1>1, <1>4
  <1>6. IsJoin(w, parts, n, V)
    BY <1>5, JoinIs
  <1> QED
    BY <1>5, <1>6

LEMMA RangeJoins ==
  ASSUME NEW V, NEW s \in Seq(V), NEW t \in Seq(V), NEW x
  PROVE  x \in ToSet(s \o t) <=> x \in ToSet(s) \/ x \in ToSet(t)
  <1>1. /\ Len(s) \in Nat /\ Len(t) \in Nat
        /\ DOMAIN s = 1..Len(s) /\ DOMAIN t = 1..Len(t)
        /\ DOMAIN (s \o t) = 1..(Len(s) + Len(t))
    BY ConcatProperties, LenProperties
  <1>2. \A i \in 1..(Len(s) + Len(t)) :
            (s \o t)[i] = IF i <= Len(s) THEN s[i] ELSE t[i - Len(s)]
    BY ConcatProperties
  <1>3. ASSUME x \in ToSet(s \o t) PROVE x \in ToSet(s) \/ x \in ToSet(t)
    <2>1. PICK i \in 1..(Len(s) + Len(t)) : x = (s \o t)[i]
      BY <1>1, <1>3 DEF ToSet
    <2>2. CASE i <= Len(s)
      BY <1>1, <1>2, <2>1, <2>2 DEF ToSet
    <2>3. CASE ~ (i <= Len(s))
      <3>1. i - Len(s) \in 1..Len(t) /\ x = t[i - Len(s)]
        BY <1>1, <1>2, <2>1, <2>3
      <3> QED
        BY <1>1, <3>1 DEF ToSet
    <2> QED
      BY <2>2, <2>3
  <1>4. ASSUME x \in ToSet(s) PROVE x \in ToSet(s \o t)
    <2>1. PICK i \in 1..Len(s) : x = s[i]
      BY <1>1, <1>4 DEF ToSet
    <2>2. i \in 1..(Len(s) + Len(t)) /\ (s \o t)[i] = x
      BY <1>1, <1>2, <2>1
    <2> QED
      BY <1>1, <2>2 DEF ToSet
  <1>5. ASSUME x \in ToSet(t) PROVE x \in ToSet(s \o t)
    <2>1. PICK i \in 1..Len(t) : x = t[i]
      BY <1>1, <1>5 DEF ToSet
    <2>2. Len(s) + i \in 1..(Len(s) + Len(t)) /\ (s \o t)[Len(s) + i] = x
      BY <1>1, <1>2, <2>1
    <2> QED
      BY <1>1, <2>2 DEF ToSet
  <1> QED
    BY <1>3, <1>4, <1>5

\* Of whatever two sets there are elements in the parts, there are in the whole.
Whole(s, parts, n) == \A x : x \in ToSet(s) <=> \E i \in 1..n : x \in ToSet(parts[i])

LEMMA JoinWhole ==
  ASSUME NEW V, NEW n, NEW parts, Parts(parts, n, V), NEW upto, IsJoin(upto, parts, n, V)
  PROVE  \A k \in 0..n : Whole(upto[k], parts, k)
  <1>1. n \in Nat /\ n \in 0..n /\ 0 \in 0..n
    BY DEF Parts
  <1> DEFINE S == {k \in 0..n : Whole(upto[k], parts, k)}
  <1>2. 0 \in S
    <2>1. upto[0] = <<>>
      BY DEF IsJoin
    <2>2. ToSet(<<>>) = {}
      BY DEF ToSet
    <2>3. 1..0 = {}
      OBVIOUS
    <2>4. Whole(upto[0], parts, 0)
      BY <2>1, <2>2, <2>3 DEF Whole
    <2> QED
      BY <1>1, <2>4
  <1>3. ASSUME NEW k \in 1..n, k - 1 \in S PROVE k \in S
    <2>1. k \in 0..n /\ k - 1 \in 0..n /\ \A i : i \in 1..k <=> i \in 1..(k - 1) \/ i = k
      BY <1>1
    <2>2. upto[k - 1] \in Seq(V) /\ parts[k] \in Seq(V) /\ upto[k] = upto[k - 1] \o parts[k]
      BY <2>1 DEF IsJoin, Parts
    <2>3. \A x : x \in ToSet(upto[k]) <=> x \in ToSet(upto[k - 1]) \/ x \in ToSet(parts[k])
      BY <2>2, RangeJoins
    <2>4. \A x : x \in ToSet(upto[k - 1]) <=> \E i \in 1..(k - 1) : x \in ToSet(parts[i])
      BY <1>3 DEF Whole
    <2>5. Whole(upto[k], parts, k)
      BY <2>1, <2>3, <2>4 DEF Whole
    <2> QED
      BY <2>1, <2>5
  <1>4. 0..n \subseteq S
    <2> HIDE DEF S
    <2> QED
      BY <1>1, <1>2, <1>3, Climb
  <1> QED
    BY <1>4

LEMMA ConcatenationIs ==
  ASSUME NEW V, NEW n, NEW parts, Parts(parts, n, V)
  PROVE  /\ Concatenation(parts, n) \in Seq(V)
         /\ Whole(Concatenation(parts, n), parts, n)
  <1>1. PICK upto : IsJoin(upto, parts, n, V) /\ Concatenation(parts, n) = upto[n]
    BY ConcatenationJoins
  <1>2. n \in 0..n
    BY DEF Parts
  <1>3. Whole(upto[n], parts, n)
    BY <1>1, <1>2, JoinWhole
  <1>4. upto[n] \in Seq(V)
    BY <1>1, <1>2 DEF IsJoin
  <1> QED
    BY <1>1, <1>3, <1>4

-----------------------------------------------------------------------------
(* Paths and the nodes of a tree.                                          *)

LEMMA Appended ==
  ASSUME NEW p \in Seq(Names), NEW n \in Names
  PROVE  /\ Append(p, n) \in Seq(Names)
         /\ Len(Append(p, n)) = Len(p) + 1
         /\ Append(p, n) # Root
         /\ Front(Append(p, n)) = p
         /\ Last(Append(p, n)) = n
  <1> DEFINE q == Append(p, n)
  <1>1. /\ q \in Seq(Names) /\ Len(q) = Len(p) + 1 /\ Len(p) \in Nat
        /\ q[Len(p) + 1] = n /\ \A i \in 1..Len(p) : q[i] = p[i]
    BY AppendProperties, LenProperties
  <1>2. q # Root
    BY <1>1 DEF Root
  <1>3. Front(q) = p
    <2> HIDE DEF q
    <2>1. Front(q) = SubSeq(q, 1, Len(p))
      BY <1>1 DEF Front
    <2>2. \A i \in 1..Len(p) : q[i] \in Names
      BY <1>1
    <2>3. /\ Front(q) \in Seq(Names) /\ Len(Front(q)) = Len(p)
          /\ \A i \in 1..Len(p) : Front(q)[i] = q[i]
      BY <1>1, <2>1, <2>2
    <2> QED
      BY <1>1, <2>3, SeqEqual
  <1> QED
    BY <1>1, <1>2, <1>3 DEF Last

LEMMA Parted ==
  ASSUME NEW q \in Seq(Names), q # Root
  PROVE  /\ Front(q) \in Seq(Names) /\ Last(q) \in Names
         /\ Len(Front(q)) = Len(q) - 1
         /\ q = Append(Front(q), Last(q))
         /\ \A i \in 1..Len(q) - 1 : Front(q)[i] = q[i]
  <1>1. Len(q) \in Nat /\ Len(q) > 0 /\ \A i \in 1..Len(q) : q[i] \in Names
    BY EmptySeq, LenProperties DEF Root
  <1>2. /\ Front(q) \in Seq(Names) /\ Len(Front(q)) = Len(q) - 1
        /\ \A i \in 1..Len(q) - 1 : Front(q)[i] = q[i]
    <2>1. Len(q) - 1 \in Int /\ \A i \in 1..(Len(q) - 1) : q[i] \in Names
      BY <1>1
    <2>2. /\ SubSeq(q, 1, Len(q) - 1) \in Seq(Names)
          /\ Len(SubSeq(q, 1, Len(q) - 1)) = IF 1 <= Len(q) - 1 THEN Len(q) - 1 - 1 + 1 ELSE 0
          /\ \A i \in 1..(Len(q) - 1 - 1 + 1) : SubSeq(q, 1, Len(q) - 1)[i] = q[1 + i - 1]
      BY <2>1, SubSeqProperties
    <2>3. Front(q) = SubSeq(q, 1, Len(q) - 1)
      BY DEF Front
    <2>4. Front(q) \in Seq(Names) /\ Len(Front(q)) = Len(q) - 1
      <3>1. \A k \in Nat : k > 0 => (IF 1 <= k - 1 THEN k - 1 - 1 + 1 ELSE 0) = k - 1
        OBVIOUS
      <3>2. SubSeq(q, 1, Len(q) - 1) \in Seq(Names)
        BY <2>2
      <3>3. Len(SubSeq(q, 1, Len(q) - 1)) = Len(q) - 1
        BY <1>1, <2>2, <3>1
      <3> QED
        BY <2>3, <3>2, <3>3
    <2>5. \A i \in 1..(Len(q) - 1) : i \in 1..(Len(q) - 1 - 1 + 1) /\ 1 + i - 1 = i
      BY <1>1
    <2>6. \A i \in 1..(Len(q) - 1) : Front(q)[i] = q[i]
      BY <2>2, <2>3, <2>5
    <2> QED
      BY <2>4, <2>6
  <1>3. Last(q) \in Names /\ Last(q) = q[Len(q)]
    BY <1>1 DEF Last
  <1>4. q = Append(Front(q), Last(q))
    <2> DEFINE r == Append(Front(q), Last(q))
    <2>1. /\ r \in Seq(Names) /\ Len(r) = Len(q)
          /\ \A i \in 1..Len(q) : r[i] = q[i]
      BY <1>1, <1>2, <1>3, AppendProperties
    <2>2. q = r
      <3> HIDE DEF r
      <3> QED
        BY <2>1, SeqEqual
    <2> QED
      BY <2>2
  <1> QED
    BY <1>2, <1>3, <1>4

\* A node comes with the directory it is in; paths are of limited length.
NodeSet(D) ==
    /\ D \subseteq Seq(Names) /\ Root \in D
    /\ \A p \in D : p # Root => Front(p) \in D
    /\ \E n \in Nat : \A p \in D : Len(p) <= n

Children(D, p) == {q \in D : q # Root /\ Front(q) = p}

AreChildren(kids, D, p) ==
    /\ kids \in Seq(D)
    /\ ToSet(kids) = Children(D, p)
    /\ IsInjective(kids)

LEMMA Singleton ==
  ASSUME NEW x
  PROVE  /\ <<x>> \in Seq({x}) /\ Len(<<x>>) = 1 /\ DOMAIN <<x>> = {1} /\ <<x>>[1] = x
         /\ ToSet(<<x>>) = {x} /\ IsInjective(<<x>>)
  BY DEF ToSet, IsInjective

LEMMA InjectionsJoin ==
  ASSUME NEW V, NEW s \in Seq(V), NEW t \in Seq(V), IsInjective(s), IsInjective(t),
         ToSet(s) \cap ToSet(t) = {}
  PROVE  IsInjective(s \o t)
  <1>1. /\ Len(s) \in Nat /\ Len(t) \in Nat
        /\ DOMAIN s = 1..Len(s) /\ DOMAIN t = 1..Len(t)
        /\ DOMAIN (s \o t) = 1..(Len(s) + Len(t))
    BY ConcatProperties, LenProperties
  <1>2. \A i \in 1..(Len(s) + Len(t)) :
            (s \o t)[i] = IF i <= Len(s) THEN s[i] ELSE t[i - Len(s)]
    BY ConcatProperties
  <1>3. \A i \in 1..Len(s), j \in 1..Len(t) : s[i] # t[j]
    BY <1>1 DEF ToSet
  <1> SUFFICES ASSUME NEW i \in 1..(Len(s) + Len(t)), NEW j \in 1..(Len(s) + Len(t)),
                      (s \o t)[i] = (s \o t)[j]
               PROVE  i = j
    BY <1>1 DEF IsInjective
  <1>4. /\ i <= Len(s) => i \in 1..Len(s)
        /\ j <= Len(s) => j \in 1..Len(s)
        /\ i > Len(s) => i - Len(s) \in 1..Len(t)
        /\ j > Len(s) => j - Len(s) \in 1..Len(t)
    BY <1>1
  <1>5. CASE i <= Len(s) /\ j <= Len(s)
    BY <1>1, <1>2, <1>4, <1>5 DEF IsInjective
  <1>6. CASE i > Len(s) /\ j > Len(s)
    <2>1. t[i - Len(s)] = t[j - Len(s)]
      BY <1>1, <1>2, <1>6
    <2>2. i - Len(s) = j - Len(s)
      BY <1>1, <1>4, <1>6, <2>1 DEF IsInjective
    <2> QED
      BY <1>1, <2>2
  <1>7. CASE i <= Len(s) /\ j > Len(s)
    BY <1>1, <1>2, <1>3, <1>4, <1>7
  <1>8. CASE i > Len(s) /\ j <= Len(s)
    BY <1>1, <1>2, <1>3, <1>4, <1>8
  <1> QED
    BY <1>1, <1>5, <1>6, <1>7, <1>8

\* A concatenation repeats nothing if its parts do not and have nothing in common.
LEMMA InjectiveConcatenation ==
  ASSUME NEW V, NEW n, NEW parts, Parts(parts, n, V),
         \A i \in 1..n : IsInjective(parts[i]),
         \A i, j \in 1..n : i # j => ToSet(parts[i]) \cap ToSet(parts[j]) = {}
  PROVE  IsInjective(Concatenation(parts, n))
  <1>1. PICK upto : IsJoin(upto, parts, n, V) /\ Concatenation(parts, n) = upto[n]
    BY ConcatenationJoins
  <1>2. n \in Nat /\ n \in 0..n /\ 0 \in 0..n
    BY DEF Parts
  <1> DEFINE S == {k \in 0..n : IsInjective(upto[k])}
  <1>3. 0 \in S
    <2>1. upto[0] = <<>>
      BY <1>1 DEF IsJoin
    <2> QED
      BY <1>2, <2>1 DEF IsInjective
  <1>4. ASSUME NEW k \in 1..n, k - 1 \in S PROVE k \in S
    <2>1. k \in 0..n /\ k - 1 \in 0..n /\ \A i \in 1..(k - 1) : i # k /\ i \in 1..n
      BY <1>2
    <2>2. upto[k - 1] \in Seq(V) /\ parts[k] \in Seq(V) /\ upto[k] = upto[k - 1] \o parts[k]
      BY <1>1, <2>1 DEF IsJoin, Parts
    <2>3. Whole(upto[k - 1], parts, k - 1)
      BY <1>1, <2>1, JoinWhole
    <2>4. ToSet(upto[k - 1]) \cap ToSet(parts[k]) = {}
      BY <2>1, <2>3 DEF Whole
    <2>5. IsInjective(upto[k])
      BY <1>4, <2>2, <2>4, InjectionsJoin
    <2> QED
      BY <2>1, <2>5
  <1>5. n \in S
    <2> HIDE DEF S
    <2>1. 0..n \subseteq S
      BY <1>2, <1>3, <1>4, Climb
    <2> QED
      BY <1>2, <2>1
  <1> QED
    BY <1>1, <1>5

LEMMA ChildrenAre ==
  ASSUME NEW D, D \subseteq Seq(Names), NEW p \in Seq(Names), NEW order, IsOrder(order)
  PROVE  AreChildren(children(D, p, order), D, p)
  <1> DEFINE n == Len(order)
             child(i) == Append(p, order[i])
             parts == [i \in DOMAIN order |-> IF child(i) \in D THEN <<child(i)>> ELSE <<>>]
  <1>1. n \in Nat /\ DOMAIN order = 1..n /\ \A i \in 1..n : order[i] \in Names
    BY DEF IsOrder
  <1>2. \A i \in 1..n : child(i) \in Seq(Names)
    BY <1>1, Appended
  <1>3. ASSUME NEW i \in 1..n
        PROVE  /\ parts[i] \in Seq(D)
               /\ IsInjective(parts[i])
               /\ \A x : x \in ToSet(parts[i]) <=> x = child(i) /\ x \in D
    <2>1. CASE child(i) \in D
      <3>1. parts[i] = <<child(i)>>
        BY <1>1, <2>1
      <3> HIDE DEF parts, child
      <3>2. <<child(i)>> \in Seq(D)
        BY <2>1
      <3> QED
        BY <2>1, <3>1, <3>2, Singleton
    <2>2. CASE child(i) \notin D
      <3>1. parts[i] = <<>>
        BY <1>1, <2>2
      <3> HIDE DEF parts, child
      <3>2. <<>> \in Seq(D) /\ IsInjective(<<>>) /\ ToSet(<<>>) = {}
        BY DEF IsInjective, ToSet
      <3> QED
        BY <2>2, <3>1, <3>2
    <2> QED
      BY <2>1, <2>2
  <1>4. children(D, p, order) = Concatenation(parts, n)
    BY DEF children
  <1>5. \A i, j \in 1..n : child(i) = child(j) => i = j
    <2>1. \A i \in 1..n : Last(child(i)) = order[i]
      BY <1>1, Appended
    <2> HIDE DEF child
    <2> QED
      BY <1>1, <2>1 DEF IsOrder, IsInjective
  <1> HIDE DEF n, parts
  <1>6. Parts(parts, n, D)
    BY <1>1, <1>3 DEF Parts
  <1>7. \A i, j \in 1..n : i # j => ToSet(parts[i]) \cap ToSet(parts[j]) = {}
    <2> HIDE DEF child
    <2> QED
      BY <1>3, <1>5
  <1>8. /\ Concatenation(parts, n) \in Seq(D)
        /\ Whole(Concatenation(parts, n), parts, n)
        /\ IsInjective(Concatenation(parts, n))
    BY <1>3, <1>6, <1>7, ConcatenationIs, InjectiveConcatenation
  <1>9. \A x : x \in ToSet(Concatenation(parts, n)) <=> x \in Children(D, p)
    <2>1. ASSUME NEW i \in 1..n, child(i) \in D PROVE child(i) \in Children(D, p)
      BY <1>1, <2>1, Appended DEF Children
    <2>2. ASSUME NEW x \in Children(D, p) PROVE \E i \in 1..n : x = child(i) /\ x \in D
      <3>1. x \in D /\ x \in Seq(Names) /\ x # Root /\ Front(x) = p
        BY DEF Children
      <3>2. x = Append(p, Last(x)) /\ Last(x) \in Names
        BY <3>1, Parted
      <3>3. PICK i \in 1..n : order[i] = Last(x)
        BY <1>1, <3>2 DEF IsOrder, ToSet
      <3> QED
        BY <3>1, <3>2, <3>3
    <2>3. \A x : x \in ToSet(Concatenation(parts, n)) <=> \E i \in 1..n : x = child(i) /\ x \in D
      <3> HIDE DEF child
      <3> QED
        BY <1>3, <1>8 DEF Whole
    <2> QED
      BY <2>1, <2>2, <2>3
  <1> QED
    BY <1>4, <1>8, <1>9 DEF AreChildren

-----------------------------------------------------------------------------
(* Recursion over the nodes: the comparisons join what they find below the *)
(* children of a node.                                                     *)

Visit(f, q, D, B) == IF q \in D THEN f[q] ELSE B[q]

\* Only one of the comparisons has something to add at the end.
Body(f, p, D, kids, A, B, C, more) ==
    LET found == A[p] \o Concatenation([i \in DOMAIN kids[p] |-> Visit(f, kids[p][i], D, B)],
                                       Len(kids[p]))
    IN  IF more THEN found \o C[p] ELSE found

\* A tree of limited depth, and parts that are sequences over V.
Recursive(D, n, kids, A, B, C, more, V) ==
    /\ n \in Nat /\ \A p \in D : Len(p) \in Nat /\ Len(p) <= n
    /\ \A p \in D :
           /\ DOMAIN kids[p] = 1..Len(kids[p]) /\ Len(kids[p]) \in Nat
           /\ \A i \in 1..Len(kids[p]) :
                  /\ kids[p][i] \in D => Len(kids[p][i]) = Len(p) + 1
                  /\ kids[p][i] \notin D => B[kids[p][i]] \in Seq(V)
           /\ A[p] \in Seq(V) /\ (more => C[p] \in Seq(V))

LEMMA BodyTyped ==
  ASSUME NEW D, NEW n, NEW kids, NEW A, NEW B, NEW C, NEW more, NEW V,
         Recursive(D, n, kids, A, B, C, more, V), NEW p \in D, NEW f,
         \A i \in 1..Len(kids[p]) : kids[p][i] \in D => f[kids[p][i]] \in Seq(V)
  PROVE  Body(f, p, D, kids, A, B, C, more) \in Seq(V)
  <1> DEFINE m == Len(kids[p])
             parts == [i \in DOMAIN kids[p] |-> Visit(f, kids[p][i], D, B)]
  <1>1. m \in Nat /\ DOMAIN kids[p] = 1..m /\ A[p] \in Seq(V) /\ (more => C[p] \in Seq(V))
    BY DEF Recursive
  <1>2. \A i \in 1..m : parts[i] \in Seq(V)
    BY <1>1 DEF Recursive, Visit
  <1>3. Body(f, p, D, kids, A, B, C, more) =
            IF more THEN A[p] \o Concatenation(parts, m) \o C[p]
                    ELSE A[p] \o Concatenation(parts, m)
    BY DEF Body
  <1> HIDE DEF m, parts
  <1>4. Parts(parts, m, V)
    BY <1>1, <1>2 DEF Parts
  <1>5. Concatenation(parts, m) \in Seq(V)
    BY <1>4, ConcatenationIs
  <1>6. A[p] \o Concatenation(parts, m) \in Seq(V)
    BY <1>1, <1>5, ConcatProperties
  <1> QED
    BY <1>1, <1>3, <1>6, ConcatProperties

Agree(f, g, p, D, kids) ==
    \A i \in 1..Len(kids[p]) : kids[p][i] \in D => f[kids[p][i]] = g[kids[p][i]]

LEMMA BodyDepends ==
  ASSUME NEW D, NEW n, NEW kids, NEW A, NEW B, NEW C, NEW more, NEW V,
         Recursive(D, n, kids, A, B, C, more, V), NEW p \in D, NEW f, NEW g,
         Agree(f, g, p, D, kids)
  PROVE  Body(f, p, D, kids, A, B, C, more) = Body(g, p, D, kids, A, B, C, more)
  <1>1. DOMAIN kids[p] = 1..Len(kids[p])
    BY DEF Recursive
  <1>2. \A i \in DOMAIN kids[p] : Visit(f, kids[p][i], D, B) = Visit(g, kids[p][i], D, B)
    BY <1>1 DEF Agree, Visit
  <1>3. [i \in DOMAIN kids[p] |-> Visit(f, kids[p][i], D, B)]
        = [i \in DOMAIN kids[p] |-> Visit(g, kids[p][i], D, B)]
    BY <1>2
  <1> QED
    BY <1>3 DEF Body

Recurs(f, D, kids, A, B, C, more) == f = [p \in D |-> Body(f, p, D, kids, A, B, C, more)]

\* There is a function with such an equation.
LEMMA RecursionExists ==
  ASSUME NEW D, NEW n, NEW kids, NEW A, NEW B, NEW C, NEW more, NEW V,
         Recursive(D, n, kids, A, B, C, more, V)
  PROVE  \E f : Recurs(f, D, kids, A, B, C, more)
  <1> DEFINE F(f, p) == Body(f, p, D, kids, A, B, C, more)
             Good(k, f) == \A p \in D : n - Len(p) < k => f[p] = F(f, p)
             S == {k \in 0..n + 1 : \E f \in [D -> Seq(V)] : Good(k, f)}
  <1>1. n \in Nat /\ \A p \in D : Len(p) \in Nat /\ Len(p) <= n
    BY DEF Recursive
  <1>2. 0 \in S
    <2> DEFINE f == [p \in D |-> <<>>]
    <2>1. f \in [D -> Seq(V)]
      OBVIOUS
    <2> HIDE DEF f
    <2>2. Good(0, f)
      BY <1>1
    <2>3. 0 \in 0..n + 1
      BY <1>1
    <2> HIDE DEF Good
    <2> QED
      BY <2>1, <2>2, <2>3
  <1>3. ASSUME NEW k \in 1..n + 1, k - 1 \in S PROVE k \in S
    <2>1. PICK f \in [D -> Seq(V)] : Good(k - 1, f)
      BY <1>3
    <2> DEFINE g == [p \in D |-> F(f, p)]
    <2>2. \A p \in D : F(f, p) \in Seq(V)
      <3> SUFFICES ASSUME NEW p \in D PROVE F(f, p) \in Seq(V)
        OBVIOUS
      <3>1. \A i \in 1..Len(kids[p]) : kids[p][i] \in D => f[kids[p][i]] \in Seq(V)
        OBVIOUS
      <3> QED
        BY <3>1, BodyTyped
    <2>3. g \in [D -> Seq(V)]
      BY <2>2
    <2> HIDE DEF F
    <2>7. \A q \in D : g[q] = F(f, q)
      OBVIOUS
    <2>4. ASSUME NEW p \in D, n - Len(p) < k PROVE g[p] = F(g, p)
      <3>1. ASSUME NEW i \in 1..Len(kids[p]), kids[p][i] \in D
            PROVE  f[kids[p][i]] = g[kids[p][i]]
        <4>1. Len(kids[p][i]) = Len(p) + 1
          BY <3>1 DEF Recursive
        <4>2. n - Len(kids[p][i]) < k - 1
          <5>1. \A x, y, z \in Nat : x - y < z => x - (y + 1) < z - 1
            OBVIOUS
          <5>2. k \in Nat
            BY <1>1
          <5>3. n - (Len(p) + 1) < k - 1
            BY <1>1, <2>4, <5>1, <5>2
          <5> QED
            BY <4>1, <5>3
        <4>3. f[kids[p][i]] = F(f, kids[p][i])
          BY <2>1, <3>1, <4>2
        <4>4. g[kids[p][i]] = F(f, kids[p][i])
          BY <2>7, <3>1
        <4> QED
          BY <4>3, <4>4
      <3> HIDE DEF g
      <3>4. Agree(f, g, p, D, kids)
        BY <3>1 DEF Agree
      <3>5. Body(f, p, D, kids, A, B, C, more) = Body(g, p, D, kids, A, B, C, more)
        <4> HIDE DEF S, Good
        <4> QED
          BY <3>4, BodyDepends
      <3>2. F(f, p) = F(g, p)
        BY <3>5 DEF F
      <3>3. g[p] = F(f, p)
        BY <2>7
      <3> QED
        BY <3>2, <3>3
    <2> HIDE DEF g, F
    <2>5. Good(k, g)
      BY <2>4
    <2>6. k \in 0..n + 1
      BY <1>1
    <2> HIDE DEF Good
    <2> QED
      BY <2>3, <2>5, <2>6
  <1>4. n + 1 \in S
    <2> HIDE DEF S
    <2>1. n + 1 \in Nat /\ n + 1 \in 0..n + 1
      BY <1>1
    <2>2. 0..n + 1 \subseteq S
      BY <1>2, <1>3, <2>1, Climb
    <2> QED
      BY <2>1, <2>2
  <1>5. PICK f \in [D -> Seq(V)] : Good(n + 1, f)
    BY <1>4
  <1> HIDE DEF F
  <1>6. \A p \in D : f[p] = F(f, p)
    <2> \A x, y \in Nat : x - y < x + 1
      OBVIOUS
    <2> QED
      BY <1>1, <1>5
  <1>7. f = [p \in D |-> F(f, p)]
    BY <1>6
  <1> QED
    BY <1>7 DEF F, Recurs

\* And any such function is one of sequences over V.
LEMMA RecursionIs ==
  ASSUME NEW D, NEW n, NEW kids, NEW A, NEW B, NEW C, NEW more, NEW V,
         Recursive(D, n, kids, A, B, C, more, V), NEW f, Recurs(f, D, kids, A, B, C, more)
  PROVE  \A p \in D : f[p] = Body(f, p, D, kids, A, B, C, more) /\ f[p] \in Seq(V)
  <1>1. n \in Nat /\ \A p \in D : Len(p) \in Nat /\ Len(p) <= n
    BY DEF Recursive
  <1>2. \A p \in D : f[p] = Body(f, p, D, kids, A, B, C, more)
    <2>1. f = [p \in D |-> Body(f, p, D, kids, A, B, C, more)]
      BY DEF Recurs
    <2> QED
      BY <2>1
  <1> DEFINE S == {p \in D : f[p] \in Seq(V)}
             rank == [p \in D |-> n - Len(p)]
  <1>3. \A p \in D : rank[p] \in Nat
    BY <1>1
  <1>4. ASSUME NEW p \in D, \A q \in D : rank[q] < rank[p] => q \in S
        PROVE  p \in S
    <2>1. ASSUME NEW i \in 1..Len(kids[p]), kids[p][i] \in D
          PROVE  f[kids[p][i]] \in Seq(V)
      <3>1. Len(kids[p][i]) = Len(p) + 1
        BY <2>1 DEF Recursive
      <3>2. rank[kids[p][i]] < rank[p]
        <4> \A x, y \in Nat : x - (y + 1) < x - y
          OBVIOUS
        <4> QED
          BY <1>1, <2>1, <3>1
      <3> QED
        BY <1>4, <2>1, <3>2
    <2>2. Body(f, p, D, kids, A, B, C, more) \in Seq(V)
      BY <2>1, BodyTyped
    <2> QED
      BY <1>2, <2>2
  <1>5. D \subseteq S
    <2> HIDE DEF S, rank
    <2> QED
      BY <1>3, <1>4, RankInduction
  <1> QED
    BY <1>2, <1>5

-----------------------------------------------------------------------------
(* Prefixes: q is below p.                                                 *)

LEMMA PrefixIs ==
  ASSUME NEW p \in Seq(Names), NEW q \in Seq(Names)
  PROVE  IsPrefix(p, q) <=> Len(p) <= Len(q) /\ \A i \in 1..Len(p) : p[i] = q[i]
  <1>1. /\ Len(p) \in Nat /\ Len(q) \in Nat
        /\ \A i \in 1..Len(p) : p[i] \in Names
        /\ \A i \in 1..Len(q) : q[i] \in Names
    BY LenProperties
  <1> SUFFICES ASSUME Len(p) <= Len(q)
               PROVE  SubSeq(p, 1, Len(p)) = SubSeq(q, 1, Len(p))
                      <=> \A i \in 1..Len(p) : p[i] = q[i]
    BY DEF IsPrefix
  <1> DEFINE P == SubSeq(p, 1, Len(p))
             Q == SubSeq(q, 1, Len(p))
  <1>2. /\ P \in Seq(Names) /\ Len(P) = Len(p) /\ \A i \in 1..Len(p) : P[i] = p[i]
    BY <1>1
  <1>3. /\ Q \in Seq(Names) /\ Len(Q) = Len(p) /\ \A i \in 1..Len(p) : Q[i] = q[i]
    BY <1>1
  <1> HIDE DEF P, Q
  <1>4. P = Q <=> \A i \in 1..Len(p) : p[i] = q[i]
    BY <1>2, <1>3, SeqEqual
  <1> QED
    BY <1>4 DEF P, Q

LEMMA PrefixFacts ==
  ASSUME NEW p \in Seq(Names), NEW q \in Seq(Names)
  PROVE  /\ IsPrefix(p, p)
         /\ IsPrefix(Root, p)
         /\ IsPrefix(p, q) /\ Len(p) = Len(q) => p = q
         /\ IsPrefix(p, q) => Len(p) <= Len(q)
  <1>1. Len(p) \in Nat /\ Len(q) \in Nat /\ Root \in Seq(Names) /\ Len(Root) = 0
    BY LenProperties DEF Root
  <1>2. IsPrefix(p, p) /\ IsPrefix(Root, p)
    <2>1. Len(p) <= Len(p) /\ Len(Root) <= Len(p) /\ 1..Len(Root) = {}
      BY <1>1
    <2>2. \A i \in 1..Len(Root) : Root[i] = p[i]
      BY <2>1
    <2>3. IsPrefix(p, p)
      BY <2>1, PrefixIs
    <2>4. IsPrefix(Root, p)
      BY <1>1, <2>1, <2>2, PrefixIs
    <2> QED
      BY <2>3, <2>4
  <1>3. ASSUME IsPrefix(p, q), Len(p) = Len(q) PROVE p = q
    BY <1>3, PrefixIs, SeqEqual
  <1> QED
    BY <1>2, <1>3, PrefixIs

LEMMA PrefixTransitive ==
  ASSUME NEW p \in Seq(Names), NEW q \in Seq(Names), NEW r \in Seq(Names),
         IsPrefix(p, q), IsPrefix(q, r)
  PROVE  IsPrefix(p, r)
  <1>1. Len(p) \in Nat /\ Len(q) \in Nat /\ Len(r) \in Nat
    BY LenProperties
  <1>2. /\ Len(p) <= Len(q) /\ \A i \in 1..Len(p) : p[i] = q[i]
        /\ Len(q) <= Len(r) /\ \A i \in 1..Len(q) : q[i] = r[i]
    BY PrefixIs
  <1>3. Len(p) <= Len(r) /\ \A i \in 1..Len(p) : p[i] = r[i]
    BY <1>1, <1>2
  <1> QED
    BY <1>3, PrefixIs

\* Two paths of one length are not both above another.
LEMMA Comparable ==
  ASSUME NEW p \in Seq(Names), NEW q \in Seq(Names), NEW r \in Seq(Names),
         IsPrefix(p, r), IsPrefix(q, r), Len(p) = Len(q)
  PROVE  p = q
  <1>1. Len(p) \in Nat
    BY LenProperties
  <1>2. (\A i \in 1..Len(p) : p[i] = r[i]) /\ (\A i \in 1..Len(q) : q[i] = r[i])
    BY PrefixIs
  <1>3. \A i \in 1..Len(p) : p[i] = q[i]
    BY <1>2
  <1> QED
    BY <1>3, SeqEqual

LEMMA PrefixOfFront ==
  ASSUME NEW p \in Seq(Names), NEW q \in Seq(Names), q # Root
  PROVE  IsPrefix(p, q) <=> p = q \/ IsPrefix(p, Front(q))
  <1>1. Len(p) \in Nat /\ Len(q) \in Nat
    BY LenProperties
  <1>2. /\ Front(q) \in Seq(Names) /\ Len(Front(q)) = Len(q) - 1
        /\ \A i \in 1..Len(q) - 1 : Front(q)[i] = q[i]
    BY Parted
  <1>3. ASSUME IsPrefix(p, q), p # q PROVE IsPrefix(p, Front(q))
    <2>1. Len(p) <= Len(q) /\ Len(p) # Len(q) /\ \A i \in 1..Len(p) : p[i] = q[i]
      BY <1>3, PrefixIs, PrefixFacts
    <2>2. Len(p) <= Len(q) - 1 /\ \A i \in 1..Len(p) : i \in 1..Len(q) - 1
      BY <1>1, <2>1
    <2>3. Len(p) <= Len(Front(q)) /\ \A i \in 1..Len(p) : p[i] = Front(q)[i]
      BY <1>2, <2>1, <2>2
    <2> QED
      BY <1>2, <2>3, PrefixIs
  <1>4. IsPrefix(Front(q), q)
    <2>1. Len(Front(q)) <= Len(q) /\ \A i \in 1..Len(Front(q)) : Front(q)[i] = q[i]
      BY <1>1, <1>2
    <2> QED
      BY <1>2, <2>1, PrefixIs
  <1>5. IsPrefix(p, Front(q)) => IsPrefix(p, q)
    BY <1>2, <1>4, PrefixTransitive
  <1> QED
    BY <1>3, <1>5, PrefixFacts

\* What is below a node of a tree is the node or below a child of it.
LEMMA BelowAChild ==
  ASSUME NEW D, NodeSet(D), NEW p \in D
  PROVE  \A q \in D : IsPrefix(p, q) => q = p \/ \E c \in Children(D, p) : IsPrefix(c, q)
  <1> DEFINE S == {q \in D : IsPrefix(p, q) => q = p \/ \E c \in Children(D, p) : IsPrefix(c, q)}
             rank == [q \in D |-> Len(q)]
  <1>1. /\ D \subseteq Seq(Names) /\ \A q \in D : q # Root => Front(q) \in D
        /\ \A q \in D : Len(q) \in Nat
    BY LenProperties DEF NodeSet
  <1>2. ASSUME NEW q \in D, \A r \in D : rank[r] < rank[q] => r \in S
        PROVE  q \in S
    <2> SUFFICES ASSUME IsPrefix(p, q), q # p
                 PROVE  \E c \in Children(D, p) : IsPrefix(c, q)
      OBVIOUS
    <2>1. q # Root
      <3>1. Len(p) \in Nat /\ Len(Root) = 0 /\ Root \in Seq(Names)
        BY <1>1 DEF Root
      <3>2. q = Root => Len(p) <= 0
        BY <1>1, <3>1, PrefixFacts
      <3>3. q = Root => Len(p) = Len(Root)
        BY <3>1, <3>2
      <3> QED
        BY <1>1, <3>3, PrefixFacts
    <2>2. Front(q) \in D /\ Len(Front(q)) = Len(q) - 1
      BY <1>1, <2>1, Parted
    <2>3. IsPrefix(p, Front(q))
      BY <1>1, <2>1, PrefixOfFront
    <2>4. Front(q) \in S
      <3>1. rank[Front(q)] < rank[q]
        BY <1>1, <2>2
      <3> QED
        BY <1>2, <2>2, <3>1
    <2>5. CASE Front(q) = p
      <3>1. q \in Children(D, p) /\ IsPrefix(q, q)
        BY <1>1, <2>1, <2>5, PrefixFacts DEF Children
      <3> QED
        BY <3>1
    <2>6. CASE Front(q) # p
      <3>1. PICK c \in Children(D, p) : IsPrefix(c, Front(q))
        BY <2>3, <2>4, <2>6
      <3>2. c \in Seq(Names)
        BY <1>1 DEF Children
      <3>3. IsPrefix(c, q)
        BY <1>1, <2>1, <3>1, <3>2, PrefixOfFront
      <3> QED
        BY <3>3
    <2> QED
      BY <2>5, <2>6
  <1>3. D \subseteq S
    <2>1. \A q \in D : rank[q] \in Nat
      BY <1>1
    <2> HIDE DEF S, rank
    <2> QED
      BY <1>2, <2>1, RankInduction
  <1> QED
    BY <1>3

-----------------------------------------------------------------------------
(* Reports: what of a set is below the nodes of K, each node after those   *)
(* it is below.                                                            *)

Ordered(s) == \A i, j \in DOMAIN s : i < j => ~ IsPrefix(s[j], s[i])

Reports(s, K, R, V) ==
    /\ s \in Seq(V)
    /\ \A q : q \in ToSet(s) <=> q \in R /\ \E c \in K : IsPrefix(c, q)
    /\ Ordered(s)

\* Nodes of one level.
Level(K, V) == K \subseteq V /\ \A c, d \in K : Len(c) = Len(d)

LEMMA OrderedJoin ==
  ASSUME NEW V, NEW s \in Seq(V), NEW t \in Seq(V), Ordered(s), Ordered(t),
         \A x \in ToSet(s), y \in ToSet(t) : ~ IsPrefix(y, x)
  PROVE  Ordered(s \o t)
  <1>1. /\ Len(s) \in Nat /\ Len(t) \in Nat
        /\ DOMAIN s = 1..Len(s) /\ DOMAIN t = 1..Len(t)
        /\ DOMAIN (s \o t) = 1..(Len(s) + Len(t))
    BY ConcatProperties, LenProperties
  <1>2. \A i \in 1..(Len(s) + Len(t)) :
            (s \o t)[i] = IF i <= Len(s) THEN s[i] ELSE t[i - Len(s)]
    BY ConcatProperties
  <1>3. \A i \in 1..Len(s), j \in 1..Len(t) : ~ IsPrefix(t[j], s[i])
    BY <1>1 DEF ToSet
  <1> SUFFICES ASSUME NEW i \in 1..(Len(s) + Len(t)), NEW j \in 1..(Len(s) + Len(t)), i < j
               PROVE  ~ IsPrefix((s \o t)[j], (s \o t)[i])
    BY <1>1 DEF Ordered
  <1>4. CASE j <= Len(s)
    <2>1. i \in 1..Len(s) /\ j \in 1..Len(s) /\ i <= Len(s)
      BY <1>1, <1>4
    <2>2. (s \o t)[i] = s[i] /\ (s \o t)[j] = s[j]
      BY <1>2, <1>4, <2>1
    <2> QED
      BY <1>1, <2>1, <2>2 DEF Ordered
  <1>5. CASE i <= Len(s) /\ j > Len(s)
    <2>1. i \in 1..Len(s) /\ j - Len(s) \in 1..Len(t)
      BY <1>1, <1>5
    <2>2. (s \o t)[i] = s[i] /\ (s \o t)[j] = t[j - Len(s)]
      BY <1>1, <1>2, <1>5
    <2> QED
      BY <1>3, <2>1, <2>2
  <1>6. CASE i > Len(s) /\ j > Len(s)
    <2>1. i - Len(s) \in 1..Len(t) /\ j - Len(s) \in 1..Len(t) /\ i - Len(s) < j - Len(s)
      BY <1>1, <1>6
    <2>2. (s \o t)[i] = t[i - Len(s)] /\ (s \o t)[j] = t[j - Len(s)]
      BY <1>1, <1>2, <1>6
    <2> QED
      BY <1>1, <2>1, <2>2 DEF Ordered
  <1> QED
    BY <1>1, <1>4, <1>5, <1>6

LEMMA NothingToReport ==
  ASSUME NEW R, NEW V
  PROVE  Reports(<<>>, {}, R, V)
  BY DEF Reports, Ordered, ToSet

LEMMA ReportsJoin ==
  ASSUME NEW V, V \subseteq Seq(Names), NEW R, NEW K, NEW L, Level(K \cup L, V),
         K \cap L = {}, NEW s, NEW t, Reports(s, K, R, V), Reports(t, L, R, V)
  PROVE  Reports(s \o t, K \cup L, R, V)
  <1>1. s \in Seq(V) /\ t \in Seq(V) /\ s \o t \in Seq(V)
    BY ConcatProperties DEF Reports
  <1>2. \A x \in ToSet(s), y \in ToSet(t) : ~ IsPrefix(y, x)
    <2> SUFFICES ASSUME NEW x \in ToSet(s), NEW y \in ToSet(t), IsPrefix(y, x)
                 PROVE  FALSE
      OBVIOUS
    <2>1. PICK c \in K : IsPrefix(c, x)
      BY DEF Reports
    <2>2. PICK d \in L : IsPrefix(d, y)
      BY DEF Reports
    <2>3. x \in Seq(Names) /\ y \in Seq(Names)
      <3>1. \A z \in ToSet(s) : z \in V
        BY <1>1 DEF ToSet
      <3>2. \A z \in ToSet(t) : z \in V
        BY <1>1 DEF ToSet
      <3> QED
        BY <3>1, <3>2
    <2>4. c \in Seq(Names) /\ d \in Seq(Names) /\ Len(c) = Len(d)
      BY DEF Level
    <2>5. IsPrefix(d, x)
      BY <2>2, <2>3, <2>4, PrefixTransitive
    <2>6. c = d
      BY <2>1, <2>3, <2>4, <2>5, Comparable
    <2> QED
      BY <2>6
  <1>3. Ordered(s \o t)
    BY <1>1, <1>2, OrderedJoin DEF Reports
  <1>4. \A q : q \in ToSet(s \o t) <=> q \in ToSet(s) \/ q \in ToSet(t)
    BY <1>1, RangeJoins
  <1>5. \A q : q \in ToSet(s \o t) <=> q \in R /\ \E c \in K \cup L : IsPrefix(c, q)
    BY <1>4 DEF Reports
  <1> QED
    BY <1>1, <1>3, <1>5 DEF Reports

\* Some of the children are reported on, one after the other.
Partial(parts, kids, I, R, V) ==
    /\ I \subseteq 1..Len(kids)
    /\ \A i \in I : Reports(parts[i], {kids[i]}, R, V)
    /\ \A i \in (1..Len(kids)) \ I : parts[i] = <<>>

LEMMA ReportsConcatenation ==
  ASSUME NEW V, V \subseteq Seq(Names), NEW R, NEW kids \in Seq(V), IsInjective(kids),
         Level(ToSet(kids), V), NEW I, NEW parts, Partial(parts, kids, I, R, V)
  PROVE  Reports(Concatenation(parts, Len(kids)), {kids[i] : i \in I}, R, V)
  <1> DEFINE n == Len(kids)
             K(k) == {kids[i] : i \in {j \in I : j <= k}}
  <1>1. n \in Nat /\ DOMAIN kids = 1..n /\ I \subseteq 1..n /\ n \in 0..n /\ 0 \in 0..n
    BY LenProperties DEF Partial
  <1>2. \A i \in 1..n : kids[i] \in ToSet(kids) /\ \A j \in 1..n : kids[i] = kids[j] => i = j
    BY <1>1 DEF ToSet, IsInjective
  <1>3. \A k \in 0..n : Level(K(k), V)
    BY <1>1, <1>2 DEF Level
  <1>4. \A i \in 1..n : parts[i] \in Seq(V)
    <2>1. \A i \in I : parts[i] \in Seq(V)
      BY DEF Partial, Reports
    <2>2. <<>> \in Seq(V)
      OBVIOUS
    <2>3. \A i \in (1..n) \ I : parts[i] = <<>>
      BY DEF Partial
    <2> QED
      BY <2>1, <2>2, <2>3
  <1>5. Parts(parts, n, V)
    BY <1>1, <1>4 DEF Parts
  <1>6. PICK upto : IsJoin(upto, parts, n, V) /\ Concatenation(parts, n) = upto[n]
    <2> HIDE DEF n, K
    <2> QED
      BY <1>5, ConcatenationJoins
  <1> DEFINE S == {k \in 0..n : Reports(upto[k], K(k), R, V)}
  <1>7. 0 \in S
    <2>1. K(0) = {}
      BY <1>1
    <2>2. upto[0] = <<>>
      BY <1>6 DEF IsJoin
    <2> HIDE DEF K
    <2> QED
      BY <1>1, <2>1, <2>2, NothingToReport
  <1>8. ASSUME NEW k \in 1..n, k - 1 \in S PROVE k \in S
    <2>1. k \in 0..n /\ k - 1 \in 0..n
      BY <1>1
    <2>2. upto[k] = upto[k - 1] \o parts[k] /\ upto[k - 1] \in Seq(V)
      BY <1>6, <2>1 DEF IsJoin
    <2>3. CASE k \in I
      <3>1. K(k) = K(k - 1) \cup {kids[k]}
        <4>1. \A j \in I : j <= k <=> j <= k - 1 \/ j = k
          BY <1>1
        <4> QED
          BY <2>3, <4>1
      <3>2. K(k - 1) \cap {kids[k]} = {}
        <4>1. \A j \in I : j <= k - 1 => j # k /\ j \in 1..n
          BY <1>1
        <4> QED
          BY <1>2, <4>1
      <3>3. Reports(parts[k], {kids[k]}, R, V)
        BY <2>3 DEF Partial
      <3>4. Level(K(k), V)
        BY <1>3, <2>1
      <3>5. Reports(upto[k - 1], K(k - 1), R, V)
        BY <1>8
      <3> HIDE DEF K
      <3>6. Reports(upto[k - 1] \o parts[k], K(k - 1) \cup {kids[k]}, R, V)
        BY <3>1, <3>2, <3>3, <3>4, <3>5, ReportsJoin
      <3> QED
        BY <2>1, <2>2, <3>1, <3>6
    <2>4. CASE k \notin I
      <3>1. K(k) = K(k - 1)
        <4>1. \A j \in I : j <= k <=> j <= k - 1
          BY <1>1, <2>4
        <4> QED
          BY <4>1
      <3>2. parts[k] = <<>>
        BY <2>4 DEF Partial
      <3>3. upto[k] = upto[k - 1]
        BY <2>2, <3>2, ConcatEmptySeq
      <3>4. Reports(upto[k - 1], K(k - 1), R, V)
        BY <1>8
      <3> HIDE DEF K
      <3> QED
        BY <2>1, <3>1, <3>3, <3>4
    <2> QED
      BY <2>3, <2>4
  <1>9. n \in S
    <2> HIDE DEF S
    <2>1. 0..n \subseteq S
      BY <1>1, <1>7, <1>8, Climb
    <2> QED
      BY <1>1, <2>1
  <1>10. K(n) = {kids[i] : i \in I}
    <2>1. \A j \in I : j <= n
      BY <1>1
    <2> QED
      BY <2>1
  <1> HIDE DEF K
  <1> QED
    BY <1>6, <1>9, <1>10

\* A node and what is below it.
LEMMA ReportsTop ==
  ASSUME NEW V, NodeSet(V), NEW R, R \subseteq V, NEW p \in V, NEW self,
         self = IF p \in R THEN <<p>> ELSE <<>>,
         NEW s, Reports(s, Children(V, p), R, V)
  PROVE  Reports(self \o s, {p}, R, V)
  <1>1. V \subseteq Seq(Names) /\ p \in Seq(Names) /\ self \in Seq(V) /\ s \in Seq(V)
    BY DEF NodeSet, Reports
  <1>2. \A x : x \in ToSet(self) <=> x = p /\ p \in R
    <2>1. CASE p \in R
      BY <2>1, Singleton
    <2>2. CASE p \notin R
      BY <2>2 DEF ToSet
    <2> QED
      BY <2>1, <2>2
  <1>3. \A c \in Children(V, p) : c \in Seq(Names) /\ IsPrefix(p, c) /\ Len(c) = Len(p) + 1
    <2> SUFFICES ASSUME NEW c \in Children(V, p)
                 PROVE  c \in Seq(Names) /\ IsPrefix(p, c) /\ Len(c) = Len(p) + 1
      OBVIOUS
    <2>1. c \in Seq(Names) /\ c # Root /\ Front(c) = p
      BY <1>1 DEF Children
    <2>2. IsPrefix(p, Front(c))
      BY <1>1, <2>1, PrefixFacts
    <2>3. IsPrefix(p, c)
      BY <1>1, <2>1, <2>2, PrefixOfFront
    <2>4. Len(p) = Len(c) - 1 /\ Len(c) \in Nat
      BY <2>1, Parted, LenProperties
    <2> QED
      BY <2>1, <2>3, <2>4
  <1>4. \A q : q \in ToSet(self \o s) <=> q \in ToSet(self) \/ q \in ToSet(s)
    BY <1>1, RangeJoins
  <1>5. \A q \in ToSet(s) : q \in R /\ \E c \in Children(V, p) : IsPrefix(c, q)
    BY DEF Reports
  <1>6. ASSUME NEW q \in ToSet(s) PROVE q \in Seq(Names) /\ IsPrefix(p, q) /\ ~ IsPrefix(q, p)
    <2>1. PICK c \in Children(V, p) : IsPrefix(c, q)
      BY <1>5, <1>6
    <2>2. q \in Seq(Names)
      BY <1>1, <1>5, <1>6
    <2>3. IsPrefix(p, q)
      BY <1>1, <1>3, <2>1, <2>2, PrefixTransitive
    <2>4. Len(p) \in Nat /\ Len(q) \in Nat /\ Len(c) <= Len(q)
      BY <1>1, <1>3, <2>1, <2>2, LenProperties, PrefixFacts
    <2>5. ~ (Len(q) <= Len(p))
      BY <1>3, <2>4
    <2> QED
      BY <1>1, <2>2, <2>3, <2>5, PrefixFacts
  <1>7. Ordered(self)
    <2>1. CASE p \in R
      <3>1. DOMAIN self = {1}
        BY <2>1, Singleton
      <3> QED
        BY <3>1 DEF Ordered
    <2>2. CASE p \notin R
      BY <2>2 DEF Ordered
    <2> QED
      BY <2>1, <2>2
  <1>8. Ordered(self \o s)
    <2>1. \A x \in ToSet(self), y \in ToSet(s) : ~ IsPrefix(y, x)
      BY <1>2, <1>6
    <2> QED
      BY <1>1, <1>7, <2>1, OrderedJoin DEF Reports
  <1>9. ASSUME NEW q PROVE q \in ToSet(self \o s) <=> q \in R /\ \E c \in {p} : IsPrefix(c, q)
    <2>1. ASSUME q \in R, IsPrefix(p, q) PROVE q \in ToSet(self) \/ q \in ToSet(s)
      <3>1. q = p \/ \E c \in Children(V, p) : IsPrefix(c, q)
        BY <2>1, BelowAChild
      <3> QED
        BY <1>2, <2>1, <3>1 DEF Reports
    <2>2. q \in ToSet(self) => q \in R /\ IsPrefix(p, q)
      BY <1>1, <1>2, PrefixFacts
    <2>3. q \in ToSet(s) => q \in R /\ IsPrefix(p, q)
      BY <1>5, <1>6
    <2> QED
      BY <1>4, <2>1, <2>2, <2>3
  <1>10. self \o s \in Seq(V)
    BY <1>1, ConcatProperties
  <1> QED
    BY <1>8, <1>9, <1>10 DEF Reports

-----------------------------------------------------------------------------
(* What the comparisons report.                                            *)

\* All that is to be known of the children of p.
AreKids(kids, D, p) ==
    /\ kids \in Seq(D) /\ Len(kids) \in Nat /\ DOMAIN kids = 1..Len(kids)
    /\ \A i \in 1..Len(kids) : /\ kids[i] \in D /\ kids[i] # Root /\ Front(kids[i]) = p
                               /\ Len(kids[i]) = Len(p) + 1
    /\ Level(ToSet(kids), D) /\ IsInjective(kids)
    /\ {kids[i] : i \in 1..Len(kids)} = Children(D, p)
    /\ ToSet(kids) = Children(D, p)

LEMMA KidsAre ==
  ASSUME NEW D, D \subseteq Seq(Names), NEW p \in Seq(Names), NEW order, IsOrder(order)
  PROVE  AreKids(children(D, p, order), D, p)
  <1> DEFINE kids == children(D, p, order)
  <1>1. AreChildren(kids, D, p)
    BY ChildrenAre
  <1> HIDE DEF kids
  <1>2. kids \in Seq(D) /\ ToSet(kids) = Children(D, p) /\ IsInjective(kids)
    BY <1>1 DEF AreChildren
  <1>3. Len(kids) \in Nat /\ DOMAIN kids = 1..Len(kids)
    BY <1>2, LenProperties
  <1>4. {kids[i] : i \in 1..Len(kids)} = Children(D, p)
    BY <1>2, <1>3 DEF ToSet
  <1>5. ASSUME NEW c \in Children(D, p)
        PROVE  c \in D /\ c # Root /\ Front(c) = p /\ Len(c) = Len(p) + 1
    <2>1. c \in D /\ c \in Seq(Names) /\ c # Root /\ Front(c) = p
      BY DEF Children
    <2>2. Len(p) = Len(c) - 1 /\ Len(c) \in Nat /\ Len(p) \in Nat
      BY <2>1, Parted, LenProperties
    <2>3. \A x, y \in Nat : y = x - 1 => x = y + 1
      OBVIOUS
    <2> QED
      BY <2>1, <2>2, <2>3
  <1>6. Level(ToSet(kids), D)
    BY <1>2, <1>5 DEF Level
  <1>7. \A i \in 1..Len(kids) : kids[i] \in Children(D, p)
    BY <1>4
  <1>8. \A i \in 1..Len(kids) : /\ kids[i] \in D /\ kids[i] # Root /\ Front(kids[i]) = p
                                /\ Len(kids[i]) = Len(p) + 1
    BY <1>5, <1>7
  <1>9. AreKids(kids, D, p)
    BY <1>2, <1>3, <1>4, <1>6, <1>8 DEF AreKids
  <1> QED
    BY <1>9 DEF kids

\* The equation of Subtree.
SubtreeRecurs(below, D, order) ==
    below = [p \in D |->
                LET kids == children(D, p, order)
                IN  <<p>> \o Concatenation([i \in DOMAIN kids |-> below[kids[i]]], Len(kids))]

LEMMA SubtreeIs ==
  ASSUME NEW tree, NodeSet(DOMAIN tree), NEW order, IsOrder(order)
  PROVE  \A p \in DOMAIN tree : /\ Subtree(tree, order)[p] \in Seq(DOMAIN tree)
                                /\ Reports(Subtree(tree, order)[p], {p}, DOMAIN tree, DOMAIN tree)
  <1> DEFINE D == DOMAIN tree
             kids == [p \in D |-> children(D, p, order)]
             A == [p \in D |-> <<p>>]
             below == Subtree(tree, order)
  <1>1. D \subseteq Seq(Names) /\ \A p \in D : Len(p) \in Nat
    BY LenProperties DEF NodeSet
  <1>2. PICK n \in Nat : \A p \in D : Len(p) <= n
    BY DEF NodeSet
  <1>3. \A p \in D : AreKids(kids[p], D, p)
    BY <1>1, KidsAre
  <1>4. \A p \in D :
            /\ kids[p] \in Seq(D) /\ Len(kids[p]) \in Nat /\ DOMAIN kids[p] = 1..Len(kids[p])
            /\ \A i \in 1..Len(kids[p]) : kids[p][i] \in D /\ Len(kids[p][i]) = Len(p) + 1
    BY <1>3 DEF AreKids
  <1> HIDE DEF kids
  <1>5. Recursive(D, n, kids, A, A, A, FALSE, D)
    <2>1. \A p \in D : A[p] \in Seq(D)
      OBVIOUS
    <2> HIDE DEF A
    <2> QED
      BY <1>1, <1>2, <1>4, <2>1 DEF Recursive
  <1>6. ASSUME NEW f
        PROVE  Recurs(f, D, kids, A, A, A, FALSE) <=> SubtreeRecurs(f, D, order)
    <2>1. ASSUME NEW p \in D
          PROVE  Body(f, p, D, kids, A, A, A, FALSE)
                 = LET ks == children(D, p, order)
                   IN  <<p>> \o Concatenation([i \in DOMAIN ks |-> f[ks[i]]], Len(ks))
      <3>1. kids[p] = children(D, p, order)
        BY DEF kids
      <3>2. \A i \in DOMAIN kids[p] : Visit(f, kids[p][i], D, A) = f[kids[p][i]]
        BY <1>4 DEF Visit
      <3>3. [i \in DOMAIN kids[p] |-> Visit(f, kids[p][i], D, A)]
            = [i \in DOMAIN kids[p] |-> f[kids[p][i]]]
        BY <3>2
      <3> QED
        BY <3>1, <3>3 DEF Body
    <2> QED
      BY <2>1 DEF Recurs, SubtreeRecurs
  <1>7. below = CHOOSE f : SubtreeRecurs(f, D, order)
    BY DEF Subtree, SubtreeRecurs
  <1>8. \E f : Recurs(f, D, kids, A, A, A, FALSE)
    <2> HIDE DEF D, A
    <2> QED
      BY <1>5, RecursionExists
  <1>9. SubtreeRecurs(below, D, order)
    <2> HIDE DEF below, D, A
    <2> QED
      BY <1>6, <1>7, <1>8
  <1>10. Recurs(below, D, kids, A, A, A, FALSE)
    BY <1>6, <1>9
  <1> HIDE DEF below, D
  <1>11. \A p \in D : below[p] \in Seq(D)
    <2> HIDE DEF A
    <2> QED
      BY <1>5, <1>10, RecursionIs
  <1> DEFINE S == {p \in D : Reports(below[p], {p}, D, D)}
             rank == [p \in D |-> n - Len(p)]
  <1>12. ASSUME NEW p \in D, \A q \in D : rank[q] < rank[p] => q \in S
         PROVE  p \in S
    <2> DEFINE parts == [i \in DOMAIN kids[p] |-> below[kids[p][i]]]
               found == Concatenation(parts, Len(kids[p]))
    <2>1. below[p] = <<p>> \o found
      BY <1>9 DEF SubtreeRecurs, kids
    <2>2. ASSUME NEW i \in 1..Len(kids[p]) PROVE Reports(parts[i], {kids[p][i]}, D, D)
      <3>1. rank[kids[p][i]] < rank[p]
        <4>1. \A x, y \in Nat : x - (y + 1) < x - y
          OBVIOUS
        <4> QED
          BY <1>1, <1>4, <4>1
      <3>2. kids[p][i] \in S
        BY <1>4, <1>12, <3>1
      <3> QED
        BY <1>4, <3>2
    <2> HIDE DEF parts, S, rank
    <2>3. Partial(parts, kids[p], 1..Len(kids[p]), D, D)
      BY <2>2 DEF Partial
    <2>4. Level(ToSet(kids[p]), D) /\ IsInjective(kids[p])
      BY <1>3 DEF AreKids
    <2>5. Reports(found, {kids[p][i] : i \in 1..Len(kids[p])}, D, D)
      BY <1>1, <1>4, <2>3, <2>4, ReportsConcatenation
    <2>6. {kids[p][i] : i \in 1..Len(kids[p])} = Children(D, p)
      BY <1>3 DEF AreKids
    <2> HIDE DEF found
    <2>7. Reports(<<p>> \o found, {p}, D, D)
      <3>1. NodeSet(D) /\ D \subseteq D /\ <<p>> = IF p \in D THEN <<p>> ELSE <<>>
        BY DEF D
      <3> QED
        BY <2>5, <2>6, <3>1, ReportsTop
    <2> QED
      BY <2>1, <2>7 DEF S
  <1>13. D \subseteq S
    <2>1. \A p \in D : rank[p] \in Nat
      BY <1>1, <1>2
    <2> HIDE DEF S, rank
    <2> QED
      BY <1>12, <2>1, RankInduction
  <1> QED
    BY <1>11, <1>13 DEF D, below

\* What is above a node of a tree is in the tree.
LEMMA AboveIsIn ==
  ASSUME NEW D, NodeSet(D), NEW c \in Seq(Names)
  PROVE  \A q \in D : IsPrefix(c, q) => c \in D
  <1> DEFINE S == {q \in D : IsPrefix(c, q) => c \in D}
             rank == [q \in D |-> Len(q)]
  <1>1. /\ D \subseteq Seq(Names) /\ Root \in D
        /\ \A q \in D : q # Root => Front(q) \in D
        /\ \A q \in D : Len(q) \in Nat
    BY LenProperties DEF NodeSet
  <1>2. ASSUME NEW q \in D, \A r \in D : rank[r] < rank[q] => r \in S
        PROVE  q \in S
    <2> SUFFICES ASSUME IsPrefix(c, q) PROVE c \in D
      OBVIOUS
    <2>1. CASE q = Root
      <3>1. Len(c) \in Nat /\ Len(Root) = 0 /\ Len(c) <= Len(Root)
        BY <1>1, <2>1, LenProperties, PrefixFacts DEF Root
      <3>2. Len(c) = Len(Root)
        BY <3>1
      <3> QED
        BY <1>1, <2>1, <3>2, PrefixFacts
    <2>2. CASE q # Root
      <3>1. Front(q) \in D /\ Len(Front(q)) = Len(q) - 1
        BY <1>1, <2>2, Parted
      <3>2. Front(q) \in S
        <4>1. rank[Front(q)] < rank[q]
          BY <1>1, <3>1
        <4> QED
          BY <1>2, <3>1, <4>1
      <3>3. c = q \/ IsPrefix(c, Front(q))
        BY <1>1, <2>2, PrefixOfFront
      <3> QED
        BY <3>2, <3>3
    <2> QED
      BY <2>1, <2>2
  <1>3. D \subseteq S
    <2>1. \A q \in D : rank[q] \in Nat
      BY <1>1
    <2> HIDE DEF S, rank
    <2> QED
      BY <1>2, <2>1, RankInduction
  <1> QED
    BY <1>3

\* A subtree that only one tree has is reported in full.
LEMMA SubtreeReports ==
  ASSUME NEW tree, NodeSet(DOMAIN tree), NEW order, IsOrder(order),
         NEW D, NodeSet(D), NEW R, {q \in DOMAIN tree : q \notin D} \subseteq R,
         R \subseteq DOMAIN tree, NEW c \in DOMAIN tree, c \notin D
  PROVE  Reports(Subtree(tree, order)[c], {c}, R, DOMAIN tree)
  <1> DEFINE s == Subtree(tree, order)[c]
             V == DOMAIN tree
  <1>1. Reports(s, {c}, V, V)
    BY SubtreeIs
  <1>2. c \in Seq(Names)
    BY DEF NodeSet
  <1>3. \A q \in D : ~ IsPrefix(c, q)
    BY <1>2, AboveIsIn
  <1>4. \A q : IsPrefix(c, q) => (q \in V <=> q \in R)
    BY <1>3
  <1> HIDE DEF s, V
  <1>5. \A q : q \in ToSet(s) <=> q \in R /\ \E d \in {c} : IsPrefix(d, q)
    BY <1>1, <1>4 DEF Reports
  <1>6. Reports(s, {c}, R, V)
    BY <1>1, <1>5 DEF Reports
  <1> QED
    BY <1>6 DEF s, V

\* What addedNodes reports, and its equation.
AddedSet(base, current) ==
    {p \in DOMAIN current : p \notin DOMAIN base \/ Modified(base, current, p)}

AddedRecurs(compare, base, current, order) ==
    compare = [p \in DOMAIN base \cap DOMAIN current |->
        LET kids == children(DOMAIN current, p, NameOrder)
        IN  Self(base, current, p) \o Concatenation([i \in DOMAIN kids |->
                IF kids[i] \in DOMAIN base THEN compare[kids[i]]
                                           ELSE Subtree(current, order)[kids[i]]],
                Len(kids))]

LEMMA AddedAre ==
  ASSUME NEW base, NodeSet(DOMAIN base), NEW current, NodeSet(DOMAIN current),
         NEW order, IsOrder(order)
  PROVE  Reports(addedNodes(base, current, order), {Root}, AddedSet(base, current),
                 DOMAIN current)
  <1> DEFINE V == DOMAIN current
             D == DOMAIN base \cap DOMAIN current
             R == AddedSet(base, current)
             kids == [p \in D |-> children(V, p, NameOrder)]
             A == [p \in D |-> Self(base, current, p)]
             B == Subtree(current, order)
             Eq(f) == Recurs(f, D, kids, A, B, A, FALSE)
             compare == CHOOSE f : AddedRecurs(f, base, current, order)
  <1>1. /\ V \subseteq Seq(Names) /\ D \subseteq V /\ Root \in D /\ R \subseteq V
        /\ \A p \in V : Len(p) \in Nat
    BY LenProperties DEF NodeSet, AddedSet
  <1>2. PICK n \in Nat : \A p \in V : Len(p) <= n
    BY DEF NodeSet
  <1>3. \A p \in D : AreKids(kids[p], V, p)
    BY <1>1, KidsAre, PathAssumption
  <1> HIDE DEF kids
  <1>4. \A p \in D :
            /\ kids[p] \in Seq(V) /\ Len(kids[p]) \in Nat /\ DOMAIN kids[p] = 1..Len(kids[p])
            /\ \A i \in 1..Len(kids[p]) : kids[p][i] \in V /\ Len(kids[p][i]) = Len(p) + 1
    BY <1>3 DEF AreKids
  <1>5. \A q \in V : q \in D <=> q \in DOMAIN base
    OBVIOUS
  <1>6. \A q \in V : B[q] \in Seq(V)
    BY SubtreeIs
  <1>7. Recursive(D, n, kids, A, B, A, FALSE, V)
    <2>1. \A p \in D : A[p] \in Seq(V)
      <3>1. ASSUME NEW p \in V PROVE <<>> \in Seq(V) /\ <<p>> \in Seq(V)
        OBVIOUS
      <3>2. ASSUME NEW p \in V PROVE Self(base, current, p) \in Seq(V)
        <4> HIDE DEF V
        <4> QED
          BY <3>1 DEF Self
      <3> QED
        BY <3>2
    <2> HIDE DEF A, B, V, D
    <2> QED
      BY <1>1, <1>2, <1>4, <1>6, <2>1 DEF Recursive
  <1>8. ASSUME NEW f PROVE Eq(f) <=> AddedRecurs(f, base, current, order)
    <2>1. ASSUME NEW p \in D
          PROVE  Body(f, p, D, kids, A, B, A, FALSE)
                 = LET ks == children(V, p, NameOrder)
                   IN  Self(base, current, p) \o Concatenation([i \in DOMAIN ks |->
                           IF ks[i] \in DOMAIN base THEN f[ks[i]]
                                                    ELSE Subtree(current, order)[ks[i]]],
                           Len(ks))
      <3>1. kids[p] = children(V, p, NameOrder)
        BY DEF kids
      <3>2. \A i \in DOMAIN kids[p] :
                Visit(f, kids[p][i], D, B)
                = IF kids[p][i] \in DOMAIN base THEN f[kids[p][i]] ELSE B[kids[p][i]]
        <4> HIDE DEF B, V, D
        <4> QED
          BY <1>4, <1>5 DEF Visit
      <3>3. [i \in DOMAIN kids[p] |-> Visit(f, kids[p][i], D, B)]
            = [i \in DOMAIN kids[p] |->
                  IF kids[p][i] \in DOMAIN base THEN f[kids[p][i]] ELSE B[kids[p][i]]]
        BY <3>2
      <3>4. A[p] = Self(base, current, p)
        OBVIOUS
      <3> HIDE DEF A, V, D
      <3> QED
        BY <3>1, <3>3, <3>4 DEF Body
    <2> QED
      BY <2>1 DEF Recurs, AddedRecurs
  <1>9. addedNodes(base, current, order) = compare[Root]
    BY DEF addedNodes, AddedRecurs
  <1>10. \E f : Eq(f)
    <2> HIDE DEF D, A, B, V
    <2> QED
      BY <1>7, RecursionExists
  <1>11. AddedRecurs(compare, base, current, order)
    <2> HIDE DEF Eq
    <2> QED
      BY <1>8, <1>10
  <1>12. Eq(compare)
    <2> HIDE DEF Eq, compare
    <2> QED
      BY <1>8, <1>11
  <1> HIDE DEF compare
  <1> DEFINE S == {p \in D : Reports(compare[p], {p}, R, V)}
             rank == [p \in D |-> n - Len(p)]
  <1>13. ASSUME NEW p \in D, \A q \in D : rank[q] < rank[p] => q \in S
         PROVE  p \in S
    <2> DEFINE parts == [i \in DOMAIN kids[p] |->
                             IF kids[p][i] \in DOMAIN base THEN compare[kids[p][i]]
                                                           ELSE B[kids[p][i]]]
               found == Concatenation(parts, Len(kids[p]))
    <2>1. compare[p] = Self(base, current, p) \o found
      BY <1>11 DEF AddedRecurs, kids
    <2>2. ASSUME NEW i \in 1..Len(kids[p]) PROVE Reports(parts[i], {kids[p][i]}, R, V)
      <3>1. CASE kids[p][i] \in DOMAIN base
        <4>1. kids[p][i] \in D
          BY <1>4, <1>5, <3>1
        <4>2. rank[kids[p][i]] < rank[p]
          <5>1. \A x, y \in Nat : x - (y + 1) < x - y
            OBVIOUS
          <5>2. Len(p) \in Nat /\ Len(kids[p][i]) = Len(p) + 1
            BY <1>1, <1>4
          <5> QED
            BY <4>1, <5>1, <5>2
        <4>3. kids[p][i] \in S
          BY <1>13, <4>1, <4>2
        <4>4. parts[i] = compare[kids[p][i]]
          BY <1>4, <3>1
        <4> HIDE DEF parts, R, V
        <4> QED
          BY <4>3, <4>4
      <3>2. CASE kids[p][i] \notin DOMAIN base
        <4>1. {q \in V : q \notin DOMAIN base} \subseteq R
          BY DEF AddedSet
        <4>2. parts[i] = B[kids[p][i]] /\ kids[p][i] \in V
          BY <1>4, <3>2
        <4> HIDE DEF parts, R
        <4>3. Reports(Subtree(current, order)[kids[p][i]], {kids[p][i]}, R, DOMAIN current)
          BY <1>1, <3>2, <4>1, <4>2, SubtreeReports
        <4> QED
          BY <4>2, <4>3
      <3> QED
        BY <3>1, <3>2
    <2> HIDE DEF parts, S, rank, R
    <2>3. Partial(parts, kids[p], 1..Len(kids[p]), R, V)
      BY <2>2 DEF Partial
    <2>4. /\ Level(ToSet(kids[p]), V) /\ IsInjective(kids[p])
          /\ {kids[p][i] : i \in 1..Len(kids[p])} = Children(V, p)
      BY <1>3 DEF AreKids
    <2>5. Reports(found, {kids[p][i] : i \in 1..Len(kids[p])}, R, V)
      <3> HIDE DEF V, D
      <3> QED
        BY <1>1, <1>4, <2>3, <2>4, ReportsConcatenation
    <2> HIDE DEF found
    <2>6. Reports(Self(base, current, p) \o found, {p}, R, V)
      <3>1. Self(base, current, p) = IF p \in R THEN <<p>> ELSE <<>>
        BY DEF R, AddedSet, Self
      <3>2. NodeSet(V) /\ p \in V
        OBVIOUS
      <3> HIDE DEF V, D
      <3> QED
        BY <1>1, <2>4, <2>5, <3>1, <3>2, ReportsTop
    <2> QED
      BY <2>1, <2>6 DEF S
  <1>14. D \subseteq S
    <2>1. \A p \in D : rank[p] \in Nat
      BY <1>1, <1>2
    <2> HIDE DEF S, rank, D
    <2> QED
      BY <1>13, <2>1, RankInduction
  <1> QED
    BY <1>1, <1>9, <1>14

\* What removedNodes reports, and its equation.
RemovedSet(base, current) ==
    {p \in DOMAIN base : p \notin DOMAIN current \/ Modified(base, current, p)}

RemovedRecurs(compare, base, current, order) ==
    compare = [p \in DOMAIN base \cap DOMAIN current |->
        LET kids == children(DOMAIN base, p, NameOrder)
        IN  Self(base, current, p)
            \o Concatenation([i \in DOMAIN kids |->
                IF kids[i] \in DOMAIN current THEN compare[kids[i]] ELSE <<>>], Len(kids))
            \o Concatenation([i \in DOMAIN kids |->
                IF kids[i] \in DOMAIN current THEN <<>> ELSE Subtree(base, order)[kids[i]]],
                Len(kids))]

LEMMA RemovedAre ==
  ASSUME NEW base, NodeSet(DOMAIN base), NEW current, NodeSet(DOMAIN current),
         NEW order, IsOrder(order)
  PROVE  Reports(removedNodes(base, current, order), {Root}, RemovedSet(base, current),
                 DOMAIN base)
  <1> DEFINE V == DOMAIN base
             D == DOMAIN base \cap DOMAIN current
             R == RemovedSet(base, current)
             kids == [p \in D |-> children(V, p, NameOrder)]
             below == Subtree(base, order)
             A == [p \in D |-> Self(base, current, p)]
             B == [q \in V |-> <<>>]
             left(p) == [i \in DOMAIN kids[p] |->
                            IF kids[p][i] \in DOMAIN current THEN <<>> ELSE below[kids[p][i]]]
             C == [p \in D |-> Concatenation(left(p), Len(kids[p]))]
             Eq(f) == Recurs(f, D, kids, A, B, C, TRUE)
             compare == CHOOSE f : RemovedRecurs(f, base, current, order)
  <1>1. /\ V \subseteq Seq(Names) /\ D \subseteq V /\ Root \in D /\ R \subseteq V
        /\ \A p \in V : Len(p) \in Nat
    BY LenProperties DEF NodeSet, RemovedSet
  <1>2. PICK n \in Nat : \A p \in V : Len(p) <= n
    BY DEF NodeSet
  <1>3. \A p \in D : AreKids(kids[p], V, p)
    BY <1>1, KidsAre, PathAssumption
  <1>20. \A p \in D : kids[p] = children(V, p, NameOrder)
    OBVIOUS
  <1> HIDE DEF kids
  <1>4. \A p \in D :
            /\ kids[p] \in Seq(V) /\ Len(kids[p]) \in Nat /\ DOMAIN kids[p] = 1..Len(kids[p])
            /\ \A i \in 1..Len(kids[p]) : kids[p][i] \in V /\ Len(kids[p][i]) = Len(p) + 1
    BY <1>3 DEF AreKids
  <1>5. \A q \in V : q \in D <=> q \in DOMAIN current
    OBVIOUS
  <1>6. \A q \in V : below[q] \in Seq(V)
    BY SubtreeIs
  <1> HIDE DEF below
  <1>7. Recursive(D, n, kids, A, B, C, TRUE, V)
    <2>1. \A p \in D : A[p] \in Seq(V)
      <3>1. ASSUME NEW p \in V PROVE <<>> \in Seq(V) /\ <<p>> \in Seq(V)
        OBVIOUS
      <3>2. ASSUME NEW p \in V PROVE Self(base, current, p) \in Seq(V)
        <4> HIDE DEF V
        <4> QED
          BY <3>1 DEF Self
      <3> QED
        BY <3>2
    <2>2. \A q \in V : B[q] \in Seq(V)
      OBVIOUS
    <2>3. \A p \in D : C[p] \in Seq(V)
      <3> SUFFICES ASSUME NEW p \in D PROVE Concatenation(left(p), Len(kids[p])) \in Seq(V)
        OBVIOUS
      <3>1. <<>> \in Seq(V)
        OBVIOUS
      <3>2. \A i \in 1..Len(kids[p]) : left(p)[i] \in Seq(V)
        <4> HIDE DEF V, D
        <4> QED
          BY <1>4, <1>6, <3>1
      <3> DEFINE parts == left(p)
      <3> HIDE DEF left
      <3>3. Parts(parts, Len(kids[p]), V)
        BY <1>4, <3>2 DEF Parts
      <3> HIDE DEF parts
      <3>4. Concatenation(parts, Len(kids[p])) \in Seq(V)
        BY <3>3, ConcatenationIs
      <3> QED
        BY <3>4 DEF parts
    <2> HIDE DEF A, B, C, V, D
    <2> QED
      BY <1>1, <1>2, <1>4, <2>1, <2>2, <2>3 DEF Recursive
  <1>8. ASSUME NEW f PROVE Eq(f) <=> RemovedRecurs(f, base, current, order)
    <2>1. ASSUME NEW p \in D
          PROVE  Body(f, p, D, kids, A, B, C, TRUE)
                 = LET ks == children(V, p, NameOrder)
                   IN  Self(base, current, p)
                       \o Concatenation([i \in DOMAIN ks |->
                           IF ks[i] \in DOMAIN current THEN f[ks[i]] ELSE <<>>], Len(ks))
                       \o Concatenation([i \in DOMAIN ks |->
                           IF ks[i] \in DOMAIN current THEN <<>>
                                                       ELSE Subtree(base, order)[ks[i]]],
                           Len(ks))
      <3>1. kids[p] = children(V, p, NameOrder)
        BY <1>20
      <3>2. \A i \in DOMAIN kids[p] :
                Visit(f, kids[p][i], D, B)
                = IF kids[p][i] \in DOMAIN current THEN f[kids[p][i]] ELSE <<>>
        <4>1. \A q \in V : B[q] = <<>>
          OBVIOUS
        <4> HIDE DEF B, V, D
        <4> QED
          BY <1>4, <1>5, <4>1 DEF Visit
      <3>3. [i \in DOMAIN kids[p] |-> Visit(f, kids[p][i], D, B)]
            = [i \in DOMAIN kids[p] |->
                  IF kids[p][i] \in DOMAIN current THEN f[kids[p][i]] ELSE <<>>]
        BY <3>2
      <3>4. A[p] = Self(base, current, p) /\ C[p] = Concatenation(left(p), Len(kids[p]))
        OBVIOUS
      <3> HIDE DEF A, B, C, V, D
      <3> QED
        BY <3>1, <3>3, <3>4 DEF Body, below
    <2> QED
      BY <2>1 DEF Recurs, RemovedRecurs
  <1>9. removedNodes(base, current, order) = compare[Root]
    BY DEF removedNodes, RemovedRecurs
  <1>10. \E f : Eq(f)
    <2> HIDE DEF D, A, B, C, V
    <2> QED
      BY <1>7, RecursionExists
  <1>11. RemovedRecurs(compare, base, current, order)
    <2> HIDE DEF Eq
    <2> QED
      BY <1>8, <1>10
  <1>12. \A p \in D : compare[p] \in Seq(V)
    <2>1. Recurs(compare, D, kids, A, B, C, TRUE)
      <3> HIDE DEF compare, D, A, B, C, V
      <3> QED
        BY <1>8, <1>11
    <2> HIDE DEF compare, D, A, B, C, V
    <2> QED
      BY <1>7, <2>1, RecursionIs
  <1> HIDE DEF compare
  <1> DEFINE S == {p \in D : Reports(compare[p], {p}, R, V)}
             rank == [p \in D |-> n - Len(p)]
  <1>13. ASSUME NEW p \in D, \A q \in D : rank[q] < rank[p] => q \in S
         PROVE  p \in S
    <2> DEFINE common == [i \in DOMAIN kids[p] |->
                   IF kids[p][i] \in DOMAIN current THEN compare[kids[p][i]] ELSE <<>>]
               n1 == Concatenation(common, Len(kids[p]))
               n2 == Concatenation(left(p), Len(kids[p]))
               I == {i \in 1..Len(kids[p]) : kids[p][i] \in DOMAIN current}
               J == (1..Len(kids[p])) \ I
               gone == left(p)
               K == {kids[p][i] : i \in I}
               L == {kids[p][i] : i \in J}
    <2>1. compare[p] = Self(base, current, p) \o n1 \o n2
      BY <1>11, <1>20 DEF RemovedRecurs, below
    <2>2. ASSUME NEW i \in I PROVE Reports(common[i], {kids[p][i]}, R, V) /\ gone[i] = <<>>
      <3>1. kids[p][i] \in D /\ i \in DOMAIN kids[p]
        BY <1>4, <1>5
      <3>2. rank[kids[p][i]] < rank[p]
        <4>1. \A x, y \in Nat : x - (y + 1) < x - y
          OBVIOUS
        <4>2. Len(p) \in Nat /\ Len(kids[p][i]) = Len(p) + 1
          BY <1>1, <1>4
        <4> QED
          BY <3>1, <4>1, <4>2
      <3>3. kids[p][i] \in S
        BY <1>13, <3>1, <3>2
      <3>4. common[i] = compare[kids[p][i]] /\ gone[i] = <<>>
        BY <3>1
      <3> HIDE DEF common, R, V, gone
      <3> QED
        BY <3>3, <3>4
    <2>3. ASSUME NEW i \in J PROVE Reports(gone[i], {kids[p][i]}, R, V) /\ common[i] = <<>>
      <3>1. {q \in V : q \notin DOMAIN current} \subseteq R
        BY DEF RemovedSet
      <3>2. /\ gone[i] = below[kids[p][i]] /\ common[i] = <<>>
            /\ kids[p][i] \in V /\ kids[p][i] \notin DOMAIN current
        BY <1>4
      <3> HIDE DEF common, gone, R, I, J
      <3>3. Reports(Subtree(base, order)[kids[p][i]], {kids[p][i]}, R, DOMAIN base)
        BY <1>1, <3>1, <3>2, SubtreeReports
      <3> QED
        BY <3>2, <3>3 DEF below
    <2>4. I \subseteq 1..Len(kids[p]) /\ J \subseteq 1..Len(kids[p])
          /\ (1..Len(kids[p])) \ I = J /\ (1..Len(kids[p])) \ J = I
      OBVIOUS
    <2>5. /\ Level(ToSet(kids[p]), V) /\ IsInjective(kids[p])
          /\ {kids[p][i] : i \in 1..Len(kids[p])} = Children(V, p)
          /\ ToSet(kids[p]) = Children(V, p)
      BY <1>3 DEF AreKids
    <2>6. K \cup L = Children(V, p) /\ K \cap L = {}
      BY <2>5
    <2> HIDE DEF common, gone, I, J, S, rank, R
    <2>7. Partial(common, kids[p], I, R, V) /\ Partial(gone, kids[p], J, R, V)
      BY <2>2, <2>3, <2>4 DEF Partial
    <2>8. Reports(n1, K, R, V)
      <3>1. Reports(Concatenation(common, Len(kids[p])), {kids[p][i] : i \in I}, R, V)
        <4> HIDE DEF V, D, left
        <4> QED
          BY <1>1, <1>4, <2>5, <2>7, ReportsConcatenation
      <3> QED
        BY <3>1
    <2>9. Reports(n2, L, R, V)
      <3>1. Reports(Concatenation(gone, Len(kids[p])), {kids[p][i] : i \in J}, R, V)
        <4> HIDE DEF V, D, left
        <4> QED
          BY <1>1, <1>4, <2>5, <2>7, ReportsConcatenation
      <3> QED
        BY <3>1 DEF gone
    <2>10. Level(K \cup L, V)
      <3> HIDE DEF V, K, L
      <3> QED
        BY <2>5, <2>6
    <2> HIDE DEF n1, n2, K, L
    <2>11. Reports(n1 \o n2, K \cup L, R, V)
      <3> HIDE DEF V, D
      <3> QED
        BY <1>1, <2>6, <2>8, <2>9, <2>10, ReportsJoin
    <2>12. Reports(Self(base, current, p) \o (n1 \o n2), {p}, R, V)
      <3>1. Self(base, current, p) = IF p \in R THEN <<p>> ELSE <<>>
        BY DEF R, RemovedSet, Self
      <3>2. NodeSet(V) /\ p \in V
        OBVIOUS
      <3>3. Reports(n1 \o n2, Children(V, p), R, V)
        BY <2>6, <2>11
      <3> HIDE DEF V, D
      <3> QED
        BY <1>1, <3>1, <3>2, <3>3, ReportsTop
    <2>13. Self(base, current, p) \o n1 \o n2 = Self(base, current, p) \o (n1 \o n2)
      <3>1. n1 \in Seq(V) /\ n2 \in Seq(V)
        BY <2>8, <2>9 DEF Reports
      <3>2. Self(base, current, p) \in Seq(V)
        <4>1. <<>> \in Seq(V) /\ <<p>> \in Seq(V)
          OBVIOUS
        <4> HIDE DEF V
        <4> QED
          BY <4>1 DEF Self
      <3> HIDE DEF V
      <3> QED
        BY <3>1, <3>2, ConcatAssociative
    <2> QED
      BY <2>1, <2>12, <2>13 DEF S
  <1>14. D \subseteq S
    <2>1. \A p \in D : rank[p] \in Nat
      BY <1>1, <1>2
    <2> HIDE DEF S, rank, D
    <2> QED
      BY <1>13, <2>1, RankInduction
  <1> QED
    BY <1>1, <1>9, <1>14

-----------------------------------------------------------------------------
(* The two comparisons are what they are for.                              *)

\* The comparer's report is exact for any two trees (MerkleTreeComparer.cpp):
\* what is removed and what is added make the one out of the other, every file
\* whose hash changed is among them, nothing is reported twice, and nothing
\* before the directory it is in.
THEOREM ComparerIsExact ==
  ASSUME NEW base, NodeSet(DOMAIN base), NEW current, NodeSet(DOMAIN current)
  PROVE  ReportIsExact(base, current)
  <1> DEFINE added == addedNodes(base, current, NameOrder)
             removed == removedNodes(base, current, NameOrder)
  <1>1. /\ Reports(added, {Root}, AddedSet(base, current), DOMAIN current)
        /\ Reports(removed, {Root}, RemovedSet(base, current), DOMAIN base)
    BY AddedAre, RemovedAre, PathAssumption
  <1>2. DOMAIN base \subseteq Seq(Names) /\ DOMAIN current \subseteq Seq(Names)
    BY DEF NodeSet
  <1> HIDE DEF added, removed
  <1>3. ToSet(added) = AddedSet(base, current) /\ ToSet(removed) = RemovedSet(base, current)
    <2>1. \A q \in AddedSet(base, current) \cup RemovedSet(base, current) : IsPrefix(Root, q)
      BY <1>2, PrefixFacts DEF AddedSet, RemovedSet
    <2> QED
      BY <1>1, <2>1 DEF Reports
  <1>4. (DOMAIN base \ ToSet(removed)) \cup ToSet(added) = DOMAIN current
    BY <1>3 DEF AddedSet, RemovedSet, Modified
  <1>5. \A p \in DOMAIN base \cap DOMAIN current :
            current[p].isFile /\ p \notin ToSet(added) => base[p].hash = current[p].hash
    BY <1>3 DEF AddedSet, Modified
  <1>6. ASSUME NEW s, NEW V, V \subseteq Seq(Names), s \in Seq(V), Ordered(s)
        PROVE  \A i, j \in DOMAIN s : i < j => s[i] # s[j] /\ ~ IsPrefix(s[j], s[i])
    <2> SUFFICES ASSUME NEW i \in DOMAIN s, NEW j \in DOMAIN s, i < j
                 PROVE  s[i] # s[j] /\ ~ IsPrefix(s[j], s[i])
      OBVIOUS
    <2>1. ~ IsPrefix(s[j], s[i])
      BY <1>6 DEF Ordered
    <2>2. s[j] \in V
      BY <1>6
    <2>3. IsPrefix(s[j], s[j])
      BY <1>6, <2>2, PrefixFacts
    <2> QED
      BY <2>1, <2>3
  <1>7. /\ \A i, j \in DOMAIN added : i < j => added[i] # added[j] /\ ~ IsPrefix(added[j], added[i])
        /\ \A i, j \in DOMAIN removed :
               i < j => removed[i] # removed[j] /\ ~ IsPrefix(removed[j], removed[i])
    BY <1>1, <1>2, <1>6 DEF Reports
  <1> QED
    BY <1>4, <1>5, <1>7 DEF ReportIsExact, added, removed

\* The equation of detectChanges.
Kids(tree, p) == ToSet(children(DOMAIN tree, p, NameOrder))

ChangesBelow(changes, old, new, p) ==
    IF old[p].hash # new[p].hash THEN {Change(p, "Modified")}
    ELSE {Change(c, "Deleted") : c \in Kids(old, p) \ Kids(new, p)}
         \cup {Change(c, "Added") : c \in Kids(new, p) \ Kids(old, p)}
         \cup UNION {changes[c] : c \in Kids(old, p) \cap Kids(new, p)}

Detects(changes, old, new) ==
    changes = [p \in DOMAIN old \cap DOMAIN new |-> ChangesBelow(changes, old, new, p)]

LEMMA KidsOf ==
  ASSUME NEW tree, NodeSet(DOMAIN tree), NEW p \in DOMAIN tree
  PROVE  /\ Kids(tree, p) = Children(DOMAIN tree, p)
         /\ \A c \in Kids(tree, p) : c \in DOMAIN tree /\ Len(c) = Len(p) + 1
  <1> DEFINE kids == children(DOMAIN tree, p, NameOrder)
  <1>1. AreKids(kids, DOMAIN tree, p)
    BY KidsAre, PathAssumption DEF NodeSet
  <1>2. Kids(tree, p) = ToSet(kids)
    BY DEF Kids
  <1> HIDE DEF kids
  <1>3. Kids(tree, p) = {kids[i] : i \in 1..Len(kids)} /\ Kids(tree, p) = Children(DOMAIN tree, p)
    BY <1>1, <1>2 DEF AreKids
  <1> QED
    BY <1>1, <1>3 DEF AreKids

LEMMA DetectionExists ==
  ASSUME NEW old, NodeSet(DOMAIN old), NEW new, NodeSet(DOMAIN new)
  PROVE  \E changes : Detects(changes, old, new)
  <1> DEFINE D == DOMAIN old \cap DOMAIN new
  <1>1. \A p \in D : Len(p) \in Nat
    BY LenProperties DEF NodeSet
  <1>2. PICK n \in Nat : \A p \in D : Len(p) <= n
    BY DEF NodeSet
  <1> DEFINE Good(k, f) == \A p \in D : n - Len(p) < k => f[p] = ChangesBelow(f, old, new, p)
             S == {k \in 0..n + 1 : \E f : Good(k, f)}
  <1>3. 0 \in S
    <2>1. Good(0, [p \in D |-> {}])
      BY <1>1, <1>2
    <2> HIDE DEF Good
    <2> QED
      BY <1>2, <2>1
  <1>4. ASSUME NEW k \in 1..n + 1, k - 1 \in S PROVE k \in S
    <2>1. PICK f : Good(k - 1, f)
      BY <1>4
    <2> DEFINE g == [p \in D |-> ChangesBelow(f, old, new, p)]
    <2>2. \A q \in D : g[q] = ChangesBelow(f, old, new, q)
      OBVIOUS
    <2> HIDE DEF g
    <2>3. ASSUME NEW p \in D, n - Len(p) < k PROVE g[p] = ChangesBelow(g, old, new, p)
      <3>1. ASSUME NEW c \in Kids(old, p) \cap Kids(new, p) PROVE f[c] = g[c]
        <4>1. c \in D /\ Len(c) = Len(p) + 1
          BY KidsOf
        <4>2. \A x, y, z \in Nat : x - y < z => x - (y + 1) < z - 1
          OBVIOUS
        <4>3. k \in Nat
          BY <1>2
        <4>4. n - (Len(p) + 1) < k - 1
          BY <1>1, <1>2, <2>3, <4>2, <4>3
        <4>5. f[c] = ChangesBelow(f, old, new, c)
          BY <2>1, <4>1, <4>4
        <4> QED
          BY <2>2, <4>1, <4>5
      <3>2. {f[c] : c \in Kids(old, p) \cap Kids(new, p)}
            = {g[c] : c \in Kids(old, p) \cap Kids(new, p)}
        BY <3>1
      <3>3. ChangesBelow(f, old, new, p) = ChangesBelow(g, old, new, p)
        BY <3>2 DEF ChangesBelow
      <3> QED
        BY <2>2, <3>3
    <2>4. Good(k, g)
      BY <2>3
    <2>5. k \in 0..n + 1
      BY <1>2
    <2> HIDE DEF Good
    <2> QED
      BY <2>4, <2>5
  <1>5. n + 1 \in S
    <2> HIDE DEF S
    <2>1. n + 1 \in Nat /\ n + 1 \in 0..n + 1
      BY <1>2
    <2>2. 0..n + 1 \subseteq S
      BY <1>3, <1>4, <2>1, Climb
    <2> QED
      BY <2>1, <2>2
  <1>6. PICK f : Good(n + 1, f)
    BY <1>5
  <1>7. \A p \in D : f[p] = ChangesBelow(f, old, new, p)
    <2>1. \A x, y \in Nat : x - y < x + 1
      OBVIOUS
    <2> QED
      BY <1>1, <1>2, <1>6, <2>1
  <1> DEFINE g == [p \in D |-> f[p]]
  <1>8. \A p \in D : g[p] = ChangesBelow(g, old, new, p)
    <2> SUFFICES ASSUME NEW p \in D PROVE g[p] = ChangesBelow(g, old, new, p)
      OBVIOUS
    <2>1. \A c \in Kids(old, p) \cap Kids(new, p) : f[c] = g[c]
      BY KidsOf
    <2>2. {f[c] : c \in Kids(old, p) \cap Kids(new, p)}
          = {g[c] : c \in Kids(old, p) \cap Kids(new, p)}
      BY <2>1
    <2>3. ChangesBelow(f, old, new, p) = ChangesBelow(g, old, new, p)
      BY <2>2 DEF ChangesBelow
    <2> QED
      BY <1>7, <2>3
  <1>9. g = [p \in D |-> ChangesBelow(g, old, new, p)]
    BY <1>8
  <1> HIDE DEF g
  <1> QED
    BY <1>9 DEF Detects

\* Where the detector finds nothing the trees have the same nodes and hashes.
LEMMA NothingDetected ==
  ASSUME NEW old, NodeSet(DOMAIN old), NEW new, NodeSet(DOMAIN new),
         detectChanges(old, new) = {}
  PROVE  \A p \in DOMAIN old \cup DOMAIN new :
             p \in DOMAIN old /\ p \in DOMAIN new /\ old[p].hash = new[p].hash
  <1> DEFINE D == DOMAIN old \cup DOMAIN new
             changes == CHOOSE f : Detects(f, old, new)
  <1>1. /\ D \subseteq Seq(Names) /\ Root \in DOMAIN old /\ Root \in DOMAIN new
        /\ \A q \in DOMAIN old : q # Root => Front(q) \in DOMAIN old
        /\ \A q \in DOMAIN new : q # Root => Front(q) \in DOMAIN new
        /\ \A q \in D : Len(q) \in Nat
    BY LenProperties DEF NodeSet
  <1>2. detectChanges(old, new) = changes[Root]
    BY DEF detectChanges, Detects, ChangesBelow, Kids
  <1>3. Detects(changes, old, new)
    BY DetectionExists
  <1> HIDE DEF changes
  <1>4. \A p \in DOMAIN old \cap DOMAIN new : changes[p] = ChangesBelow(changes, old, new, p)
    <2>1. changes = [p \in DOMAIN old \cap DOMAIN new |-> ChangesBelow(changes, old, new, p)]
      BY <1>3 DEF Detects
    <2> QED
      BY <2>1
  <1>5. ASSUME NEW p \in DOMAIN old \cap DOMAIN new, changes[p] = {}
        PROVE  /\ old[p].hash = new[p].hash
               /\ Kids(old, p) = Kids(new, p)
               /\ \A c \in Kids(old, p) : changes[c] = {}
    <2>1. ChangesBelow(changes, old, new, p) = {}
      BY <1>4, <1>5
    <2>2. old[p].hash = new[p].hash
      BY <2>1 DEF ChangesBelow
    <2>3. /\ {Change(c, "Deleted") : c \in Kids(old, p) \ Kids(new, p)} = {}
          /\ {Change(c, "Added") : c \in Kids(new, p) \ Kids(old, p)} = {}
          /\ UNION {changes[c] : c \in Kids(old, p) \cap Kids(new, p)} = {}
      BY <2>1, <2>2 DEF ChangesBelow
    <2>4. Kids(old, p) = Kids(new, p)
      BY <2>3
    <2>5. \A c \in Kids(old, p) : changes[c] = {}
      BY <2>3, <2>4
    <2> QED
      BY <2>2, <2>4, <2>5
  <1> DEFINE S == {q \in D : q \in DOMAIN old /\ q \in DOMAIN new /\ changes[q] = {}}
             rank == [q \in D |-> Len(q)]
  <1>6. ASSUME NEW q \in D, \A r \in D : rank[r] < rank[q] => r \in S
        PROVE  q \in S
    <2>1. CASE q = Root
      BY <1>1, <1>2, <2>1
    <2>2. CASE q # Root
      <3>1. Front(q) \in D /\ Len(Front(q)) = Len(q) - 1
        BY <1>1, <2>2, Parted
      <3>2. Front(q) \in S
        <4>1. rank[Front(q)] < rank[q]
          BY <1>1, <3>1
        <4> QED
          BY <1>6, <3>1, <4>1
      <3>3. /\ Kids(old, Front(q)) = Kids(new, Front(q))
            /\ \A c \in Kids(old, Front(q)) : changes[c] = {}
        BY <1>5, <3>2
      <3>4. /\ Kids(old, Front(q)) = Children(DOMAIN old, Front(q))
            /\ Kids(new, Front(q)) = Children(DOMAIN new, Front(q))
        BY <3>2, KidsOf
      <3>5. q \in Children(DOMAIN old, Front(q)) \/ q \in Children(DOMAIN new, Front(q))
        BY <2>2 DEF Children
      <3>6. q \in Kids(old, Front(q)) /\ q \in DOMAIN old /\ q \in DOMAIN new
        BY <3>3, <3>4, <3>5 DEF Children
      <3> QED
        BY <3>3, <3>6
    <2> QED
      BY <2>1, <2>2
  <1>7. D \subseteq S
    <2>1. \A q \in D : rank[q] \in Nat
      BY <1>1
    <2> HIDE DEF S, rank
    <2> QED
      BY <1>6, <2>1, RankInduction
  <1> QED
    BY <1>5, <1>7

\* Where the detector finds no change between two trees, the comparer finds
\* none either (FileChangeDetector.cpp).
THEOREM DetectorIsComplete ==
  ASSUME NEW base, NodeSet(DOMAIN base), NEW current, NodeSet(DOMAIN current)
  PROVE  DetectorMissesNothing(base, current)
  <1> DEFINE added == addedNodes(base, current, NameOrder)
             removed == removedNodes(base, current, NameOrder)
  <1> SUFFICES ASSUME detectChanges(base, current) = {} PROVE added = <<>> /\ removed = <<>>
    BY DEF DetectorMissesNothing
  <1>1. /\ Reports(added, {Root}, AddedSet(base, current), DOMAIN current)
        /\ Reports(removed, {Root}, RemovedSet(base, current), DOMAIN base)
    BY AddedAre, RemovedAre, PathAssumption
  <1>2. AddedSet(base, current) = {} /\ RemovedSet(base, current) = {}
    BY NothingDetected DEF AddedSet, RemovedSet, Modified
  <1> HIDE DEF added, removed
  <1>3. ASSUME NEW s, NEW V, Reports(s, {Root}, {}, V) PROVE s = <<>>
    <2>1. s \in Seq(V) /\ ToSet(s) = {}
      BY <1>3 DEF Reports
    <2>2. DOMAIN s = {}
      BY <2>1 DEF ToSet
    <2> QED
      BY <2>1, <2>2, EmptySeq, LenProperties
  <1> QED
    BY <1>1, <1>2, <1>3

-----------------------------------------------------------------------------
(* The trees of directories.                                               *)

LEMMA BoundedPaths ==
  \E n \in Nat : \A p \in Paths : Len(p) <= n
  <1>1. PICK s \in Seq(Paths) : \A p \in Paths : \E i \in 1..Len(s) : s[i] = p
    BY PathAssumption DEF IsFiniteSet
  <1>2. Len(s) \in Nat /\ \A i \in 1..Len(s) : s[i] \in Paths /\ Len(s[i]) \in Nat
    BY PathAssumption, LenProperties
  <1> DEFINE S == {k \in 0..Len(s) : \E n \in Nat : \A i \in 1..k : Len(s[i]) <= n}
  <1>3. 0 \in S
    <2>1. 1..0 = {} /\ 0 \in 0..Len(s) /\ 0 \in Nat
      BY <1>2
    <2> QED
      BY <2>1
  <1>4. ASSUME NEW k \in 1..Len(s), k - 1 \in S PROVE k \in S
    <2>1. PICK n \in Nat : \A i \in 1..(k - 1) : Len(s[i]) <= n
      BY <1>4
    <2>2. Len(s[k]) \in Nat /\ n + Len(s[k]) \in Nat
      BY <1>2
    <2>3. \A i \in 1..k : Len(s[i]) <= n + Len(s[k])
      <3> SUFFICES ASSUME NEW i \in 1..k PROVE Len(s[i]) <= n + Len(s[k])
        OBVIOUS
      <3>1. CASE i = k
        BY <2>2, <3>1
      <3>2. CASE i # k
        <4>1. i \in 1..(k - 1) /\ i \in 1..Len(s)
          BY <1>2, <3>2
        <4> QED
          BY <1>2, <2>1, <2>2, <4>1
      <3> QED
        BY <3>1, <3>2
    <2>4. k \in 0..Len(s)
      BY <1>2
    <2> QED
      BY <2>2, <2>3, <2>4
  <1>5. Len(s) \in S
    <2> DEFINE m == Len(s)
    <2>1. m \in Nat /\ m \in 0..m /\ \A k \in 1..m : k - 1 \in S => k \in S
      BY <1>2, <1>4
    <2> HIDE DEF S, m
    <2>2. 0..m \subseteq S
      BY <1>3, <2>1, Climb
    <2> QED
      BY <2>1, <2>2 DEF m
  <1>6. PICK n \in Nat : \A i \in 1..Len(s) : Len(s[i]) <= n
    BY <1>5
  <1> QED
    BY <1>1, <1>6

LEMMA DirectoryIs ==
  ASSUME NEW dir \in Directories
  PROVE  /\ DOMAIN dir \subseteq Paths
         /\ dir \in [DOMAIN dir -> Versions \cup {Dir}]
         /\ \A p \in DOMAIN dir : Len(p) > 1 => Front(p) \in DOMAIN dir /\ dir[Front(p)] = Dir
  BY DEF Directories

\* The file system limits the length of a path, and has a directory for
\* whatever is in one.
LEMMA NodesOfDirectory ==
  ASSUME NEW dir \in Directories
  PROVE  NodeSet(DOMAIN dir \cup {Root})
  <1> DEFINE D == DOMAIN dir \cup {Root}
  <1>1. DOMAIN dir \subseteq Paths /\ Paths \subseteq Seq(Names) /\ Root \in Seq(Names)
    BY DirectoryIs, PathAssumption DEF Root
  <1>2. ASSUME NEW p \in D, p # Root PROVE Front(p) \in D
    <2>1. p \in DOMAIN dir /\ p \in Seq(Names) /\ Len(p) \in Nat
      BY <1>1, <1>2, LenProperties
    <2>2. Front(p) \in Seq(Names) /\ Len(Front(p)) = Len(p) - 1
      BY <1>2, <2>1, Parted
    <2>3. CASE Len(p) > 1
      BY <2>1, <2>3, DirectoryIs
    <2>4. CASE ~ (Len(p) > 1)
      <3>1. Len(Front(p)) = 0
        <4>1. Len(Front(p)) \in Nat
          BY <2>2, LenProperties
        <4> QED
          BY <2>1, <2>2, <2>4, <4>1
      <3>2. Front(p) = Root
        BY <2>2, <3>1, EmptySeq DEF Root
      <3> QED
        BY <3>2
    <2> QED
      BY <2>3, <2>4
  <1>3. \E n \in Nat : \A p \in D : Len(p) <= n
    <2>1. PICK n \in Nat : \A p \in Paths : Len(p) <= n
      BY BoundedPaths
    <2>2. Len(Root) = 0
      BY DEF Root
    <2> QED
      BY <1>1, <2>1, <2>2
  <1> QED
    BY <1>1, <1>2, <1>3 DEF NodeSet

LEMMA TreeDomain ==
  ASSUME NEW dir, NEW order
  PROVE  DOMAIN buildTree(dir, order) = DOMAIN dir \cup {Root}
  BY DEF buildTree

LEMMA LoadedDomain ==
  ASSUME NEW tree
  PROVE  DOMAIN loadFromFile(tree) = DOMAIN tree
  BY DEF loadFromFile

\* The hash of a directory is made of those of what is in it, the hash of a
\* file of its chunks.
Hashed(hash, dir, order, p) ==
    IF isDirectory(dir, p)
    THEN LET kids == children(DOMAIN dir \cup {Root}, p, order)
         IN  combineHashes([i \in DOMAIN kids |-> hash[kids[i]]])
    ELSE calculateHash(dir[p])

IsHash(hash, dir, order) ==
    hash = [p \in DOMAIN dir \cup {Root} |-> Hashed(hash, dir, order, p)]

\* Everything in the directory is in a directory.
Hierarchy(dir) == NodeSet(DOMAIN dir \cup {Root})

LEMMA HashExists ==
  ASSUME NEW dir, Hierarchy(dir), NEW order, IsOrder(order)
  PROVE  \E hash : IsHash(hash, dir, order)
  <1> DEFINE D == DOMAIN dir \cup {Root}
             kids(p) == children(D, p, order)
  <1>1. NodeSet(D)
    BY DEF Hierarchy
  <1>2. D \subseteq Seq(Names) /\ \A p \in D : Len(p) \in Nat
    BY <1>1, LenProperties DEF NodeSet
  <1>3. PICK n \in Nat : \A p \in D : Len(p) <= n
    BY <1>1 DEF NodeSet
  <1>4. ASSUME NEW p \in D, NEW i \in DOMAIN kids(p)
        PROVE  kids(p)[i] \in D /\ Len(kids(p)[i]) = Len(p) + 1
    <2> DEFINE ks == kids(p)
    <2>1. AreKids(ks, D, p)
      BY <1>2, KidsAre
    <2> HIDE DEF ks, kids
    <2>2. i \in DOMAIN ks
      BY DEF ks
    <2>3. ks[i] \in D /\ Len(ks[i]) = Len(p) + 1
      BY <2>1, <2>2 DEF AreKids
    <2> QED
      BY <2>3 DEF ks
  <1>5. ASSUME NEW f, NEW g, NEW p \in D, \A i \in DOMAIN kids(p) : f[kids(p)[i]] = g[kids(p)[i]]
        PROVE  Hashed(f, dir, order, p) = Hashed(g, dir, order, p)
    <2>1. [i \in DOMAIN kids(p) |-> f[kids(p)[i]]] = [i \in DOMAIN kids(p) |-> g[kids(p)[i]]]
      BY <1>5
    <2> QED
      BY <2>1 DEF Hashed
  <1> HIDE DEF kids
  <1> DEFINE Good(k, f) == \A p \in D : n - Len(p) < k => f[p] = Hashed(f, dir, order, p)
             S == {k \in 0..n + 1 : \E f : Good(k, f)}
  <1>6. 0 \in S
    <2>1. Good(0, [p \in D |-> <<>>])
      BY <1>2, <1>3
    <2> HIDE DEF Good
    <2> QED
      BY <1>3, <2>1
  <1>7. ASSUME NEW k \in 1..n + 1, k - 1 \in S PROVE k \in S
    <2>1. PICK f : Good(k - 1, f)
      BY <1>7
    <2> DEFINE g == [p \in D |-> Hashed(f, dir, order, p)]
    <2>2. \A q \in D : g[q] = Hashed(f, dir, order, q)
      OBVIOUS
    <2> HIDE DEF g
    <2>3. ASSUME NEW p \in D, n - Len(p) < k PROVE g[p] = Hashed(g, dir, order, p)
      <3>1. ASSUME NEW i \in DOMAIN kids(p) PROVE f[kids(p)[i]] = g[kids(p)[i]]
        <4>1. kids(p)[i] \in D /\ Len(kids(p)[i]) = Len(p) + 1
          BY <1>4
        <4>2. \A x, y, z \in Nat : x - y < z => x - (y + 1) < z - 1
          OBVIOUS
        <4>3. k \in Nat
          BY <1>3
        <4>4. n - (Len(p) + 1) < k - 1
          BY <1>2, <1>3, <2>3, <4>2, <4>3
        <4>5. f[kids(p)[i]] = Hashed(f, dir, order, kids(p)[i])
          BY <2>1, <4>1, <4>4
        <4> QED
          BY <2>2, <4>1, <4>5
      <3>2. Hashed(f, dir, order, p) = Hashed(g, dir, order, p)
        BY <1>5, <3>1
      <3> QED
        BY <2>2, <3>2
    <2>4. Good(k, g)
      BY <2>3
    <2>5. k \in 0..n + 1
      BY <1>3
    <2> HIDE DEF Good
    <2> QED
      BY <2>4, <2>5
  <1>8. n + 1 \in S
    <2> HIDE DEF S
    <2>1. n + 1 \in Nat /\ n + 1 \in 0..n + 1
      BY <1>3
    <2>2. 0..n + 1 \subseteq S
      BY <1>6, <1>7, <2>1, Climb
    <2> QED
      BY <2>1, <2>2
  <1>9. PICK f : Good(n + 1, f)
    BY <1>8
  <1>10. \A p \in D : f[p] = Hashed(f, dir, order, p)
    <2>1. \A x, y \in Nat : x - y < x + 1
      OBVIOUS
    <2> QED
      BY <1>2, <1>3, <1>9, <2>1
  <1> DEFINE g == [p \in D |-> f[p]]
  <1>11. \A q \in D : g[q] = f[q]
    OBVIOUS
  <1>12. DOMAIN g = D /\ g = [p \in D |-> g[p]]
    OBVIOUS
  <1> HIDE DEF g
  <1>13. \A p \in D : g[p] = Hashed(g, dir, order, p)
    BY <1>4, <1>5, <1>10, <1>11
  <1>14. g = [p \in D |-> Hashed(g, dir, order, p)]
    BY <1>12, <1>13
  <1> QED
    BY <1>14 DEF IsHash

NodeIs(tree, dir, order, p) ==
    LET kids == children(DOMAIN dir \cup {Root}, p, order)
    IN  /\ isDirectory(dir, p) => tree[p].hash = [i \in DOMAIN kids |-> tree[kids[i]].hash]
        /\ ~ isDirectory(dir, p) => tree[p].hash = dir[p]
        /\ tree[p].isFile <=> ~ isDirectory(dir, p)

LEMMA HashIs ==
  ASSUME NEW dir, Hierarchy(dir), NEW order, IsOrder(order),
         NEW p \in DOMAIN dir \cup {Root}
  PROVE  NodeIs(buildTree(dir, order), dir, order, p)
  <1> DEFINE D == DOMAIN dir \cup {Root}
             tree == buildTree(dir, order)
             kids == children(D, p, order)
             Eq(f) == f = [q \in D |-> Hashed(f, dir, order, q)]
             hash == CHOOSE f : Eq(f)
  <1>1. tree = [q \in D |-> [hash |-> hash[q], isFile |-> ~ isDirectory(dir, q)]]
    BY DEF buildTree, Hashed
  <1>2. Eq(hash)
    <2>1. \E f : Eq(f)
      BY HashExists DEF IsHash
    <2> HIDE DEF Eq
    <2> QED
      BY <2>1
  <1> HIDE DEF hash, tree
  <1>3. \A q \in D : tree[q].hash = hash[q] /\ hash[q] = Hashed(hash, dir, order, q)
    BY <1>1, <1>2
  <1>4. AreKids(kids, D, p)
    BY KidsAre DEF NodeSet, Hierarchy
  <1>5. \A i \in DOMAIN kids : kids[i] \in D
    <2> HIDE DEF kids, D
    <2> QED
      BY <1>4 DEF AreKids
  <1>6. isDirectory(dir, p) => tree[p].hash = [i \in DOMAIN kids |-> hash[kids[i]]]
    BY <1>3 DEF Hashed, combineHashes
  <1>7. \A i \in DOMAIN kids : tree[kids[i]].hash = hash[kids[i]]
    BY <1>3, <1>5
  <1>8. [i \in DOMAIN kids |-> hash[kids[i]]] = [i \in DOMAIN kids |-> tree[kids[i]].hash]
    BY <1>7
  <1>9. ~ isDirectory(dir, p) => tree[p].hash = dir[p]
    BY <1>3 DEF Hashed, calculateHash
  <1>10. tree[p].isFile <=> ~ isDirectory(dir, p)
    BY <1>1
  <1> QED
    BY <1>6, <1>8, <1>9, <1>10 DEF tree, NodeIs
=============================================================================
