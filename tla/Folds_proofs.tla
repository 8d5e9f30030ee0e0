---------------------------- MODULE Folds_proofs ----------------------------
(***************************************************************************)
(* What the folds of the community modules compute, as far as the other    *)
(* proofs need it: a sum over a set, and sequences joined one after the    *)
(* other.  Induction is by a smallest counterexample, since the provers    *)
(* cannot instantiate the library's induction theorems.                    *)
(***************************************************************************)
EXTENDS Integers, FiniteSets, Sequences, FiniteSetTheorems, SequenceTheorems,
        WellFoundedInduction, TLAPS

(* A set of naturals that is not empty has a smallest element.             *)
LEMMA SmallestOf ==
    ASSUME NEW T, T \subseteq Nat, T # {}
    PROVE  \E x \in T : \A y \in T : x <= y
<1> DEFINE less == {p \in Nat \X Nat : p[1] < p[2]}
<1>1. IsWellFoundedOn(less, Nat)
  <2>1. OpToRel(<, Nat) = less
    BY DEF OpToRel
  <2> HIDE DEF less
  <2> QED BY <2>1, NatLessThanWellFounded
<1>2. \A x, y \in Nat : <<y, x>> \notin less => x <= y
  OBVIOUS
<1>3. PICK x \in T : \A y \in T : <<y, x>> \notin less
  <2> HIDE DEF less
  <2> QED BY <1>1, WFMin
<1> HIDE DEF less
<1>4. \A y \in T : x <= y
  BY <1>2, <1>3, Zenon
<1> QED BY <1>4

-----------------------------------------------------------------------------
(* Sums over a finite set.                                                 *)

(* f is the function that a sum of the weights w over S is defined by.     *)
SumsUp(f, w, S) ==
    f = [s \in SUBSET S |->
            IF s = {} THEN 0
            ELSE w[CHOOSE x \in s : TRUE] + f[s \ {CHOOSE x \in s : TRUE}]]

(* The elements of S have parts that are finite and pairwise disjoint.     *)
Apart(part, S) ==
    /\ IsFiniteSet(S)
    /\ \A x \in S : IsFiniteSet(part[x])
    /\ \A x, y \in S : x # y => part[x] \cap part[y] = {}

Joined(part, s) == UNION {part[x] : x \in s}

LEMMA JoinedFinite ==
    ASSUME NEW S, NEW part, Apart(part, S), NEW s \in SUBSET S
    PROVE  IsFiniteSet(Joined(part, s))
<1> DEFINE P == {part[x] : x \in s}
           f == [x \in s |-> part[x]]
<1>1. IsFiniteSet(s)
  BY FS_Subset DEF Apart
<1>2. f \in Surjection(s, P)
  BY DEF Surjection
<1>3. IsFiniteSet(P)
  BY <1>1, <1>2, FS_Surjection
<1>4. \A p \in P : IsFiniteSet(p)
  BY DEF Apart
<1> QED BY <1>3, <1>4, FS_UNION DEF Joined

(* One part more.                                                          *)
LEMMA OnePartMore ==
    ASSUME NEW S, NEW part, Apart(part, S), NEW s \in SUBSET S, NEW x \in s
    PROVE  Cardinality(Joined(part, s))
              = Cardinality(part[x]) + Cardinality(Joined(part, s \ {x}))
<1> DEFINE rest == Joined(part, s \ {x})
<1>1. IsFiniteSet(rest) /\ IsFiniteSet(part[x])
  BY JoinedFinite DEF Apart
<1>2. Joined(part, s) = part[x] \cup rest
  BY DEF Joined
<1>3. part[x] \cap rest = {}
  BY DEF Joined, Apart
<1> HIDE DEF rest
<1>4. /\ Cardinality(rest) \in Nat
      /\ Cardinality(part[x]) \in Nat
      /\ Cardinality(part[x] \cap rest) = 0
  BY <1>1, <1>3, FS_CardinalityType, FS_EmptySet
<1>5. Cardinality(part[x] \cup rest)
        = Cardinality(part[x]) + Cardinality(rest) - Cardinality(part[x] \cap rest)
  BY <1>1, FS_Union
<1>6. Cardinality(part[x] \cup rest) = Cardinality(part[x]) + Cardinality(rest)
  BY <1>4, <1>5
<1> QED BY <1>2, <1>6 DEF rest

(* The sizes of the unions are such a function ...                         *)
LEMMA SizesSumUp ==
    ASSUME NEW S, NEW part, Apart(part, S), NEW w,
           \A x \in S : w[x] = Cardinality(part[x])
    PROVE  SumsUp([s \in SUBSET S |-> Cardinality(Joined(part, s))], w, S)
<1> DEFINE h == [s \in SUBSET S |-> Cardinality(Joined(part, s))]
           x(s) == CHOOSE x \in s : TRUE
<1>1. ASSUME NEW s \in SUBSET S
      PROVE  h[s] = IF s = {} THEN 0 ELSE w[x(s)] + h[s \ {x(s)}]
  <2>1. CASE s = {}
    <3>1. Joined(part, s) = {}
      BY <2>1 DEF Joined
    <3> QED BY <2>1, <3>1, FS_EmptySet
  <2>2. CASE s # {}
    <3>1. x(s) \in s
      BY <2>2
    <3> HIDE DEF x
    <3>2. Cardinality(Joined(part, s)) = Cardinality(part[x(s)])
             + Cardinality(Joined(part, s \ {x(s)}))
      BY <3>1, OnePartMore
    <3>3. w[x(s)] = Cardinality(part[x(s)])
      BY <3>1
    <3> QED BY <2>2, <3>2, <3>3
  <2> QED BY <2>1, <2>2
<1>2. h = [s \in SUBSET S |-> h[s]]
  OBVIOUS
<1> HIDE DEF h
<1> QED BY <1>1, <1>2 DEF SumsUp, h

(* ... and the only one: the sum of the parts' sizes is the union's.       *)
LEMMA SumIsSize ==
    ASSUME NEW S, NEW part, Apart(part, S), NEW w,
           \A x \in S : w[x] = Cardinality(part[x]),
           NEW f, SumsUp(f, w, S)
    PROVE  f[S] = Cardinality(Joined(part, S))
<1> DEFINE h == [s \in SUBSET S |-> Cardinality(Joined(part, s))]
           bad == {s \in SUBSET S : f[s] # h[s]}
           sizes == {Cardinality(s) : s \in bad}
<1>1. SumsUp(h, w, S)
  BY SizesSumUp
<1>2. \A s \in SUBSET S : IsFiniteSet(s) /\ Cardinality(s) \in Nat
  BY FS_Subset, FS_CardinalityType DEF Apart
<1>3. h[S] = Cardinality(Joined(part, S))
  OBVIOUS
<1> HIDE DEF h
<1>4. ASSUME bad # {} PROVE FALSE
  <2>1. PICK n \in sizes : \A m \in sizes : n <= m
    <3>1. sizes \subseteq Nat /\ sizes # {}
      BY <1>2, <1>4
    <3> HIDE DEF sizes
    <3> QED BY <3>1, SmallestOf
  <2>2. PICK s \in bad : \A t \in bad : Cardinality(s) <= Cardinality(t)
    BY <2>1
  <2> DEFINE x == CHOOSE x \in s : TRUE
  <2>3. s # {}
    BY <1>1, <2>2 DEF SumsUp
  <2>4. x \in s /\ s \ {x} \in SUBSET S
    BY <2>3
  <2>5. f[s] = w[x] + f[s \ {x}] /\ h[s] = w[x] + h[s \ {x}]
    BY <1>1, <2>3 DEF SumsUp
  <2> HIDE DEF x
  <2>6. Cardinality(s \ {x}) < Cardinality(s)
    <3>1. IsFiniteSet(s) /\ Cardinality(s) \in Nat
      BY <1>2
    <3>2. Cardinality(s \ {x}) = Cardinality(s) - 1
      BY <2>4, <3>1, FS_RemoveElement
    <3> QED BY <3>1, <3>2
  <2>7. s \ {x} \notin bad
    <3>1. /\ Cardinality(s) \in Nat /\ Cardinality(s \ {x}) \in Nat
      BY <1>2, <2>4
    <3> HIDE DEF bad
    <3> QED BY <2>2, <2>6, <3>1
  <2>8. f[s \ {x}] = h[s \ {x}]
    BY <2>4, <2>7
  <2> QED BY <2>2, <2>5, <2>8
<1> QED BY <1>3, <1>4

(* Any naturals are the sizes of such parts ...                            *)
LEMMA PartsOfSizes ==
    ASSUME NEW S, IsFiniteSet(S), NEW w, \A x \in S : w[x] \in Nat
    PROVE  \E part : Apart(part, S) /\ \A x \in S : w[x] = Cardinality(part[x])
<1> DEFINE part == [x \in S |-> {x} \X (1 .. w[x])]
<1>1. ASSUME NEW x \in S
      PROVE  IsFiniteSet(part[x]) /\ w[x] = Cardinality(part[x])
  <2> DEFINE n == w[x]
  <2>1. n \in Nat
    OBVIOUS
  <2> HIDE DEF n
  <2>2. IsFiniteSet(1 .. n) /\ Cardinality(1 .. n) = IF 1 > n THEN 0 ELSE n - 1 + 1
    BY <2>1, FS_Interval
  <2>3. /\ IsFiniteSet({x}) /\ Cardinality({x}) = 1
        /\ IsFiniteSet(1 .. n) /\ Cardinality(1 .. n) = n
    <3>1. Cardinality(1 .. n) = n
      BY <2>1, <2>2
    <3> QED BY <2>2, <3>1, FS_Singleton
  <2>4. /\ IsFiniteSet({x} \X (1 .. n))
        /\ Cardinality({x} \X (1 .. n)) = Cardinality({x}) * Cardinality(1 .. n)
    BY <2>3, FS_Product
  <2>5. Cardinality({x} \X (1 .. n)) = n
    BY <2>1, <2>3, <2>4
  <2> QED BY <2>4, <2>5 DEF n
<1>2. \A x, y \in S : x # y => part[x] \cap part[y] = {}
  OBVIOUS
<1> HIDE DEF part
<1>3. Apart(part, S)
  BY <1>1, <1>2 DEF Apart
<1> QED BY <1>1, <1>3

(* ... and so have a sum, a natural.                                       *)
LEMMA SumExists ==
    ASSUME NEW S, IsFiniteSet(S), NEW w, \A x \in S : w[x] \in Nat
    PROVE  \E f : SumsUp(f, w, S)
<1>1. PICK part : Apart(part, S) /\ \A x \in S : w[x] = Cardinality(part[x])
  BY PartsOfSizes
<1>2. SumsUp([s \in SUBSET S |-> Cardinality(Joined(part, s))], w, S)
  BY <1>1, SizesSumUp
<1> QED BY <1>2

LEMMA SumType ==
    ASSUME NEW S, IsFiniteSet(S), NEW w, \A x \in S : w[x] \in Nat,
           NEW f, SumsUp(f, w, S)
    PROVE  f[S] \in Nat
<1>1. PICK part : Apart(part, S) /\ \A x \in S : w[x] = Cardinality(part[x])
  BY PartsOfSizes
<1>2. f[S] = Cardinality(Joined(part, S))
  BY <1>1, SumIsSize
<1>3. Cardinality(Joined(part, S)) \in Nat
  BY <1>1, JoinedFinite, FS_CardinalityType
<1> QED BY <1>2, <1>3

-----------------------------------------------------------------------------
(* The joining of sequences, one after the other.                          *)
Joins(F, seqs) ==
    /\ F[0] = <<>>
    /\ \A i \in 1 .. Len(seqs) : F[i] = F[i - 1] \o seqs[i]

LEMMA JoinsType ==
    ASSUME NEW T, NEW n \in Nat, NEW seqs, Len(seqs) = n,
           \A i \in 1 .. n : seqs[i] \in Seq(T),
           NEW F, DOMAIN F = 0 .. n, Joins(F, seqs)
    PROVE  \A i \in 0 .. n : F[i] \in Seq(T)
<1> DEFINE bad == {i \in 0 .. n : F[i] \notin Seq(T)}
<1>1. ASSUME bad # {} PROVE FALSE
  <2>1. bad \subseteq Nat
    OBVIOUS
  <2>2. PICK i \in bad : \A j \in bad : i <= j
    <3> HIDE DEF bad
    <3> QED BY <1>1, <2>1, SmallestOf
  <2>3. i # 0
    BY <2>2, EmptySeq DEF Joins
  <2>4. i \in 1 .. n /\ i - 1 \in 0 .. n /\ i - 1 < i
    BY <2>2, <2>3
  <2>5. F[i - 1] \in Seq(T)
    BY <2>2, <2>4
  <2>6. F[i] = F[i - 1] \o seqs[i] /\ seqs[i] \in Seq(T)
    BY <2>4 DEF Joins
  <2>7. F[i] \in Seq(T)
    BY <2>5, <2>6, ConcatProperties
  <2> QED BY <2>2, <2>7
<1> QED BY <1>1

JoinsUpto(F, seqs, m) ==
    /\ DOMAIN F = 0 .. m /\ F[0] = <<>>
    /\ \A i \in 1 .. m : F[i] = F[i - 1] \o seqs[i]

Joinable(seqs, m) == \E F : JoinsUpto(F, seqs, m)

LEMMA JoinsExists ==
    ASSUME NEW n \in Nat, NEW seqs, Len(seqs) = n
    PROVE  \E F : DOMAIN F = 0 .. n /\ Joins(F, seqs)
<1> DEFINE bad == {m \in 0 .. n : ~Joinable(seqs, m)}
<1>1. ASSUME bad # {} PROVE FALSE
  <2>1. bad \subseteq Nat
    OBVIOUS
  <2>2. PICK m \in bad : \A j \in bad : m <= j
    <3> HIDE DEF bad
    <3> QED BY <1>1, <2>1, SmallestOf
  <2>3. m # 0
    <3>1. JoinsUpto([i \in 0 .. 0 |-> <<>>], seqs, 0)
      BY DEF JoinsUpto
    <3> QED BY <2>2, <3>1 DEF Joinable
  <2>4. m \in 1 .. n /\ m - 1 \in 0 .. n /\ m - 1 < m
    BY <2>2, <2>3
  <2>5. Joinable(seqs, m - 1)
    BY <2>2, <2>4
  <2>6. PICK F : JoinsUpto(F, seqs, m - 1)
    BY <2>5 DEF Joinable
  <2> DEFINE G == [i \in 0 .. m |-> IF i = m THEN F[m - 1] \o seqs[m] ELSE F[i]]
  <2>7. JoinsUpto(G, seqs, m)
    <3>1. DOMAIN G = 0 .. m /\ G[0] = <<>>
      BY <2>4, <2>6 DEF JoinsUpto
    <3>2. ASSUME NEW i \in 1 .. m PROVE G[i] = G[i - 1] \o seqs[i]
      <4>0. /\ i \in 0 .. m /\ i - 1 \in 0 .. m /\ i - 1 # m
            /\ i # m => i \in 1 .. m - 1
        BY <2>4
      <4>1. G[i - 1] = F[i - 1]
        BY <4>0
      <4>2. CASE i = m
        <5>1. G[i] = F[m - 1] \o seqs[m]
          BY <4>0, <4>2
        <5> HIDE DEF G
        <5> QED BY <4>1, <4>2, <5>1
      <4>3. CASE i # m
        <5>1. F[i] = F[i - 1] \o seqs[i]
          BY <4>0, <4>3, <2>6 DEF JoinsUpto
        <5>2. G[i] = F[i]
          BY <4>0, <4>3
        <5> HIDE DEF G
        <5> QED BY <4>1, <5>1, <5>2
      <4> QED BY <4>2, <4>3
    <3> HIDE DEF G
    <3> QED BY <3>1, <3>2 DEF JoinsUpto
  <2> QED BY <2>2, <2>7 DEF Joinable
<1>2. Joinable(seqs, n)
  BY <1>1
<1> QED BY <1>2 DEF Joins, Joinable, JoinsUpto

(* The same, of sequences of elements of T.                                *)
Joining(F, seqs, T) ==
    /\ seqs \in Seq(Seq(T))
    /\ F \in [0 .. Len(seqs) -> Seq(T)]
    /\ Joins(F, seqs)

LEMMA ConcatParts ==
    ASSUME NEW T, NEW s \in Seq(T), NEW t \in Seq(T), NEW u, u = s \o t
    PROVE  /\ u \in Seq(T)
           /\ Len(s) \in Nat /\ Len(t) \in Nat /\ Len(u) = Len(s) + Len(t)
           /\ \A j \in 1 .. Len(s) : u[j] = s[j]
           /\ \A j \in 1 .. Len(t) : u[Len(s) + j] = t[j]
<1>1. Len(s) \in Nat /\ Len(t) \in Nat
  BY LenProperties
<1>2. /\ u \in Seq(T) /\ Len(u) = Len(s) + Len(t)
      /\ \A i \in 1 .. Len(s) + Len(t) : u[i] =
             IF i <= Len(s) THEN s[i] ELSE t[i - Len(s)]
  BY ConcatProperties
<1>3. ASSUME NEW j \in 1 .. Len(s) PROVE u[j] = s[j]
  <2>1. j \in 1 .. Len(s) + Len(t) /\ j <= Len(s)
    BY <1>1
  <2> QED BY <1>2, <2>1
<1>4. ASSUME NEW j \in 1 .. Len(t) PROVE u[Len(s) + j] = t[j]
  <2>1. /\ Len(s) + j \in 1 .. Len(s) + Len(t) /\ ~(Len(s) + j <= Len(s))
        /\ Len(s) + j - Len(s) = j
    BY <1>1
  <2> QED BY <1>2, <2>1
<1> QED BY <1>1, <1>2, <1>3, <1>4

LenAt(f, m) == Len(f[m])

(* One more is joined.                                                     *)
LEMMA JoinsStep ==
    ASSUME NEW T, NEW seqs, NEW F, Joining(F, seqs, T),
           NEW m \in 1 .. Len(seqs), NEW p, p = m - 1
    PROVE  /\ LenAt(F, p) \in Nat /\ LenAt(seqs, m) \in Nat
           /\ LenAt(F, m) = LenAt(F, p) + LenAt(seqs, m)
           /\ \A j \in 1 .. LenAt(F, p) : F[m][j] = F[p][j]
           /\ \A j \in 1 .. LenAt(seqs, m) : F[m][LenAt(F, p) + j] = seqs[m][j]
<1>1. /\ seqs \in [1 .. Len(seqs) -> Seq(T)]
      /\ m \in 0 .. Len(seqs) /\ p \in 0 .. Len(seqs)
  BY LenProperties DEF Joining
<1> DEFINE f == F[p]
           q == seqs[m]
           u == F[m]
<1>2. f \in Seq(T) /\ q \in Seq(T) /\ u = f \o q
  BY <1>1 DEF Joining, Joins
<1> HIDE DEF f, q, u
<1>3. /\ Len(f) \in Nat /\ Len(q) \in Nat /\ Len(u) = Len(f) + Len(q)
      /\ \A j \in 1 .. Len(f) : u[j] = f[j]
      /\ \A j \in 1 .. Len(q) : u[Len(f) + j] = q[j]
  BY <1>2, ConcatParts
<1> QED BY <1>3, Zenon DEF f, q, u, LenAt

(* What is joined stays where it is.                                       *)
LEMMA JoinsPrefix ==
    ASSUME NEW T, NEW seqs, NEW F, Joining(F, seqs, T), NEW i \in 0 .. Len(seqs)
    PROVE  \A m \in i .. Len(seqs) :
              /\ LenAt(F, i) \in Nat /\ LenAt(F, m) \in Nat
              /\ LenAt(F, i) <= LenAt(F, m)
              /\ \A j \in 1 .. LenAt(F, i) : F[m][j] = F[i][j]
<1> DEFINE n == Len(seqs)
           Keeps(m) == /\ LenAt(F, i) <= LenAt(F, m)
                       /\ \A j \in 1 .. LenAt(F, i) : F[m][j] = F[i][j]
           bad == {m \in i .. n : ~Keeps(m)}
<1>1. n \in Nat /\ \A m \in 0 .. n : LenAt(F, m) \in Nat
  BY LenProperties DEF Joining, LenAt
<1>2. ASSUME bad # {} PROVE FALSE
  <2>1. bad \subseteq Nat
    BY <1>1
  <2>2. PICK m \in bad : \A j \in bad : m <= j
    <3> HIDE DEF bad
    <3> QED BY <1>2, <2>1, SmallestOf
  <2>3. Keeps(i)
    BY <1>1
  <2>4. m # i /\ m \in i .. n
    BY <2>2, <2>3
  <2>5. m \in 1 .. n /\ m - 1 \in i .. n /\ m - 1 \in 0 .. n /\ m - 1 < m
        /\ m \in 0 .. n
    BY <1>1, <2>4
  <2>6. Keeps(m - 1)
    BY <2>2, <2>5
  <2>7. /\ LenAt(F, m - 1) \in Nat /\ LenAt(seqs, m) \in Nat
        /\ LenAt(F, m) = LenAt(F, m - 1) + LenAt(seqs, m)
        /\ \A j \in 1 .. LenAt(F, m - 1) : F[m][j] = F[m - 1][j]
    BY <2>5, JoinsStep
  <2>8. LenAt(F, i) \in Nat
    BY <1>1
  <2>9. Keeps(m)
    BY <2>6, <2>7, <2>8
  <2> QED BY <2>2, <2>9
<1>3. \A m \in i .. n : m \in 0 .. n
  BY <1>1
<1> QED BY <1>1, <1>2, <1>3

LEMMA PartInPlace ==
    ASSUME NEW T, NEW seqs, NEW F, Joining(F, seqs, T), NEW i \in 1 .. Len(seqs)
    PROVE  /\ LenAt(F, i) <= LenAt(F, Len(seqs))
           /\ \A j \in 1 .. LenAt(seqs, i) :
                 F[Len(seqs)][LenAt(F, i - 1) + j] = seqs[i][j]
<1> DEFINE n == Len(seqs)
<1>1. n \in Nat
  BY LenProperties DEF Joining
<1>2. i \in 0 .. n /\ n \in i .. n
  BY <1>1
<1>3. /\ LenAt(F, i - 1) \in Nat /\ LenAt(seqs, i) \in Nat
      /\ LenAt(F, i) = LenAt(F, i - 1) + LenAt(seqs, i)
      /\ \A j \in 1 .. LenAt(seqs, i) : F[i][LenAt(F, i - 1) + j] = seqs[i][j]
  BY JoinsStep
<1>4. /\ LenAt(F, i) <= LenAt(F, n)
      /\ \A j \in 1 .. LenAt(F, i) : F[n][j] = F[i][j]
  BY <1>2, JoinsPrefix
<1>5. ASSUME NEW j \in 1 .. LenAt(seqs, i)
      PROVE  F[n][LenAt(F, i - 1) + j] = seqs[i][j]
  <2>1. LenAt(F, i - 1) + j \in 1 .. LenAt(F, i)
    BY <1>3
  <2>2. F[n][LenAt(F, i - 1) + j] = F[i][LenAt(F, i - 1) + j]
    BY <1>4, <2>1
  <2> QED BY <1>3, <2>2
<1> QED BY <1>4, <1>5
=============================================================================
