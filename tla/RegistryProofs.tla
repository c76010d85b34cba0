--------------------------- MODULE RegistryProofs ---------------------------
(***************************************************************************)
(* Proofs about Registry: the selection of nodes, the types, and the two   *)
(* properties of stored files, for any nodes, vaults, slots and bounds.    *)
(***************************************************************************)
EXTENDS Registry, FiniteSetTheorems, TLAPS

Uploading(s) == job[s].pc \in {"put", "list", "usage", "finish"}
Deleting(s) == job[s].pc \in {"delete", "delete_rows"}

\* Fragment k of vault v is, or was until it was lost, on the disk of node n.
Holds(n, v, k) == <<v, k>> \in disk[n] \cup lost[n]

\* The places an upload has not yet asked for, and those of its list in general,
\* are at different nodes.
Ahead(j) == IF j.pc = "usage" THEN Tail(j.list) ELSE j.list
Apart(list) == \A i, k \in DOMAIN list : i # k => list[i][1] # list[k][1]
Clear(list, got) == \A i \in DOMAIN list, p \in got : p[1] # list[i][1]

\* What an upload and a deletion know at their next statement.
UploadInv(s) ==
  Uploading(s) =>
    LET j == job[s]  v == job[s].vault IN
    /\ v \in Vaults /\ command[v] = "posted"
    /\ j.pc # "finish" => j.list # <<>>
    /\ j.pc = "finish" => j.list = <<>>
    /\ Apart(j.list) /\ Clear(Ahead(j), j.got)
    /\ j.pc = "list" => Holds(Head(j.list)[1], v, Head(j.list)[2])
    /\ \A p \in j.got : Holds(p[1], v, p[2])
    /\ v \notin unlisted => \A p \in j.got : replica[v][p[1]] = p[2]
DeleteInv(s) ==
  Deleting(s) => /\ job[s].vault \in deleted
                 /\ job[s].pc = "delete" => job[s].list # <<>>

\* Two uploads are of different vaults.
OneUpload ==
  \A s, t \in Slots :
    Uploading(s) /\ Uploading(t) /\ s # t => job[s].vault # job[t].vault

\* What the tables say of a vault that is not deleted is true.
VaultInv(v) ==
  /\ v \in deleted => command[v] \in {"stored", "failed"}
  /\ v \notin deleted =>
       /\ \A p \in manifest[v] : Holds(p[1], v, p[2])
       /\ \A n \in Nodes : replica[v][n] \in Keys => Holds(n, v, replica[v][n])
  /\ v \notin deleted \cup unlisted /\ command[v] = "stored" =>
       manifest[v] # {} /\ \A p \in manifest[v] : replica[v][p[1]] = p[2]
  /\ command[v] # "stored" => manifest[v] = {}

\* Everything but the types.
FileInv ==
  /\ \A n \in Nodes : IsFiniteSet(disk[n])
  /\ \A s \in Slots : UploadInv(s) /\ DeleteInv(s)
  /\ OneUpload
  /\ \A v \in Vaults : VaultInv(v)

IInv == TypeOK /\ FileInv

-----------------------------------------------------------------------------
(* Induction and sums *)

\* A nonempty set of naturals has a least member.
LEMMA LeastNat ==
  ASSUME NEW T \in SUBSET Nat, T # {}
  PROVE  \E x \in T : \A y \in T : x <= y
<1> DEFINE R == OpToRel(<, Nat)
<1>1. IsWellFoundedOn(R, Nat)
  BY NatLessThanWellFounded
<1>2. \E x \in T : \A y \in T : ~ (<<y, x>> \in R)
  <2> HIDE DEF R
  <2> QED BY <1>1, WFMin
<1>3. PICK x \in T : \A y \in T : ~ (<<y, x>> \in R)
  BY <1>2
<1>4. \A y \in T : ~ (y < x)
  BY <1>3 DEF OpToRel
<1> QED BY <1>4

\* Induction over the naturals for a set of numbers.
LEMMA Counting ==
  ASSUME NEW T, 0 \in T, \A n \in Nat : n \in T => n + 1 \in T
  PROVE  Nat \subseteq T
<1> DEFINE D == {n \in Nat : n \notin T}
<1> SUFFICES ASSUME D # {} PROVE FALSE
  OBVIOUS
<1>1. PICK x \in D : \A y \in D : x <= y
  <2> HIDE DEF D
  <2>1. D \in SUBSET Nat
    BY DEF D
  <2> QED BY <2>1, LeastNat
<1>2. x \in Nat /\ x # 0 /\ x - 1 \in Nat /\ ~(x <= x - 1) /\ (x - 1) + 1 = x
  OBVIOUS
<1>3. x - 1 \in T
  BY <1>1, <1>2
<1> QED BY <1>2, <1>3

Some(s) == CHOOSE x \in s : TRUE

\* One step of the recursion that sums f over a set.
Summed(f, g, s) == IF s = {} THEN 0 ELSE f[Some(s)] + g[s \ {Some(s)}]

\* The sums of f over the subsets of S.
Sums(f, g, S) == g = [s \in SUBSET S |-> Summed(f, g, s)]

\* A nonempty finite set has one member fewer without the member chosen.
LEMMA Fewer ==
  ASSUME NEW s, IsFiniteSet(s), s # {}
  PROVE  /\ Some(s) \in s
         /\ IsFiniteSet(s \ {Some(s)})
         /\ Cardinality(s) \in Nat
         /\ Cardinality(s \ {Some(s)}) \in Nat
         /\ Cardinality(s) = Cardinality(s \ {Some(s)}) + 1
<1>1. Some(s) \in s
  BY DEF Some
<1> HIDE DEF Some
<1> PICK x : x = Some(s)
  OBVIOUS
<1>2. IsFiniteSet(s \ {x}) /\ Cardinality(s \ {x}) = IF x \in s THEN Cardinality(s) - 1 ELSE Cardinality(s)
  BY FS_RemoveElement
<1>3. Cardinality(s) \in Nat /\ Cardinality(s \ {x}) \in Nat
  BY <1>2, FS_CardinalityType
<1> QED BY <1>1, <1>2, <1>3

\* The recursion has a solution.
LEMMA SumExists ==
  ASSUME NEW S, IsFiniteSet(S), NEW f \in [S -> Nat]
  PROVE  \E g : Sums(f, g, S)
<1> DEFINE D(n) == {s \in SUBSET S : Cardinality(s) <= n}
           T == {n \in Nat : \E g \in [D(n) -> Nat] : \A s \in D(n) : g[s] = Summed(f, g, s)}
<1>1. \A s \in SUBSET S : IsFiniteSet(s) /\ Cardinality(s) \in Nat /\ Cardinality(s) <= Cardinality(S)
  BY FS_Subset, FS_CardinalityType
<1>2. \A s \in SUBSET S : Cardinality(s) <= 0 => s = {}
  BY <1>1, FS_EmptySet
<1>3. 0 \in T
  <2> DEFINE g == [s \in D(0) |-> 0]
  <2>1. g \in [D(0) -> Nat]
    OBVIOUS
  <2>2. \A s \in D(0) : g[s] = Summed(f, g, s)
    BY <1>2 DEF Summed
  <2> QED BY <2>1, <2>2
<1>4. ASSUME NEW n \in Nat, n \in T PROVE n + 1 \in T
  <2>1. PICK g \in [D(n) -> Nat] : \A s \in D(n) : g[s] = Summed(f, g, s)
    BY <1>4
  <2> DEFINE h == [s \in D(n + 1) |-> Summed(f, g, s)]
  <2>2. ASSUME NEW s \in D(n + 1), s # {}
        PROVE  Some(s) \in S /\ s \ {Some(s)} \in D(n) /\ s \ {Some(s)} \in D(n + 1)
    <3>1. IsFiniteSet(s)
      BY <1>1
    <3>2. Some(s) \in s /\ Cardinality(s \ {Some(s)}) \in Nat /\ Cardinality(s) = Cardinality(s \ {Some(s)}) + 1
      BY <2>2, <3>1, Fewer
    <3> QED BY <3>2
  <2>3. h \in [D(n + 1) -> Nat]
    <3> SUFFICES ASSUME NEW s \in D(n + 1) PROVE Summed(f, g, s) \in Nat
      OBVIOUS
    <3>1. CASE s = {}
      BY <3>1 DEF Summed
    <3>2. CASE s # {}
      <4>1. f[Some(s)] \in Nat /\ g[s \ {Some(s)}] \in Nat
        BY <2>2, <3>2
      <4> QED BY <3>2, <4>1 DEF Summed
    <3> QED BY <3>1, <3>2
  <2>4. \A s \in D(n) : s \in D(n + 1) /\ h[s] = g[s]
    BY <1>1, <2>1
  <2>5. \A s \in D(n + 1) : h[s] = Summed(f, h, s)
    <3> SUFFICES ASSUME NEW s \in D(n + 1), s # {} PROVE h[s] = Summed(f, h, s)
      BY DEF Summed
    <3>1. h[s \ {Some(s)}] = g[s \ {Some(s)}]
      BY <2>2, <2>4
    <3> QED BY <3>1 DEF Summed
  <2>6. \E k \in [D(n + 1) -> Nat] : \A s \in D(n + 1) : k[s] = Summed(f, k, s)
    <3> HIDE DEF h, D
    <3> QED BY <2>3, <2>5
  <2> HIDE DEF h, D
  <2> QED BY <2>6
<1>5. Cardinality(S) \in T
  <2>1. Nat \subseteq T
    <3> HIDE DEF T
    <3> QED BY <1>3, <1>4, Counting
  <2> HIDE DEF T
  <2> QED BY <2>1, FS_CardinalityType
<1>6. D(Cardinality(S)) = SUBSET S
  BY <1>1
<1>7. PICK g \in [SUBSET S -> Nat] : \A s \in SUBSET S : g[s] = Summed(f, g, s)
  BY <1>5, <1>6
<1>8. Sums(f, g, S)
  BY <1>7 DEF Sums
<1> QED BY <1>8

\* Every solution has natural numbers for values.
LEMMA SumIsNat ==
  ASSUME NEW S, IsFiniteSet(S), NEW f \in [S -> Nat],
         NEW g, \A s \in SUBSET S : g[s] = Summed(f, g, s)
  PROVE  g[S] \in Nat
<1> DEFINE T == {n \in Nat : \A s \in SUBSET S : Cardinality(s) = n => g[s] \in Nat}
<1>1. \A s \in SUBSET S : IsFiniteSet(s) /\ Cardinality(s) \in Nat
  BY FS_Subset, FS_CardinalityType
<1>3. 0 \in T
  BY <1>1, FS_EmptySet DEF Summed
<1>4. ASSUME NEW n \in Nat, n \in T PROVE n + 1 \in T
  <2> SUFFICES ASSUME NEW s \in SUBSET S, Cardinality(s) = n + 1 PROVE g[s] \in Nat
    BY <1>4
  <2>1. IsFiniteSet(s) /\ s # {}
    BY <1>1, FS_EmptySet
  <2>2. Some(s) \in s /\ Cardinality(s \ {Some(s)}) \in Nat /\ Cardinality(s) = Cardinality(s \ {Some(s)}) + 1
    BY <2>1, Fewer
  <2>3. s \ {Some(s)} \in SUBSET S /\ Cardinality(s \ {Some(s)}) = n
    BY <2>2
  <2>4. g[s \ {Some(s)}] \in Nat
    BY <1>4, <2>3
  <2>5. f[Some(s)] \in Nat
    BY <2>2
  <2>6. g[s] = f[Some(s)] + g[s \ {Some(s)}]
    BY <2>1 DEF Summed
  <2> QED BY <2>4, <2>5, <2>6
<1>5. Nat \subseteq T
  <2> HIDE DEF T
  <2> QED BY <1>3, <1>4, Counting
<1> QED BY <1>1, <1>5

\* What the node reports is a number (the sum of heartbeat_loop).
LEMMA StoredBytesNat ==
  ASSUME TypeOK, NEW n \in Nodes, IsFiniteSet(disk[n])
  PROVE  StoredBytes(n) \in Nat
<1> DEFINE S == disk[n]
           f == [x \in S |-> Encrypted(x[1])]
           P(g) == g = [s \in SUBSET disk[n] |->
                          IF s = {} THEN 0
                          ELSE Encrypted((CHOOSE x \in s : TRUE)[1]) + g[s \ {CHOOSE x \in s : TRUE}]]
<1>1. f \in [S -> Nat]
  <2> SUFFICES ASSUME NEW x \in S PROVE Encrypted(x[1]) \in Nat
    OBVIOUS
  <2>1. x \in Fragments
    BY DEF TypeOK
  <2>2. x[1] \in Vaults
    BY <2>1 DEF Fragments
  <2>3. size[x[1]] \in Nat
    BY <2>2 DEF TypeOK
  <2> QED BY <2>3, RegistryAssumption DEF Encrypted
<1>2. ASSUME NEW g, NEW s \in SUBSET S
      PROVE  Summed(f, g, s) = IF s = {} THEN 0
                               ELSE Encrypted((CHOOSE x \in s : TRUE)[1]) + g[s \ {CHOOSE x \in s : TRUE}]
  BY DEF Summed, Some
<1>3. StoredBytes(n) = BaseLoad[n] + (CHOOSE g : P(g))[disk[n]]
  BY DEF StoredBytes, MapThenSumSet, MapThenFoldSet
<1>4. PICK g : Sums(f, g, S)
  <2>1. IsFiniteSet(S)
    OBVIOUS
  <2> HIDE DEF f, S, P
  <2> QED BY <1>1, <2>1, SumExists
<1>5. P(g)
  BY <1>2, <1>4 DEF Sums
<1>6. PICK h : P(h) /\ h = CHOOSE k : P(k)
  <2> HIDE DEF P
  <2> QED BY <1>5
<1>7. ASSUME NEW s \in SUBSET S PROVE h[s] = Summed(f, h, s)
  <2>1. h[s] = IF s = {} THEN 0
               ELSE Encrypted((CHOOSE x \in s : TRUE)[1]) + h[s \ {CHOOSE x \in s : TRUE}]
    BY <1>6
  <2> QED BY <1>2, <2>1
<1>8. h[S] \in Nat
  <2>1. IsFiniteSet(S)
    OBVIOUS
  <2> HIDE DEF f, S, P
  <2> QED BY <1>1, <1>7, <2>1, SumIsNat, Zenon
<1>9. StoredBytes(n) = BaseLoad[n] + h[S]
  <2> HIDE DEF P
  <2> QED BY <1>3, <1>6
<1> QED BY <1>8, <1>9, RegistryAssumption

-----------------------------------------------------------------------------
(* Node selection *)

\* The smaller of two numbers.
LEMMA MinOfTwo ==
  ASSUME NEW a \in Int, NEW b \in Int
  PROVE  Min({a, b}) = IF a <= b THEN a ELSE b
<1> PICK m : m = IF a <= b THEN a ELSE b
  OBVIOUS
<1>1. m \in {a, b} /\ \A y \in {a, b} : m <= y
  OBVIOUS
<1>2. \A x \in {a, b} : (\A y \in {a, b} : x <= y) => x = m
  OBVIOUS
<1>3. Min({a, b}) \in {a, b} /\ \A y \in {a, b} : Min({a, b}) <= y
  BY <1>1 DEF Min
<1> QED BY <1>2, <1>3

\* An ordering of a finite set lists every member once.
LEMMA Enumerates ==
  ASSUME NEW S, IsFiniteSet(S), NEW q \in SetToSeqs(S)
  PROVE  /\ Cardinality(S) \in Nat
         /\ q \in Seq(S) /\ Len(q) = Cardinality(S) /\ DOMAIN q = 1..Cardinality(S)
         /\ \A i, j \in 1..Cardinality(S) : q[i] = q[j] => i = j
         /\ \A x \in S : \E i \in 1..Cardinality(S) : q[i] = x
         /\ ToSet(q) = S
<1> PICK N : N = Cardinality(S)
  OBVIOUS
<1>1. N \in Nat
  BY FS_CardinalityType
<1>2. q \in [1..N -> S] /\ \A i, j \in 1..N : i # j => q[i] # q[j]
  BY DEF SetToSeqs
<1>3. q \in Injection(1..N, S)
  BY <1>2 DEF Injection, IsInjective
<1>4. IsFiniteSet(1..N) /\ Cardinality(1..N) = N
  BY <1>1, FS_Interval
<1>5. q \in Surjection(1..N, S)
  BY <1>3, <1>4, FS_Injection
<1>6. \A x \in S : \E i \in 1..N : q[i] = x
  BY <1>5 DEF Surjection
<1>7. q \in Seq(S) /\ Len(q) = N
  BY <1>1, <1>2
<1> QED BY <1>1, <1>2, <1>6, <1>7 DEF ToSet

\* c has the first k members of the ordering q of S: as many as asked for and
\* there are, and whoever is left out comes later than whoever is taken.
Prefix(S, q, k, c) ==
  /\ c \in Seq(S)
  /\ Len(c) = IF k < 0 THEN Cardinality(S) ELSE Min({k, Cardinality(S)})
  /\ \A i, j \in DOMAIN c : c[i] = c[j] => i = j
  /\ ToSet(c) \subseteq S /\ Len(c) = Cardinality(ToSet(c))
  /\ \A m \in ToSet(c), n \in S \ ToSet(c) :
       \E i, j \in 1..Cardinality(S) : i < j /\ q[i] = m /\ q[j] = n

\* Take takes the first members.
LEMMA Taken ==
  ASSUME NEW S, IsFiniteSet(S), NEW q \in SetToSeqs(S), NEW k \in Int
  PROVE  Prefix(S, q, k, Take(q, k))
<1> PICK c : c = Take(q, k)
  OBVIOUS
<1> PICK N : N = Cardinality(S)
  OBVIOUS
<1>1. /\ N \in Nat /\ q \in Seq(S) /\ Len(q) = N /\ DOMAIN q = 1..N
      /\ \A i, j \in 1..N : q[i] = q[j] => i = j
      /\ \A x \in S : \E i \in 1..N : q[i] = x
  BY Enumerates
<1> PICK l : l = IF k < 0 \/ k > N THEN N ELSE k
  OBVIOUS
<1>2. l \in Nat /\ l <= N
  BY <1>1
<1>3. c \in Seq(S) /\ Len(c) = l /\ \A i \in 1..l : c[i] = q[i]
  <2>1. CASE k < 0 \/ k > N
    BY <1>1, <2>1 DEF Take
  <2>2. CASE ~(k < 0 \/ k > N)
    <3>1. c = SubSeq(q, 1, l) /\ l \in 0..N
      BY <1>1, <2>2 DEF Take
    <3>2. q \in Seq(S) /\ Len(q) = N /\ N \in Nat
      BY <1>1
    <3>3. Len(c) = l
      BY ONLY <3>1, <3>2
    <3>4. \A i \in 1..l : c[i] = q[i]
      BY ONLY <3>1, <3>2
    <3>5. c \in Seq(S)
      BY ONLY <3>1, <3>2
    <3> QED BY <3>3, <3>4, <3>5
  <2> QED BY <2>1, <2>2
<1>4. DOMAIN c = 1..l
  BY <1>3
<1>5. l = IF k < 0 THEN N ELSE Min({k, N})
  BY <1>1, MinOfTwo
<1>6. \A i, j \in 1..l : c[i] = c[j] => i = j
  BY <1>1, <1>2, <1>3
<1>7. ToSet(c) \subseteq S
  BY <1>3, <1>4 DEF ToSet
<1>8. IsFiniteSet(ToSet(c)) /\ Cardinality(ToSet(c)) = l
  <2>1. c \in Bijection(1..l, ToSet(c))
    BY <1>3, <1>4, <1>6 DEF Bijection, Injection, Surjection, IsInjective, ToSet
  <2>2. ExistsBijection(1..l, ToSet(c))
    BY <2>1 DEF ExistsBijection
  <2>3. IsFiniteSet(1..l)
    BY <1>2, FS_Interval
  <2> QED BY <1>2, <2>2, <2>3, FS_Bijection, FS_CountingElements
<1>9. ASSUME NEW m \in ToSet(c), NEW n \in S, n \notin ToSet(c)
      PROVE  \E i, j \in 1..N : i < j /\ q[i] = m /\ q[j] = n
  <2>1. PICK i \in 1..l : c[i] = m
    BY <1>4 DEF ToSet
  <2>2. PICK j \in 1..N : q[j] = n
    BY <1>1
  <2>3. ~(j <= l)
    <3> SUFFICES ASSUME j <= l PROVE FALSE
      OBVIOUS
    <3>1. j \in 1..l
      BY <1>2
    <3>2. c[j] = n
      BY <1>3, <2>2, <3>1
    <3> QED BY <1>4, <1>9, <3>1, <3>2 DEF ToSet
  <2>4. i \in 1..N /\ i < j /\ q[i] = m
    BY <1>2, <1>3, <2>1, <2>3
  <2> QED BY <2>2, <2>4
<1> QED BY <1>3, <1>4, <1>5, <1>6, <1>7, <1>8, <1>9 DEF Prefix

\* A node is where Position says.
LEMMA PositionIs ==
  ASSUME NEW S, IsFiniteSet(S), NEW q \in SetToSeqs(S), NEW n \in S
  PROVE  Position(q, n) \in 1..Cardinality(S) /\ q[Position(q, n)] = n
<1>1. DOMAIN q = 1..Cardinality(S) /\ \E i \in 1..Cardinality(S) : q[i] = n
  BY Enumerates
<1> QED BY <1>1 DEF Position

\* The rank of a node is 0 if no node of its region comes before it.
LEMMA RankIs ==
  ASSUME NEW S \in SUBSET Nodes, NEW q \in SetToSeqs(S), NEW n \in S
  PROVE  /\ Rank(q, n) \in Nat
         /\ Rank(q, n) = 0 <=> \A i \in 1..Cardinality(S) :
                                 i < Position(q, n) => RegionOf[q[i]] # RegionOf[n]
<1>1. IsFiniteSet(S)
  BY NodesAssumption, FS_Subset
<1>2. Cardinality(S) \in Nat
  BY <1>1, FS_CardinalityType
<1> PICK p : p = Position(q, n)
  OBVIOUS
<1>3. p \in 1..Cardinality(S)
  BY <1>1, PositionIs
<1> PICK B : B = {i \in 1..(p - 1) : RegionOf[q[i]] = RegionOf[n]}
  OBVIOUS
<1>4. IsFiniteSet(B)
  <2>1. IsFiniteSet(1..(p - 1))
    BY <1>2, <1>3, FS_Interval
  <2> QED BY <2>1, FS_Subset
<1>5. Rank(q, n) = Cardinality(B)
  BY DEF Rank
<1>6. Cardinality(B) \in Nat /\ (Cardinality(B) = 0 <=> B = {})
  BY <1>4, FS_CardinalityType, FS_EmptySet
<1>7. B = {} <=> \A i \in 1..Cardinality(S) : i < p => RegionOf[q[i]] # RegionOf[n]
  BY <1>2, <1>3
<1> QED BY <1>5, <1>6, <1>7

Regions(T) == {RegionOf[n] : n \in T}

\* Nodes of different regions are as many as their regions.
LEMMA RegionsCount ==
  ASSUME NEW T \in SUBSET Nodes, \A m, n \in T : RegionOf[m] = RegionOf[n] => m = n
  PROVE  Cardinality(Regions(T)) = Cardinality(T)
<1> DEFINE f == [n \in T |-> RegionOf[n]]
<1>1. IsFiniteSet(T)
  BY NodesAssumption, FS_Subset
<1>2. f \in Bijection(T, Regions(T))
  BY DEF Bijection, Injection, Surjection, IsInjective, Regions
<1>3. ExistsBijection(T, Regions(T))
  BY <1>2 DEF ExistsBijection
<1> QED BY <1>1, <1>3, FS_Bijection

\* If the first nodes of the regions come before all others, a selection reaches
\* as many regions as it can: it has all first nodes, or only such.
LEMMA Spread ==
  ASSUME NEW C \in SUBSET Nodes, NEW q \in SetToSeqs(C), NEW S \in SUBSET C,
         \A m \in S, n \in C \ S : Rank(q, n) = 0 => Rank(q, m) = 0
  PROVE  Cardinality(Regions(S)) = Min({Cardinality(S), Cardinality(Regions(C))})
<1> PICK N : N = Cardinality(C)
  OBVIOUS
<1>0. IsFiniteSet(C) /\ IsFiniteSet(S) /\ N \in Nat
  BY NodesAssumption, FS_Subset, FS_CardinalityType
<1>1. \A i, j \in 1..N : q[i] = q[j] => i = j
  BY <1>0, Enumerates
<1>2. \A n \in C : Position(q, n) \in 1..N /\ q[Position(q, n)] = n
  BY <1>0, PositionIs
<1>3. \A n \in C : Rank(q, n) = 0 <=> \A i \in 1..N :
                     i < Position(q, n) => RegionOf[q[i]] # RegionOf[n]
  BY RankIs
<1> DEFINE F == {n \in C : Rank(q, n) = 0}
<1>4. ASSUME NEW m \in F, NEW n \in F, RegionOf[m] = RegionOf[n] PROVE m = n
  <2>1. ~(Position(q, m) < Position(q, n)) /\ ~(Position(q, n) < Position(q, m))
    BY <1>2, <1>3, <1>4
  <2>2. Position(q, m) = Position(q, n)
    BY <1>0, <1>2, <2>1
  <2> QED BY <1>2, <2>2
<1>5. ASSUME NEW n \in C PROVE \E m \in F : RegionOf[m] = RegionOf[n]
  <2> DEFINE P == {i \in 1..N : RegionOf[q[i]] = RegionOf[n]}
  <2>1. P \in SUBSET Nat /\ P # {}
    BY <1>0, <1>2
  <2>2. PICK i \in P : \A j \in P : i <= j
    <3> HIDE DEF P
    <3> QED BY <2>1, LeastNat
  <2>3. q[i] \in C
    BY <1>0, Enumerates
  <2>4. Position(q, q[i]) = i
    BY <1>1, <1>2, <2>3
  <2>5. Rank(q, q[i]) = 0
    BY <1>0, <1>3, <2>2, <2>3, <2>4
  <2> QED BY <2>3, <2>5
<1> HIDE DEF F
<1>6. F \in SUBSET C
  BY DEF F
<1>7. Regions(F) = Regions(C)
  BY <1>5, <1>6 DEF Regions
<1>8. Cardinality(Regions(C)) = Cardinality(F) /\ Cardinality(F) \in Nat /\ Cardinality(S) \in Nat
  <2>1. Cardinality(Regions(F)) = Cardinality(F)
    BY <1>4, <1>6, RegionsCount
  <2> QED BY <1>0, <1>6, <1>7, <2>1, FS_Subset, FS_CardinalityType
<1>9. CASE F \subseteq S
  <2>1. Regions(S) = Regions(C)
    BY <1>5, <1>9 DEF Regions
  <2>2. Cardinality(F) <= Cardinality(S)
    BY <1>0, <1>9, FS_Subset
  <2> QED BY <1>8, <2>1, <2>2, MinOfTwo
<1>10. CASE ~(F \subseteq S)
  <2>1. S \subseteq F
    BY <1>6, <1>10 DEF F
  <2>2. Cardinality(S) <= Cardinality(F)
    BY <1>0, <1>6, <2>1, FS_Subset
  <2>3. Cardinality(Regions(S)) = Cardinality(S)
    BY <1>4, <2>1, RegionsCount
  <2> QED BY <1>8, <2>2, <2>3, MinOfTwo
<1> QED BY <1>9, <1>10

\* A candidate is registered.
LEMMA CandidateIs ==
  ASSUME TypeOK, NEW bytes
  PROVE  /\ Candidates(bytes) \in SUBSET Nodes
         /\ \A n \in Candidates(bytes) : Load(n) \in Nat
BY DEF TypeOK, Candidates, Active, Load, RowType

\* Whatever the strategy, what is chosen is the beginning of an ordering of the
\* candidates; the spreading ones put the first nodes of the regions first, and
\* load balancing puts the emptier nodes first.
LEMMA ChosenIs ==
  ASSUME TypeOK, NEW bytes, NEW chosen \in Selections(bytes)
  PROVE  \E q, o \in SetToSeqs(Candidates(bytes)) :
           /\ chosen = Take(o, settings.factor)
           /\ settings.strategy # "load_balanced" =>
                \A i, j \in DOMAIN o : i < j /\ Rank(q, o[j]) = 0 => Rank(q, o[i]) = 0
           /\ settings.strategy = "load_balanced" =>
                \A i, j \in DOMAIN o : i < j => Load(o[i]) <= Load(o[j])
<1> PICK C : C = Candidates(bytes)
  OBVIOUS
<1> PICK k : k = settings.factor
  OBVIOUS
<1>1. C \in SUBSET Nodes /\ IsFiniteSet(C) /\ \A n \in C : Load(n) \in Nat
  <2>1. C \in SUBSET Nodes /\ \A n \in C : Load(n) \in Nat
    BY CandidateIs
  <2> QED BY <2>1, NodesAssumption, FS_Subset
<1>2. PICK q \in Listings(bytes) :
        \/ settings.strategy = "region_diverse" /\ chosen \in select_region_diverse(q, k)
        \/ settings.strategy = "load_balanced" /\ chosen \in select_load_balanced(q, k)
        \/ settings.strategy # "load_balanced" /\ chosen \in select_mixed(q, k)
  BY DEF Selections
<1>3. q \in SetToSeqs(C)
  BY <1>2 DEF Listings, Orders
<1>4. ToSet(q) = C
  BY <1>1, <1>3, Enumerates
<1>5. ASSUME NEW o \in SetToSeqs(C)
      PROVE  \A i \in DOMAIN o : o[i] \in C
  BY <1>1, Enumerates
<1>6. \A n \in C : Rank(q, n) \in Nat
  BY <1>1, <1>3, RankIs
<1>7. CASE settings.strategy = "region_diverse" /\ chosen \in select_region_diverse(q, k)
  <2>1. PICK o \in SetToSeqs(C) :
          /\ chosen = Take(o, k)
          /\ \A i, j \in DOMAIN o : i < j => ~(Rank(q, o[j]) = 0 /\ ~(Rank(q, o[i]) = 0))
    BY <1>4, <1>7 DEF select_region_diverse, Orders, Sorted
  <2> QED BY <1>3, <1>7, <2>1
<1>8. CASE settings.strategy = "load_balanced" /\ chosen \in select_load_balanced(q, k)
  <2>1. PICK o \in SetToSeqs(C) :
          /\ chosen = Take(o, k)
          /\ \A i, j \in DOMAIN o : i < j => ~(Load(o[j]) < Load(o[i]))
    BY <1>4, <1>8 DEF select_load_balanced, Orders, Sorted, ByLoad
  <2>2. \A i, j \in DOMAIN o : i < j => Load(o[i]) <= Load(o[j])
    <3> SUFFICES ASSUME NEW i \in DOMAIN o, NEW j \in DOMAIN o, i < j
                 PROVE  Load(o[i]) <= Load(o[j])
      OBVIOUS
    <3>1. Load(o[i]) \in Nat /\ Load(o[j]) \in Nat /\ ~(Load(o[j]) < Load(o[i]))
      BY <1>1, <1>5, <2>1
    <3> QED BY <3>1
  <2> QED BY <1>3, <1>8, <2>1, <2>2
<1>9. CASE settings.strategy # "load_balanced" /\ chosen \in select_mixed(q, k)
  <2>1. PICK o \in SetToSeqs(C) :
          /\ chosen = Take(o, k)
          /\ \A i, j \in DOMAIN o : i < j => ~(Rank(q, o[j]) < Rank(q, o[i]))
    BY <1>4, <1>9 DEF select_mixed, Orders, Sorted
  <2>2. \A i, j \in DOMAIN o : i < j /\ Rank(q, o[j]) = 0 => Rank(q, o[i]) = 0
    <3> SUFFICES ASSUME NEW i \in DOMAIN o, NEW j \in DOMAIN o, i < j, Rank(q, o[j]) = 0
                 PROVE  Rank(q, o[i]) = 0
      OBVIOUS
    <3>1. Rank(q, o[i]) \in Nat /\ ~(0 < Rank(q, o[i]))
      BY <1>5, <1>6, <2>1
    <3> QED BY <3>1
  <2> QED BY <1>3, <1>9, <2>1, <2>2
<1> QED BY <1>2, <1>7, <1>8, <1>9

\* The property of one selection.
LEMMA Fitting ==
  ASSUME TypeOK, NEW bytes, NEW chosen \in Selections(bytes)
  PROVE  LET C == Candidates(bytes)  S == ToSet(chosen) IN
         /\ chosen \in Seq(C)
         /\ \A i, j \in DOMAIN chosen : chosen[i] = chosen[j] => i = j
         /\ S \subseteq C
         /\ Len(chosen) = Cardinality(S)
         /\ Cardinality(S) = IF settings.factor < 0 THEN Cardinality(C)
                             ELSE Min({settings.factor, Cardinality(C)})
         /\ settings.strategy # "load_balanced" =>
              Cardinality(Regions(S)) = Min({Cardinality(S), Cardinality(Regions(C))})
         /\ settings.strategy = "load_balanced" =>
              \A m \in S, n \in C \ S : Load(m) <= Load(n)
<1> PICK C : C = Candidates(bytes)
  OBVIOUS
<1> PICK S : S = ToSet(chosen)
  OBVIOUS
<1> PICK k : k = settings.factor
  OBVIOUS
<1>1. C \in SUBSET Nodes /\ IsFiniteSet(C) /\ k \in Int
  <2>1. C \in SUBSET Nodes
    BY CandidateIs
  <2>2. settings \in [factor : Factors \cup {2}, strategy : Strategies \cup {"mixed"}]
    BY DEF TypeOK
  <2>3. settings.factor \in Factors \cup {2}
    BY <2>2
  <2>4. k \in Int
    <3>1. CASE k \in Factors
      BY <3>1, RegistryAssumption
    <3>2. CASE k = 2
      BY <3>2
    <3> QED BY <2>3, <3>1, <3>2
  <2> QED BY <2>1, <2>4, NodesAssumption, FS_Subset
<1>2. PICK q \in SetToSeqs(C), o \in SetToSeqs(C) :
        /\ chosen = Take(o, k)
        /\ settings.strategy # "load_balanced" =>
             \A i, j \in DOMAIN o : i < j /\ Rank(q, o[j]) = 0 => Rank(q, o[i]) = 0
        /\ settings.strategy = "load_balanced" =>
             \A i, j \in DOMAIN o : i < j => Load(o[i]) <= Load(o[j])
  BY ChosenIs
<1>3. /\ chosen \in Seq(C)
      /\ Len(chosen) = IF k < 0 THEN Cardinality(C) ELSE Min({k, Cardinality(C)})
      /\ \A i, j \in DOMAIN chosen : chosen[i] = chosen[j] => i = j
      /\ S \subseteq C
      /\ Len(chosen) = Cardinality(S)
      /\ \A m \in S, n \in C \ S :
           \E i, j \in 1..Cardinality(C) : i < j /\ o[i] = m /\ o[j] = n
  <2>1. Prefix(C, o, k, Take(o, k))
    BY <1>1, Taken
  <2>2. Prefix(C, o, k, chosen)
    BY <1>2, <2>1
  <2> QED BY <2>2 DEF Prefix
<1>4. DOMAIN o = 1..Cardinality(C)
  BY <1>1, Enumerates
<1>5. ASSUME settings.strategy # "load_balanced"
      PROVE  Cardinality(Regions(S)) = Min({Cardinality(S), Cardinality(Regions(C))})
  <2>1. \A m \in S, n \in C \ S : Rank(q, n) = 0 => Rank(q, m) = 0
    BY <1>2, <1>3, <1>4, <1>5
  <2> QED BY <1>1, <1>3, <2>1, Spread
<1>6. ASSUME settings.strategy = "load_balanced"
      PROVE  \A m \in S, n \in C \ S : Load(m) <= Load(n)
  BY <1>2, <1>3, <1>4, <1>6
<1> QED BY <1>3, <1>5, <1>6

\* So every selection fits, whatever the tables say.
LEMMA SelectionsFit == TypeOK => SelectionFits
<1> SUFFICES ASSUME TypeOK, NEW v \in Vaults, NEW chosen \in Selections(Encrypted(v))
             PROVE  LET C == Candidates(Encrypted(v))  S == ToSet(chosen)
                        regions(T) == {RegionOf[n] : n \in T}
                    IN  /\ S \subseteq C
                        /\ Len(chosen) = Cardinality(S)
                        /\ Cardinality(S) = IF settings.factor < 0 THEN Cardinality(C)
                                            ELSE Min({settings.factor, Cardinality(C)})
                        /\ settings.strategy # "load_balanced" =>
                             Cardinality(regions(S)) = Min({Cardinality(S), Cardinality(regions(C))})
                        /\ settings.strategy = "load_balanced" =>
                             \A m \in S, n \in C \ S : Load(m) <= Load(n)
  BY DEF SelectionFits
<1> PICK b : b = Encrypted(v)
  OBVIOUS
<1> QED BY Fitting DEF Regions

-----------------------------------------------------------------------------
(* Requests about nodes *)

Busy == {"put", "list", "usage", "finish", "delete", "delete_rows"}

\* A step that touches no file and no request about files keeps what is known
\* about files.
LEMMA Quiet ==
  ASSUME FileInv, NEW s \in Slots, NEW x, x.pc \notin Busy, job \in [Slots -> JobType],
         job' = job \/ job' = [job EXCEPT ![s] = x],
         UNCHANGED <<replica, manifest, disk, command, lost, deleted, unlisted>>
  PROVE  FileInv'
<1>1. ASSUME NEW t \in Slots PROVE job'[t] = job[t] \/ job'[t].pc \notin Busy
  OBVIOUS
<1>2. \A n \in Nodes : IsFiniteSet(disk[n])'
  BY DEF FileInv
<1>3. ASSUME NEW t \in Slots PROVE UploadInv(t)' /\ DeleteInv(t)'
  <2>1. CASE job'[t] = job[t]
    <3>1. UploadInv(t) /\ DeleteInv(t)
      BY DEF FileInv
    <3> QED BY <2>1, <3>1 DEF UploadInv, DeleteInv, Uploading, Deleting, Holds
  <2>2. CASE job'[t].pc \notin Busy
    BY <2>2 DEF UploadInv, DeleteInv, Uploading, Deleting, Busy
  <2> QED BY <1>1, <2>1, <2>2
<1>4. OneUpload'
  <2> SUFFICES ASSUME NEW t \in Slots, NEW u \in Slots, Uploading(t)', Uploading(u)', t # u
               PROVE  job'[t].vault # job'[u].vault
    BY DEF OneUpload
  <2>1. job'[t] = job[t] /\ job'[u] = job[u]
    BY <1>1 DEF Uploading, Busy
  <2>2. Uploading(t) /\ Uploading(u)
    BY <2>1 DEF Uploading
  <2> QED BY <2>1, <2>2 DEF FileInv, OneUpload
<1>5. \A v \in Vaults : VaultInv(v)'
  BY DEF FileInv, VaultInv, Holds
<1> QED BY <1>2, <1>3, <1>4, <1>5 DEF FileInv

\* A fault, or none, keeps the count within its bound.
LEMMA EventOk ==
  ASSUME TypeOK, Event \/ UNCHANGED events
  PROVE  events' \in 0..MaxEvents
<1>1. events \in 0..MaxEvents
  BY DEF TypeOK
<1>2. MaxEvents \in Nat
  BY RegistryAssumption
<1> QED BY <1>1, <1>2 DEF Event

\* So does the answer to a request.
LEMMA AnswerOk ==
  ASSUME TypeOK, NEW n, Answered(n) \/ Unanswered(n)
  PROVE  events' \in 0..MaxEvents
BY EventOk DEF Answered, Unanswered

\* A row that is written keeps its type and goes on existing.
LEMMA RowStep ==
  ASSUME TypeOK, NEW n, NEW r \in RowType \cup {None}, row' = [row EXCEPT ![n] = r],
         n \in Nodes /\ row[n] # None => r # None, replica' = replica
  PROVE  /\ row' \in [Nodes -> RowType \cup {None}]
         /\ \A v \in Vaults, m \in Nodes : replica'[v][m] # None => row'[m] # None
<1>1. row \in [Nodes -> RowType \cup {None}]
  BY DEF TypeOK
<1>2. \A m \in Nodes : row'[m] = IF m = n THEN r ELSE row[m]
  BY <1>1
<1>3. row' \in [Nodes -> RowType \cup {None}]
  BY <1>1, <1>2
<1>4. \A v \in Vaults, m \in Nodes : replica[v][m] # None => row[m] # None
  BY DEF TypeOK
<1> QED BY <1>2, <1>3, <1>4

\* A slot that is written keeps its type.
LEMMA SlotStep ==
  ASSUME TypeOK, NEW s, NEW x \in JobType, job' = [job EXCEPT ![s] = x]
  PROVE  job' \in [Slots -> JobType]
BY DEF TypeOK

\* An idle slot is of the type.
LEMMA IdleOk == Idle \in JobType /\ Idle.pc \notin Busy
<1>1. <<>> \in Seq(Places)
  OBVIOUS
<1> QED BY <1>1 DEF Idle, JobType, Busy

\* The types of what is known about nodes.
NodesOk ==
  /\ row \in [Nodes -> RowType \cup {None}]
  /\ settings \in [factor : Factors \cup {2}, strategy : Strategies \cup {"mixed"}]
  /\ legacy \in Nodes \cup {None, ""}
  /\ up \subseteq Nodes /\ enrol \subseteq Nodes
  /\ beat \in [Nodes -> Nat \cup {None}]
  /\ events \in 0..MaxEvents
  /\ \A v \in Vaults, n \in Nodes : replica[v][n] # None => row[n] # None

\* A step about nodes keeps the invariant if it keeps their types.
LEMMA NodeStep ==
  ASSUME IInv, NodesOk', NEW s \in Slots, NEW x \in JobType, x.pc \notin Busy,
         job' = job \/ job' = [job EXCEPT ![s] = x],
         UNCHANGED <<replica, manifest, disk, command, size, lost, deleted, unlisted>>
  PROVE  IInv'
<1>1. TypeOK /\ FileInv /\ job \in [Slots -> JobType]
  BY DEF IInv, TypeOK
<1>2. job' \in [Slots -> JobType]
  BY <1>1, SlotStep
<1>3. TypeOK'
  BY <1>1, <1>2 DEF TypeOK, NodesOk
<1>4. FileInv'
  BY <1>1, Quiet
<1> QED BY <1>3, <1>4 DEF IInv

\* The same for a step that uses no slot.
LEMMA NodeOnly ==
  ASSUME IInv, NodesOk', job' = job,
         UNCHANGED <<replica, manifest, disk, command, size, lost, deleted, unlisted>>
  PROVE  IInv'
<1>1. CASE Slots = {}
  <2>1. TypeOK' /\ \A n \in Nodes : IsFiniteSet(disk[n])'
    BY DEF IInv, TypeOK, NodesOk, FileInv
  <2>2. \A v \in Vaults : VaultInv(v)'
    BY DEF IInv, FileInv, VaultInv, Holds
  <2> QED BY <1>1, <2>1, <2>2 DEF IInv, FileInv, OneUpload
<1>2. CASE Slots # {}
  <2>1. PICK s \in Slots : TRUE
    BY <1>2
  <2> QED BY <2>1, IdleOk, NodeStep
<1> QED BY <1>1, <1>2

\* The callback of a registration keeps the invariant.
LEMMA RegisterProbeInv ==
  ASSUME IInv, NEW s \in Slots, NEW n \in Nodes, RegisterProbe(s, n)
  PROVE  IInv'
<1>0. TypeOK
  BY DEF IInv
<1>1. PICK ok \in BOOLEAN :
        /\ IF ok THEN Answered(n) ELSE Unanswered(n)
        /\ Start(s, [Idle EXCEPT !.pc = "register", !.node = n, !.ok = ok])
  BY DEF RegisterProbe
<1>2. PICK x : x = [Idle EXCEPT !.pc = "register", !.node = n, !.ok = ok]
  OBVIOUS
<1>3. x \in JobType /\ x.pc \notin Busy
  BY <1>2, IdleOk DEF Idle, JobType, Busy
<1>4. job' = [job EXCEPT ![s] = x]
  BY <1>1, <1>2 DEF Start
<1>5. events' \in 0..MaxEvents
  BY <1>0, <1>1, AnswerOk
<1>6. NodesOk'
  BY <1>0, <1>5 DEF TypeOK, NodesOk, RegisterProbe, files, history
<1> QED BY <1>3, <1>4, <1>6, NodeStep DEF RegisterProbe, files, history

\* The upsert of a registration does.
LEMMA RegisterNodeInv ==
  ASSUME IInv, NEW s \in Slots, RegisterNode(s)
  PROVE  IInv'
<1>0. TypeOK
  BY DEF IInv
<1>1. PICK n : n = job[s].node
  OBVIOUS
<1>2. PICK r : r = IF row[n] = None
                   THEN [status |-> IF job[s].ok THEN "active" ELSE "offline",
                         failures |-> 0, used |-> 0]
                   ELSE IF job[s].ok
                   THEN [row[n] EXCEPT !.status = "active", !.failures = 0]
                   ELSE row[n]
  OBVIOUS
<1>3. row' = [row EXCEPT ![n] = r]
  BY <1>1, <1>2 DEF RegisterNode
<1>4. ASSUME n \in Nodes PROVE r \in RowType
  <2>1. row[n] = None \/ row[n] \in RowType
    BY <1>0, <1>4 DEF TypeOK
  <2> QED BY <1>2, <2>1 DEF RowType
<1>5. PICK y : y = IF n \in Nodes THEN r ELSE None
  OBVIOUS
<1>6. y \in RowType \cup {None} /\ (n \in Nodes => y # None) /\ row' = [row EXCEPT ![n] = y]
  BY <1>0, <1>3, <1>4, <1>5, NoneAssumption DEF TypeOK
<1>7. UNCHANGED <<settings, replica, manifest, legacy, disk, command, size, up, enrol, beat, events, lost, deleted, unlisted>>
      /\ job' = [job EXCEPT ![s] = Idle]
  BY DEF RegisterNode, Done, files, history
<1>8. /\ row' \in [Nodes -> RowType \cup {None}]
      /\ \A v \in Vaults, m \in Nodes : replica'[v][m] # None => row'[m] # None
  BY <1>0, <1>6, <1>7, RowStep
<1>9. NodesOk'
  BY <1>0, <1>7, <1>8 DEF TypeOK, NodesOk
<1> QED BY <1>7, <1>9, IdleOk, NodeStep

\* So do a crash, a start, and the two halves of a heartbeat.
LEMMA CrashInv ==
  ASSUME IInv, NEW n \in Nodes, Crash(n) \/ StartNode(n)
  PROVE  IInv'
<1>0. TypeOK
  BY DEF IInv
<1>1. events' \in 0..MaxEvents
  BY <1>0, EventOk DEF Crash, StartNode
<1>2. NodesOk'
  BY <1>0, <1>1 DEF TypeOK, NodesOk, Crash, StartNode, files
<1> QED BY <1>2, NodeOnly DEF Crash, StartNode, files, history

\* What a heartbeat reports is a number.
LEMMA SendHeartbeatInv ==
  ASSUME IInv, NEW n \in Nodes, SendHeartbeat(n)
  PROVE  IInv'
<1>0. TypeOK /\ IsFiniteSet(disk[n])
  BY DEF IInv, FileInv
<1>1. PICK b : b = StoredBytes(n)
  OBVIOUS
<1>2. b \in Nat
  BY <1>0, <1>1, StoredBytesNat
<1>3. beat' = [beat EXCEPT ![n] = b]
  BY <1>1 DEF SendHeartbeat
<1>4. beat' \in [Nodes -> Nat \cup {None}]
  BY <1>0, <1>2, <1>3 DEF TypeOK
<1>5. NodesOk'
  BY <1>0, <1>4 DEF TypeOK, NodesOk, SendHeartbeat, files
<1> QED BY <1>5, NodeOnly DEF SendHeartbeat, files, history

\* The Oracle writes it.
LEMMA HeartbeatInv ==
  ASSUME IInv, NEW n \in Nodes, Heartbeat(n)
  PROVE  IInv'
<1>0. TypeOK
  BY DEF IInv
<1>1. PICK r : r = IF row[n] = None THEN None
                   ELSE [status |-> "active", failures |-> 0, used |-> beat[n]]
  OBVIOUS
<1>2. beat[n] \in Nat
  BY <1>0 DEF TypeOK, Heartbeat
<1>3. r \in RowType \cup {None} /\ (row[n] # None => r # None)
  BY <1>1, <1>2, NoneAssumption DEF RowType
<1>4. row' = [row EXCEPT ![n] = r] /\ replica' = replica
  BY <1>1 DEF Heartbeat, files
<1>5. /\ row' \in [Nodes -> RowType \cup {None}]
      /\ \A v \in Vaults, m \in Nodes : replica'[v][m] # None => row'[m] # None
  BY <1>0, <1>3, <1>4, RowStep
<1>6. NodesOk'
  BY <1>0, <1>5 DEF TypeOK, NodesOk, Heartbeat, files
<1> QED BY <1>6, NodeOnly DEF Heartbeat, files, history

\* A health check, a removal and an upload by the old index start.
LEMMA ManagerStarts ==
  ASSUME IInv, NEW s \in Slots,
         \/ HealthCheckAll(s) \/ GetUploadUrl(s)
         \/ \E n \in Nodes : RemoveCount(s, n)
  PROVE  IInv'
<1>0. TypeOK
  BY DEF IInv
<1>1. PICK x \in JobType : x.pc \notin Busy /\ job' = [job EXCEPT ![s] = x]
  <2>1. CASE HealthCheckAll(s)
    <3>1. PICK x : x = [Idle EXCEPT !.pc = "check", !.todo = {n \in Nodes : row[n] # None}]
      OBVIOUS
    <3>2. x \in JobType /\ x.pc \notin Busy
      BY <3>1, IdleOk DEF Idle, JobType, Busy
    <3> QED BY <2>1, <3>1, <3>2 DEF HealthCheckAll, Start
  <2>2. CASE GetUploadUrl(s)
    <3>1. PICK n \in Nodes : Start(s, [Idle EXCEPT !.pc = "confirm", !.node = n])
      BY <2>2 DEF GetUploadUrl
    <3>2. PICK x : x = [Idle EXCEPT !.pc = "confirm", !.node = n]
      OBVIOUS
    <3>3. x \in JobType /\ x.pc \notin Busy
      BY <3>2, IdleOk DEF Idle, JobType, Busy
    <3> QED BY <3>1, <3>2, <3>3 DEF Start
  <2>3. CASE \E n \in Nodes : RemoveCount(s, n)
    <3>1. PICK n \in Nodes : Start(s, [Idle EXCEPT !.pc = "remove", !.node = n])
      BY <2>3 DEF RemoveCount
    <3>2. PICK x : x = [Idle EXCEPT !.pc = "remove", !.node = n]
      OBVIOUS
    <3>3. x \in JobType /\ x.pc \notin Busy
      BY <3>2, IdleOk DEF Idle, JobType, Busy
    <3> QED BY <3>1, <3>2, <3>3 DEF Start
  <2> QED BY <2>1, <2>2, <2>3
<1>2. UNCHANGED <<row, settings, replica, manifest, legacy, disk, command, size, up, enrol, beat, lost, deleted, unlisted>>
  BY DEF HealthCheckAll, GetUploadUrl, RemoveCount, nodes, files, history
<1>3. events' \in 0..MaxEvents
  BY <1>0, EventOk DEF HealthCheckAll, GetUploadUrl, RemoveCount
<1>4. NodesOk'
  BY <1>0, <1>2, <1>3 DEF TypeOK, NodesOk
<1> QED BY <1>1, <1>2, <1>4, NodeStep

\* A probe.
LEMMA HealthProbeInv ==
  ASSUME IInv, NEW s \in Slots, HealthProbe(s)
  PROVE  IInv'
<1>0. TypeOK /\ job \in [Slots -> JobType] /\ job[s] \in JobType
  BY DEF IInv, TypeOK
<1>1. PICK x \in JobType : x.pc \notin Busy /\ job' = [job EXCEPT ![s] = x]
  <2>1. CASE Done(s)
    BY <2>1, IdleOk DEF Done
  <2>2. CASE \E n \in job[s].todo, ok \in BOOLEAN :
               job' = [job EXCEPT ![s].pc = "checked", ![s].node = n, ![s].ok = ok,
                                  ![s].todo = @ \ {n}]
    <3>1. PICK n \in job[s].todo, ok \in BOOLEAN :
            job' = [job EXCEPT ![s].pc = "checked", ![s].node = n, ![s].ok = ok,
                               ![s].todo = @ \ {n}]
      BY <2>2
    <3>2. PICK x : x = [job[s] EXCEPT !.pc = "checked", !.node = n, !.ok = ok, !.todo = @ \ {n}]
      OBVIOUS
    <3>3. job' = [job EXCEPT ![s] = x]
      BY <1>0, <3>1, <3>2
    <3>4. job[s].todo \in SUBSET Nodes
      BY <1>0 DEF JobType
    <3>5. n \in Nodes /\ (job[s].todo \ {n}) \in SUBSET Nodes
      BY <3>4
    <3>6. x \in JobType /\ x.pc \notin Busy
      BY <1>0, <3>2, <3>5 DEF JobType, Busy
    <3> QED BY <3>3, <3>6
  <2> QED BY <2>1, <2>2 DEF HealthProbe
<1>2. UNCHANGED <<row, settings, replica, manifest, legacy, disk, command, size, up, enrol, beat, lost, deleted, unlisted>>
  BY DEF HealthProbe, nodes, files, history
<1>3. events' \in 0..MaxEvents
  BY <1>0, EventOk, AnswerOk DEF HealthProbe
<1>4. NodesOk'
  BY <1>0, <1>2, <1>3 DEF TypeOK, NodesOk
<1> QED BY <1>1, <1>2, <1>4, NodeStep

\* The count of failures stays a number.
LEMMA ProbeFailedOk ==
  ASSUME NEW r \in RowType
  PROVE  ProbeFailed(r) \in RowType
<1>1. r.failures \in Nat /\ r.used \in Nat /\ r.status \in {"active", "offline"} /\ OfflineAfter \in Nat
  BY RegistryAssumption DEF RowType
<1>2. PICK f \in Nat : f = IF r.failures > OfflineAfter THEN r.failures ELSE r.failures + 1
  BY <1>1
<1>3. PICK t \in {"active", "offline"} : t = IF r.failures >= OfflineAfter THEN "offline" ELSE r.status
  BY <1>1
<1>4. ProbeFailed(r) = [r EXCEPT !.failures = f, !.status = t]
  BY <1>2, <1>3 DEF ProbeFailed, RowType
<1> QED BY <1>2, <1>3, <1>4 DEF RowType

\* The update after a probe.
LEMMA HealthUpdateInv ==
  ASSUME IInv, NEW s \in Slots, HealthUpdate(s)
  PROVE  IInv'
<1>0. TypeOK /\ job \in [Slots -> JobType] /\ job[s] \in JobType
  BY DEF IInv, TypeOK
<1>1. PICK n : n = job[s].node
  OBVIOUS
<1>2. PICK r : r = IF row[n] = None THEN None
                   ELSE IF job[s].ok
                   THEN [row[n] EXCEPT !.status = "active", !.failures = 0]
                   ELSE ProbeFailed(row[n])
  OBVIOUS
<1>3. row' = [row EXCEPT ![n] = r]
  BY <1>1, <1>2 DEF HealthUpdate
<1>4. ASSUME n \in Nodes PROVE r \in RowType \cup {None} /\ (row[n] # None => r # None)
  <2>1. row[n] = None \/ row[n] \in RowType
    BY <1>0, <1>4 DEF TypeOK
  <2>2. CASE row[n] = None
    BY <1>2, <2>2
  <2>3. CASE row[n] # None
    <3>1. row[n] \in RowType
      BY <2>1, <2>3
    <3>2. ProbeFailed(row[n]) \in RowType /\ [row[n] EXCEPT !.status = "active", !.failures = 0] \in RowType
      BY <3>1, ProbeFailedOk DEF RowType
    <3>3. r \in RowType
      BY <1>2, <2>3, <3>2
    <3> QED BY <3>3, NoneAssumption
  <2> QED BY <2>2, <2>3
<1>5. PICK y : y = IF n \in Nodes THEN r ELSE None
  OBVIOUS
<1>6. y \in RowType \cup {None} /\ (n \in Nodes /\ row[n] # None => y # None) /\ row' = [row EXCEPT ![n] = y]
  BY <1>0, <1>3, <1>4, <1>5 DEF TypeOK
<1>7. UNCHANGED <<settings, replica, manifest, legacy, disk, command, size, up, enrol, beat, events, lost, deleted, unlisted>>
  BY DEF HealthUpdate, files, history
<1>8. /\ row' \in [Nodes -> RowType \cup {None}]
      /\ \A v \in Vaults, m \in Nodes : replica'[v][m] # None => row'[m] # None
  BY <1>0, <1>6, <1>7, RowStep
<1>9. NodesOk'
  BY <1>0, <1>7, <1>8 DEF TypeOK, NodesOk
<1>10. PICK x : x = [job[s] EXCEPT !.pc = "check", !.node = None, !.ok = FALSE]
  OBVIOUS
<1>11. x \in JobType /\ x.pc \notin Busy
  BY <1>0, <1>10 DEF JobType, Busy
<1>12. job' = [job EXCEPT ![s] = x]
  BY <1>0, <1>10 DEF HealthUpdate
<1> QED BY <1>7, <1>9, <1>11, <1>12, NodeStep

\* Removal: the foreign key refuses it while a replica is listed.
LEMMA RemoveNodeInv ==
  ASSUME IInv, NEW s \in Slots, RemoveNode(s)
  PROVE  IInv'
<1>0. TypeOK
  BY DEF IInv
<1>1. PICK n : n = job[s].node
  OBVIOUS
<1>2. row' = IF Referenced(n) THEN row ELSE [row EXCEPT ![n] = None]
  BY <1>1 DEF RemoveNode
<1>3. UNCHANGED <<settings, replica, manifest, legacy, disk, command, size, up, enrol, beat, events, lost, deleted, unlisted>>
      /\ job' = [job EXCEPT ![s] = Idle]
  BY DEF RemoveNode, Done, files, history
<1>4. row \in [Nodes -> RowType \cup {None}]
      /\ \A v \in Vaults, m \in Nodes : replica[v][m] # None => row[m] # None
  BY <1>0 DEF TypeOK
<1>5. row' \in [Nodes -> RowType \cup {None}]
  BY <1>2, <1>4
<1>6. ASSUME NEW v \in Vaults, NEW m \in Nodes, replica'[v][m] # None PROVE row'[m] # None
  <2>1. replica[v][m] # None /\ row[m] # None
    BY <1>3, <1>4, <1>6
  <2>2. CASE Referenced(n)
    BY <1>2, <2>1, <2>2
  <2>3. CASE ~Referenced(n)
    <3>1. m # n
      BY <2>1, <2>3 DEF Referenced
    <3> QED BY <1>2, <1>4, <2>1, <2>3, <3>1
  <2> QED BY <2>2, <2>3
<1>7. NodesOk'
  BY <1>0, <1>3, <1>5, <1>6 DEF TypeOK, NodesOk
<1> QED BY <1>3, <1>7, IdleOk, NodeStep

\* Settings and the old index.
LEMMA SettingsInv ==
  ASSUME IInv, \/ RegisterFile
               \/ \E f \in Factors, st \in Strategies : UpdateReplicationSettings(f, st)
  PROVE  IInv'
<1>0. TypeOK
  BY DEF IInv
<1>1. events' \in 0..MaxEvents
  BY <1>0, EventOk DEF RegisterFile, UpdateReplicationSettings
<1>2. settings' \in [factor : Factors \cup {2}, strategy : Strategies \cup {"mixed"}]
  <2>1. settings \in [factor : Factors \cup {2}, strategy : Strategies \cup {"mixed"}]
    BY <1>0 DEF TypeOK
  <2>2. CASE RegisterFile
    BY <2>1, <2>2 DEF RegisterFile
  <2>3. CASE \E f \in Factors, st \in Strategies : UpdateReplicationSettings(f, st)
    <3>1. PICK f \in Factors, st \in Strategies : settings' = [factor |-> f, strategy |-> st]
      BY <2>3 DEF UpdateReplicationSettings
    <3>2. f \in Factors \cup {2} /\ st \in Strategies \cup {"mixed"}
      OBVIOUS
    <3> QED BY <3>1, <3>2
  <2> QED BY <2>2, <2>3
<1>3. NodesOk'
  BY <1>0, <1>1, <1>2 DEF TypeOK, NodesOk, RegisterFile, UpdateReplicationSettings, nodes, files
<1> QED BY <1>3, NodeOnly DEF RegisterFile, UpdateReplicationSettings, nodes, files, history

\* Booking space at a node keeps its row's type.
LEMMA BookOk ==
  ASSUME TypeOK, NEW n, NEW b \in Nat, Book(n, b), replica' = replica
  PROVE  /\ row' \in [Nodes -> RowType \cup {None}]
         /\ \A v \in Vaults, m \in Nodes : replica'[v][m] # None => row'[m] # None
<1>1. row \in [Nodes -> RowType \cup {None}]
  BY DEF TypeOK
<1>2. CASE n \in Nodes /\ row[n] # None
  <2>1. row[n] \in RowType
    BY <1>1, <1>2
  <2>2. PICK y : y = [row[n] EXCEPT !.used = @ + b]
    OBVIOUS
  <2>3. y \in RowType
    BY <2>1, <2>2 DEF RowType
  <2>4. row' = [row EXCEPT ![n] = y]
    BY <1>1, <1>2, <2>2 DEF Book
  <2> QED BY <2>3, <2>4, NoneAssumption, RowStep
<1>3. CASE ~(n \in Nodes /\ row[n] # None)
  <2>1. row' = row
    BY <1>1, <1>3 DEF Book
  <2> QED BY <2>1 DEF TypeOK
<1> QED BY <1>2, <1>3

\* The confirmation by the old index.
LEMMA ConfirmInv ==
  ASSUME IInv, NEW s \in Slots, ConfirmUpload(s) \/ ConfirmUsage(s)
  PROVE  IInv'
<1>0. TypeOK /\ job \in [Slots -> JobType] /\ job[s] \in JobType
  BY DEF IInv, TypeOK
<1>1. CASE ConfirmUpload(s)
  <2>1. PICK x : x = [job[s] EXCEPT !.pc = "confirm_usage"]
    OBVIOUS
  <2>2. x \in JobType /\ x.pc \notin Busy
    BY <1>0, <2>1 DEF JobType, Busy
  <2>3. job' = [job EXCEPT ![s] = x]
    BY <1>0, <1>1, <2>1 DEF ConfirmUpload, Goto
  <2>4. legacy' \in Nodes \cup {None, ""}
    BY <1>0, <1>1 DEF ConfirmUpload, JobType
  <2>5. NodesOk'
    BY <1>0, <1>1, <2>4 DEF TypeOK, NodesOk, ConfirmUpload, nodes
  <2> QED BY <1>1, <2>2, <2>3, <2>5, NodeStep DEF ConfirmUpload, history
<1>2. CASE ConfirmUsage(s)
  <2>1. Book(job[s].node, 1) /\ job' = [job EXCEPT ![s] = Idle]
        /\ UNCHANGED <<settings, replica, manifest, legacy, disk, command, size, up, enrol, beat, events, lost, deleted, unlisted>>
    BY <1>2 DEF ConfirmUsage, Done, files, history
  <2>2. /\ row' \in [Nodes -> RowType \cup {None}]
        /\ \A v \in Vaults, m \in Nodes : replica'[v][m] # None => row'[m] # None
    BY <1>0, <2>1, BookOk
  <2>3. NodesOk'
    BY <1>0, <2>1, <2>2 DEF TypeOK, NodesOk
  <2> QED BY <2>1, <2>3, IdleOk, NodeStep
<1> QED BY <1>1, <1>2

-----------------------------------------------------------------------------
(* Requests about files *)

\* The types of what is known about files.
FilesOk ==
  /\ replica \in [Vaults -> [Nodes -> Keys \cup {None}]]
  /\ manifest \in [Vaults -> SUBSET Places]
  /\ disk \in [Nodes -> SUBSET Fragments]
  /\ job \in [Slots -> JobType]
  /\ command \in [Vaults -> CommandType] /\ size \in [Vaults -> Nat]
  /\ lost \in [Nodes -> SUBSET Fragments]
  /\ deleted \subseteq Vaults /\ unlisted \subseteq Vaults

\* The two parts are the type invariant.
LEMMA TypeParts == TypeOK <=> NodesOk /\ FilesOk
BY DEF TypeOK, NodesOk, FilesOk

\* Holds, after a step.
HoldsNext(n, v, k) == <<v, k>> \in disk'[n] \cup lost'[n]

\* No fragment of vault v disappears without being recorded as lost.
Kept(v) == \A n \in Nodes, k \in Keys : Holds(n, v, k) => HoldsNext(n, v, k)

\* A step changes nothing about vault w.
Same(w) ==
  /\ command'[w] = command[w] /\ manifest'[w] = manifest[w] /\ replica'[w] = replica[w]
  /\ Kept(w)
  /\ w \in deleted' <=> w \in deleted

\* A request that did not move knows what it knew.
LEMMA SlotKeeps ==
  ASSUME FilesOk, NEW t \in Slots, UploadInv(t), DeleteInv(t), job'[t] = job[t],
         Uploading(t) => Same(job[t].vault),
         deleted \subseteq deleted', unlisted \subseteq unlisted'
  PROVE  UploadInv(t)' /\ DeleteInv(t)'
<1>1. DeleteInv(t)'
  BY DEF DeleteInv, Deleting
<1>2. ASSUME Uploading(t) PROVE UploadInv(t)'
  <2>1. PICK j : j = job[t]
    OBVIOUS
  <2>2. PICK v : v = j.vault
    OBVIOUS
  <2>3. j \in JobType
    BY <2>1 DEF FilesOk
  <2>4. j.got \in SUBSET Places /\ j.list \in Seq(Places)
    BY <2>3 DEF JobType
  <2>5. /\ v \in Vaults /\ command[v] = "posted"
        /\ j.pc # "finish" => j.list # <<>>
        /\ j.pc = "finish" => j.list = <<>>
        /\ Apart(j.list) /\ Clear(Ahead(j), j.got)
        /\ j.pc = "list" => Holds(Head(j.list)[1], v, Head(j.list)[2])
        /\ \A p \in j.got : Holds(p[1], v, p[2])
        /\ v \notin unlisted => \A p \in j.got : replica[v][p[1]] = p[2]
    BY <1>2, <2>1, <2>2 DEF UploadInv
  <2>6. command'[v] = command[v] /\ replica'[v] = replica[v] /\ Kept(v)
    BY <1>2, <2>1, <2>2 DEF Same
  <2>7. \A p \in j.got : HoldsNext(p[1], v, p[2])
    <3> SUFFICES ASSUME NEW p \in j.got PROVE HoldsNext(p[1], v, p[2])
      OBVIOUS
    <3>1. p[1] \in Nodes /\ p[2] \in Keys
      BY <2>4 DEF Places
    <3> QED BY <2>5, <2>6, <3>1 DEF Kept
  <2>8. j.pc = "list" => HoldsNext(Head(j.list)[1], v, Head(j.list)[2])
    <3> SUFFICES ASSUME j.pc = "list" PROVE HoldsNext(Head(j.list)[1], v, Head(j.list)[2])
      OBVIOUS
    <3>1. PICK p : p = Head(j.list)
      OBVIOUS
    <3>2. p \in Places
      BY <2>4, <2>5, <3>1
    <3>3. p[1] \in Nodes /\ p[2] \in Keys
      BY <3>2 DEF Places
    <3> QED BY <2>5, <2>6, <3>1, <3>3 DEF Kept
  <2> QED BY <2>1, <2>2, <2>5, <2>6, <2>7, <2>8 DEF UploadInv, Holds, HoldsNext
<1>3. ASSUME ~Uploading(t) PROVE UploadInv(t)'
  BY <1>3 DEF UploadInv, Uploading
<1> QED BY <1>1, <1>2, <1>3

\* A vault that is left alone is as it was.
LEMMA VaultKeeps ==
  ASSUME FilesOk, NEW w \in Vaults, VaultInv(w), Same(w), unlisted \subseteq unlisted'
  PROVE  VaultInv(w)'
<1>1. manifest[w] \in SUBSET Places
  BY DEF FilesOk
<1>2. \A p \in manifest[w] : p[1] \in Nodes /\ p[2] \in Keys
  BY <1>1 DEF Places
<1>3. \A n \in Nodes, k \in Keys : Holds(n, w, k) => HoldsNext(n, w, k)
  BY DEF Same, Kept
<1>4. w \in deleted' => command'[w] \in {"stored", "failed"}
  BY DEF Same, VaultInv
<1>5. ASSUME w \notin deleted'
      PROVE  /\ \A p \in manifest'[w] : HoldsNext(p[1], w, p[2])
             /\ \A n \in Nodes : replica'[w][n] \in Keys => HoldsNext(n, w, replica'[w][n])
  <2>1. /\ w \notin deleted
        /\ \A p \in manifest[w] : Holds(p[1], w, p[2])
        /\ \A n \in Nodes : replica[w][n] \in Keys => Holds(n, w, replica[w][n])
    BY <1>5 DEF Same, VaultInv
  <2>2. manifest'[w] = manifest[w] /\ replica'[w] = replica[w]
    BY DEF Same
  <2>3. \A p \in manifest[w] : HoldsNext(p[1], w, p[2])
    BY <1>2, <1>3, <2>1
  <2>4. \A n \in Nodes : replica[w][n] \in Keys => HoldsNext(n, w, replica[w][n])
    BY <1>3, <2>1
  <2> QED BY <2>2, <2>3, <2>4
<1>6. w \notin deleted' \cup unlisted' /\ command'[w] = "stored" =>
        manifest'[w] # {} /\ \A p \in manifest'[w] : replica'[w][p[1]] = p[2]
  BY DEF Same, VaultInv
<1>7. command'[w] # "stored" => manifest'[w] = {}
  BY DEF Same, VaultInv
<1> QED BY <1>4, <1>5, <1>6, <1>7 DEF VaultInv, Holds, HoldsNext

\* Nobody else uploads a vault.
LEMMA NoOther ==
  ASSUME FileInv, NEW s \in Slots, NEW v \in Vaults,
         command[v] # "posted" \/ (Uploading(s) /\ job[s].vault = v)
  PROVE  \A t \in Slots : t # s /\ Uploading(t) => job[t].vault # v
BY DEF FileInv, OneUpload, UploadInv

\* A step of one request, about one vault.
LEMMA FileStep ==
  ASSUME IInv, NodesOk', FilesOk', NEW s \in Slots, NEW v \in Vaults,
         \A t \in Slots : t # s => job'[t] = job[t],
         \A t \in Slots : t # s /\ Uploading(t) => job[t].vault # v,
         \A w \in Vaults : w # v => Same(w),
         deleted \subseteq deleted', unlisted \subseteq unlisted',
         \A n \in Nodes : IsFiniteSet(disk'[n]),
         UploadInv(s)', DeleteInv(s)', VaultInv(v)',
         Uploading(s)' => job'[s].vault = v
  PROVE  IInv'
<1>0. FilesOk /\ FileInv
  BY TypeParts DEF IInv
<1>1. ASSUME NEW t \in Slots PROVE UploadInv(t)' /\ DeleteInv(t)'
  <2>1. CASE t = s
    BY <2>1
  <2>2. CASE t # s
    <3>1. UploadInv(t) /\ DeleteInv(t) /\ job'[t] = job[t]
      BY <1>0, <2>2 DEF FileInv
    <3>2. Uploading(t) => Same(job[t].vault)
      BY <2>2, <3>1 DEF UploadInv
    <3> QED BY <1>0, <3>1, <3>2, SlotKeeps
  <2> QED BY <2>1, <2>2
<1>2. ASSUME NEW t \in Slots, NEW u \in Slots, Uploading(t)', Uploading(u)', t # u
      PROVE  job'[t].vault # job'[u].vault
  <2>1. \A r \in Slots : r # s /\ Uploading(r)' => Uploading(r) /\ job'[r] = job[r]
    BY DEF Uploading
  <2>2. CASE t = s
    BY <1>2, <2>1, <2>2
  <2>3. CASE u = s
    BY <1>2, <2>1, <2>3
  <2>4. CASE t # s /\ u # s
    BY <1>0, <1>2, <2>1, <2>4 DEF FileInv, OneUpload
  <2> QED BY <2>2, <2>3, <2>4
<1>3. ASSUME NEW w \in Vaults PROVE VaultInv(w)'
  <2>1. CASE w = v
    BY <2>1
  <2>2. CASE w # v
    BY <1>0, <2>2, VaultKeeps DEF FileInv
  <2> QED BY <2>1, <2>2
<1>4. FileInv'
  BY <1>1, <1>2, <1>3 DEF FileInv, OneUpload
<1>5. TypeOK'
  BY DEF TypeOK, NodesOk, FilesOk
<1> QED BY <1>4, <1>5 DEF IInv

\* A step of no request.
LEMMA VaultStep ==
  ASSUME IInv, NodesOk', FilesOk', job' = job,
         \A t \in Slots : Uploading(t) => Same(job[t].vault),
         \A w \in Vaults : Same(w) \/ VaultInv(w)',
         deleted \subseteq deleted', unlisted \subseteq unlisted',
         \A n \in Nodes : IsFiniteSet(disk'[n])
  PROVE  IInv'
<1>0. FilesOk /\ FileInv
  BY TypeParts DEF IInv
<1>1. ASSUME NEW t \in Slots PROVE UploadInv(t)' /\ DeleteInv(t)'
  BY <1>0, SlotKeeps DEF FileInv
<1>2. OneUpload'
  BY <1>0 DEF FileInv, OneUpload, Uploading
<1>3. ASSUME NEW w \in Vaults PROVE VaultInv(w)'
  BY <1>0, VaultKeeps DEF FileInv
<1>4. FileInv'
  BY <1>1, <1>2, <1>3 DEF FileInv
<1>5. TypeOK'
  BY DEF TypeOK, NodesOk, FilesOk
<1> QED BY <1>4, <1>5 DEF IInv

\* A vault whose fragments stay where they are.
LEMMA Untouched ==
  ASSUME NEW w, command'[w] = command[w], manifest'[w] = manifest[w], replica'[w] = replica[w],
         disk' = disk, lost' = lost, deleted' = deleted
  PROVE  Same(w)
BY DEF Same, Kept, Holds, HoldsNext

\* The command of a vault that is neither uploaded nor deleted moves on, short of
\* being stored.
LEMMA CommandStep ==
  ASSUME IInv, NodesOk', NEW v \in Vaults, command[v] \in {"new", "prepared"},
         NEW c \in CommandType, c # "stored", command' = [command EXCEPT ![v] = c],
         size' \in [Vaults -> Nat],
         UNCHANGED <<replica, manifest, disk, lost, deleted, unlisted, job>>
  PROVE  IInv'
<1>0. FilesOk /\ FileInv
  BY TypeParts DEF IInv
<1>1. FilesOk'
  BY <1>0 DEF FilesOk
<1>2. \A w \in Vaults : w # v => command'[w] = command[w]
  BY <1>0 DEF FilesOk
<1>3. \A w \in Vaults : w # v => Same(w)
  BY <1>2, Untouched
<1>4. \A t \in Slots : Uploading(t) => Same(job[t].vault)
  BY <1>0, <1>3 DEF FileInv, UploadInv
<1>5. VaultInv(v)'
  <2>1. VaultInv(v) /\ command'[v] = c
    BY <1>0 DEF FileInv, FilesOk
  <2> QED BY <2>1 DEF VaultInv, Holds
<1>6. \A n \in Nodes : IsFiniteSet(disk'[n])
  BY <1>0 DEF FileInv
<1> QED BY <1>1, <1>3, <1>4, <1>5, <1>6, VaultStep

\* The desktop prepares a vault.
LEMMA DesktopInv ==
  ASSUME IInv, Desktop
  PROVE  IInv'
<1>0. NodesOk /\ FilesOk
  BY TypeParts DEF IInv
<1>1. PICK v \in Vaults, b \in Nat : PrepareVault(v, b)
  <2>1. PICK v \in Vaults, a \in Sizes :
          UploadFile(v, a) \/ EncryptSecureNote(v, a) \/ \E b \in Sizes : UploadFiles(v, a, b)
    BY DEF Desktop
  <2>2. a \in Nat /\ \A b \in Sizes : a + b \in Nat
    BY RegistryAssumption
  <2> QED BY <2>1, <2>2 DEF UploadFile, EncryptSecureNote, UploadFiles
<1>2. NodesOk'
  BY <1>0, <1>1 DEF NodesOk, PrepareVault, nodes
<1>3. PICK c \in {"prepared", "failed"} : command' = [command EXCEPT ![v] = c]
  BY <1>1 DEF PrepareVault
<1>4. c \in CommandType /\ c # "stored"
  BY DEF CommandType
<1>5. size' \in [Vaults -> Nat]
  BY <1>0, <1>1 DEF FilesOk, PrepareVault
<1>6. command[v] \in {"new", "prepared"} /\ UNCHANGED <<replica, manifest, disk, lost, deleted, unlisted, job>>
  BY <1>1 DEF PrepareVault, history
<1> QED BY <1>2, <1>3, <1>4, <1>5, <1>6, CommandStep

\* A node loses a fragment, which is recorded.
LEMMA LoseFragmentInv ==
  ASSUME IInv, NEW n \in Nodes, NEW f \in Fragments, LoseFragment(n, f)
  PROVE  IInv'
<1>0. NodesOk /\ FilesOk /\ TypeOK /\ FileInv
  BY TypeParts DEF IInv
<1>1. events' \in 0..MaxEvents
  BY <1>0, EventOk DEF LoseFragment
<1>2. NodesOk'
  BY <1>0, <1>1 DEF NodesOk, LoseFragment, nodes
<1>3. /\ disk' = [disk EXCEPT ![n] = disk[n] \ {f}]
      /\ lost' = [lost EXCEPT ![n] = lost[n] \cup {f}]
      /\ UNCHANGED <<replica, manifest, command, size, job, deleted, unlisted>>
  BY DEF LoseFragment
<1>4. FilesOk'
  BY <1>0, <1>3 DEF FilesOk
<1>5. \A m \in Nodes : disk'[m] \cup lost'[m] = disk[m] \cup lost[m]
  <2> SUFFICES ASSUME NEW m \in Nodes PROVE disk'[m] \cup lost'[m] = disk[m] \cup lost[m]
    OBVIOUS
  <2>1. f \in disk[n]
    BY DEF LoseFragment
  <2>2. CASE m = n
    <3>1. disk'[m] = disk[m] \ {f} /\ lost'[m] = lost[m] \cup {f}
      BY <1>0, <1>3, <2>2 DEF FilesOk
    <3> QED BY <2>1, <2>2, <3>1
  <2>3. CASE m # n
    BY <1>0, <1>3, <2>3 DEF FilesOk
  <2> QED BY <2>2, <2>3
<1>6. \A w : Same(w)
  BY <1>3, <1>5 DEF Same, Kept, Holds, HoldsNext
<1>7. ASSUME NEW m \in Nodes PROVE IsFiniteSet(disk'[m])
  <2>1. IsFiniteSet(disk[m]) /\ disk'[m] \in SUBSET disk[m]
    BY <1>0, <1>3 DEF FileInv, FilesOk
  <2> QED BY <2>1, FS_Subset
<1> QED BY <1>2, <1>3, <1>4, <1>6, <1>7, VaultStep

\* The places of an upload: a node and its index in the choice.
LEMMA PlacesOk ==
  ASSUME TypeOK, NEW bytes, NEW chosen \in Selections(bytes), chosen # <<>>,
         NEW list, list = [i \in DOMAIN chosen |-> <<chosen[i], i - 1>>]
  PROVE  list \in Seq(Places) /\ list # <<>> /\ Apart(list)
<1> PICK C : C = Candidates(bytes)
  OBVIOUS
<1>1. /\ chosen \in Seq(C) /\ Len(chosen) = Cardinality(ToSet(chosen)) /\ ToSet(chosen) \subseteq C
      /\ \A i, j \in DOMAIN chosen : chosen[i] = chosen[j] => i = j
  BY Fitting
<1>2. C \in SUBSET Nodes
  BY CandidateIs
<1>3. Len(chosen) <= Cardinality(Nodes) /\ Cardinality(Nodes) \in Nat
  BY <1>1, <1>2, NodesAssumption, FS_Subset, FS_CardinalityType
<1>4. Len(chosen) \in Nat /\ DOMAIN chosen = 1..Len(chosen) /\ Len(chosen) # 0
  BY <1>1
<1>5. \A i \in 1..Len(chosen) : chosen[i] \in Nodes /\ i - 1 \in Keys
  BY <1>1, <1>2, <1>3, <1>4 DEF Keys
<1>6. list \in [1..Len(chosen) -> Places]
  BY <1>4, <1>5 DEF Places
<1>7. list \in Seq(Places) /\ Len(list) = Len(chosen)
  BY <1>4, <1>6
<1>8. \A i \in DOMAIN list : list[i][1] = chosen[i]
  OBVIOUS
<1>9. Apart(list)
  BY <1>1, <1>8 DEF Apart
<1> QED BY <1>4, <1>7, <1>9

\* An upload starts: its vault is new to all.
LEMMA UploadStartInv ==
  ASSUME IInv, NEW s \in Slots, NEW v \in Vaults, UploadStart(s, v)
  PROVE  IInv'
<1>0. NodesOk /\ FilesOk /\ TypeOK /\ FileInv
  BY TypeParts DEF IInv
<1>1. NodesOk'
  BY <1>0 DEF NodesOk, UploadStart, nodes
<1>2. command[v] = "prepared" /\ UNCHANGED <<replica, manifest, disk, size, lost, deleted, unlisted>>
  BY DEF UploadStart, history
<1>3. CASE Answer(v, "failed") /\ UNCHANGED job
  <2>1. PICK c : c = "failed"
    OBVIOUS
  <2>2. c \in CommandType /\ c # "stored" /\ command' = [command EXCEPT ![v] = c]
    BY <1>3, <2>1 DEF CommandType, Answer
  <2>3. size' \in [Vaults -> Nat]
    BY <1>0, <1>2 DEF FilesOk
  <2> QED BY <1>1, <1>2, <1>3, <2>2, <2>3, CommandStep
<1>4. CASE \E chosen \in Selections(Encrypted(v)) \ {<<>>} :
             /\ Start(s, [Idle EXCEPT !.pc = "put", !.vault = v,
                            !.list = [i \in DOMAIN chosen |-> <<chosen[i], i - 1>>]])
             /\ Answer(v, "posted")
  <2>1. PICK chosen \in Selections(Encrypted(v)) :
          /\ chosen # <<>>
          /\ Start(s, [Idle EXCEPT !.pc = "put", !.vault = v,
                         !.list = [i \in DOMAIN chosen |-> <<chosen[i], i - 1>>]])
          /\ Answer(v, "posted")
    BY <1>4
  <2>2. PICK list : list = [i \in DOMAIN chosen |-> <<chosen[i], i - 1>>]
    OBVIOUS
  <2>3. list \in Seq(Places) /\ list # <<>> /\ Apart(list)
    BY <1>0, <2>1, <2>2, PlacesOk
  <2>4. PICK x : x = [Idle EXCEPT !.pc = "put", !.vault = v, !.list = list]
    OBVIOUS
  <2>5. x.pc = "put" /\ x.vault = v /\ x.list = list /\ x.got = {}
    BY <2>4 DEF Idle
  <2>6. x \in JobType
    BY <2>3, <2>4, IdleOk DEF Idle, JobType
  <2>7. job' = [job EXCEPT ![s] = x] /\ command' = [command EXCEPT ![v] = "posted"]
    BY <2>1, <2>2, <2>4 DEF Start, Answer
  <2>8. job'[s] = x /\ (\A t \in Slots : t # s => job'[t] = job[t])
        /\ command'[v] = "posted" /\ \A w \in Vaults : w # v => command'[w] = command[w]
    BY <1>0, <2>7 DEF FilesOk
  <2>9. job' \in [Slots -> JobType]
    BY <1>0, <2>6, <2>7, SlotStep
  <2>10. FilesOk'
    BY <1>0, <1>2, <2>7, <2>9 DEF FilesOk, CommandType
  <2>11. \A w \in Vaults : w # v => Same(w)
    BY <1>2, <2>8, Untouched
  <2>12. \A t \in Slots : t # s /\ Uploading(t) => job[t].vault # v
    BY <1>0, <1>2, NoOther
  <2>13. VaultInv(v)'
    <3>1. VaultInv(v)
      BY <1>0 DEF FileInv
    <3> QED BY <1>2, <2>8, <3>1 DEF VaultInv, Holds
  <2>14. DeleteInv(s)'
    BY <2>5, <2>8 DEF DeleteInv, Deleting
  <2>15. UploadInv(s)'
    BY <2>3, <2>5, <2>8 DEF UploadInv, Ahead, Clear
  <2>16. \A n \in Nodes : IsFiniteSet(disk'[n])
    BY <1>0, <1>2 DEF FileInv
  <2> QED BY <1>1, <1>2, <2>5, <2>8, <2>10, <2>11, <2>12, <2>13, <2>14, <2>15, <2>16, FileStep
<1> QED BY <1>3, <1>4 DEF UploadStart

\* What an upload under way knows.
LEMMA UploadKnows ==
  ASSUME IInv, NEW s \in Slots, Uploading(s), NEW j, j = job[s], NEW v, v = j.vault
  PROVE  /\ j \in JobType /\ j.got \in SUBSET Places /\ j.list \in Seq(Places)
         /\ v \in Vaults /\ command[v] = "posted" /\ v \notin deleted
         /\ j.pc # "finish" => j.list # <<>>
         /\ j.pc = "finish" => j.list = <<>>
         /\ Apart(j.list) /\ Clear(Ahead(j), j.got)
         /\ j.pc = "list" => Holds(Head(j.list)[1], v, Head(j.list)[2])
         /\ \A p \in j.got : Holds(p[1], v, p[2])
         /\ v \notin unlisted => \A p \in j.got : replica[v][p[1]] = p[2]
<1>1. j \in JobType
  BY DEF IInv, TypeOK
<1>2. UploadInv(s)
  BY DEF IInv, FileInv
<1>3. v \in Vaults /\ command[v] = "posted"
  BY <1>2 DEF UploadInv
<1>4. v \notin deleted
  BY <1>3 DEF IInv, FileInv, VaultInv
<1>5. j.got \in SUBSET Places /\ j.list \in Seq(Places)
  BY <1>1 DEF JobType
<1> QED BY <1>1, <1>2, <1>3, <1>4, <1>5 DEF UploadInv

\* And what it has to know after a step.
LEMMA UploadIs ==
  ASSUME NEW s, NEW x, job'[s] = x, NEW v \in Vaults, x.vault = v, command'[v] = "posted",
         x.pc # "finish" => x.list # <<>>, x.pc = "finish" => x.list = <<>>,
         Apart(x.list), Clear(Ahead(x), x.got),
         x.pc = "list" => HoldsNext(Head(x.list)[1], v, Head(x.list)[2]),
         \A p \in x.got : HoldsNext(p[1], v, p[2]),
         v \notin unlisted' => \A p \in x.got : replica'[v][p[1]] = p[2]
  PROVE  UploadInv(s)'
BY DEF UploadInv, Holds, HoldsNext

\* The rest of a list of different nodes.
LEMMA RestOk ==
  ASSUME NEW list \in Seq(Places), list # <<>>, Apart(list)
  PROVE  /\ Head(list) \in Places /\ Head(list)[1] \in Nodes /\ Head(list)[2] \in Keys
         /\ Tail(list) \in Seq(Places) /\ Apart(Tail(list))
         /\ \A i \in DOMAIN Tail(list) : Tail(list)[i][1] # Head(list)[1]
         /\ \A got : Clear(list, got) =>
              Clear(Tail(list), got) /\ \A p \in got : p[1] # Head(list)[1]
<1>1. Head(list) \in Places /\ Head(list) = list[1] /\ 1 \in DOMAIN list
  OBVIOUS
<1>2. Head(list)[1] \in Nodes /\ Head(list)[2] \in Keys
  BY <1>1 DEF Places
<1>3. Tail(list) \in Seq(Places)
      /\ \A i \in DOMAIN Tail(list) : i \in Nat /\ i >= 1 /\ i + 1 \in DOMAIN list /\ Tail(list)[i] = list[i + 1]
  OBVIOUS
<1>4. Apart(Tail(list))
  <2> SUFFICES ASSUME NEW i \in DOMAIN Tail(list), NEW k \in DOMAIN Tail(list), i # k
               PROVE  Tail(list)[i][1] # Tail(list)[k][1]
    BY DEF Apart
  <2>1. i + 1 # k + 1
    BY <1>3
  <2> QED BY <1>3, <2>1 DEF Apart
<1>5. ASSUME NEW i \in DOMAIN Tail(list) PROVE Tail(list)[i][1] # Head(list)[1]
  <2>1. i + 1 # 1
    BY <1>3
  <2> QED BY <1>1, <1>3, <2>1 DEF Apart
<1>6. ASSUME NEW got, Clear(list, got)
      PROVE  Clear(Tail(list), got) /\ \A p \in got : p[1] # Head(list)[1]
  BY <1>1, <1>3, <1>6 DEF Clear
<1> QED BY <1>1, <1>2, <1>3, <1>4, <1>5, <1>6

\* A node that stores a fragment loses none.
LEMMA StoreOk ==
  ASSUME IInv, NEW n \in Nodes, NEW v \in Vaults, NEW k \in Keys,
         Store(n, v, k) \/ disk' = disk, lost' = lost
  PROVE  /\ disk' \in [Nodes -> SUBSET Fragments]
         /\ \A m \in Nodes : IsFiniteSet(disk'[m])
         /\ \A w : Kept(w)
         /\ Store(n, v, k) => HoldsNext(n, v, k)
<1>0. disk \in [Nodes -> SUBSET Fragments] /\ \A m \in Nodes : IsFiniteSet(disk[m])
  BY DEF IInv, TypeOK, FileInv
<1>1. CASE disk' = disk /\ ~Store(n, v, k)
  BY <1>0, <1>1 DEF Kept, Holds, HoldsNext
<1>2. CASE Store(n, v, k)
  <2>1. PICK f : f = <<v, k>>
    OBVIOUS
  <2>2. f \in Fragments
    BY <2>1 DEF Fragments
  <2>3. disk' = [disk EXCEPT ![n] = disk[n] \cup {f}]
    BY <1>2, <2>1 DEF Store
  <2>4. disk' \in [Nodes -> SUBSET Fragments]
    BY <1>0, <2>2, <2>3
  <2>5. \A m \in Nodes : disk'[m] = IF m = n THEN disk[m] \cup {f} ELSE disk[m]
    BY <1>0, <2>3
  <2>6. \A m \in Nodes : IsFiniteSet(disk'[m])
    <3> SUFFICES ASSUME NEW m \in Nodes PROVE IsFiniteSet(disk'[m])
      OBVIOUS
    <3>1. PICK D : D = disk[m]
      OBVIOUS
    <3>2. IsFiniteSet(D) /\ IsFiniteSet(D \cup {f})
      BY <1>0, <3>1, FS_AddElement
    <3> QED BY <2>5, <3>1, <3>2
  <2>7. \A w : Kept(w)
    BY <2>5 DEF Kept, Holds, HoldsNext
  <2>8. HoldsNext(n, v, k)
    BY <2>1, <2>5 DEF HoldsNext
  <2> QED BY <2>4, <2>6, <2>7, <2>8
<1> QED BY <1>1, <1>2

\* PUT: whatever comes of it, the upload lists only what is stored.
LEMMA UploadPutInv ==
  ASSUME IInv, NEW s \in Slots, UploadPut(s)
  PROVE  IInv'
<1>0. NodesOk /\ FilesOk /\ TypeOK /\ FileInv
  BY TypeParts DEF IInv
<1>1. PICK j : j = job[s]
  OBVIOUS
<1>2. PICK v : v = j.vault
  OBVIOUS
<1>3. PICK p : p = Head(j.list)
  OBVIOUS
<1>4. Uploading(s) /\ j.pc = "put"
  BY <1>1 DEF UploadPut, At, Uploading
<1>5. /\ j \in JobType /\ j.got \in SUBSET Places /\ j.list \in Seq(Places)
      /\ v \in Vaults /\ command[v] = "posted" /\ v \notin deleted
      /\ j.list # <<>> /\ Apart(j.list) /\ Clear(j.list, j.got)
      /\ \A r \in j.got : Holds(r[1], v, r[2])
      /\ v \notin unlisted => \A r \in j.got : replica[v][r[1]] = r[2]
  BY <1>1, <1>2, <1>4, UploadKnows DEF Ahead
<1>6. /\ p \in Places /\ p[1] \in Nodes /\ p[2] \in Keys
      /\ Tail(j.list) \in Seq(Places) /\ Apart(Tail(j.list)) /\ Clear(Tail(j.list), j.got)
  BY <1>3, <1>5, RestOk
<1>7. UNCHANGED <<row, settings, up, enrol, beat, replica, manifest, legacy, command, size, lost, deleted, unlisted>>
  BY DEF UploadPut, nodes, history
<1>8. events' \in 0..MaxEvents
  <2>1. (\E n : Answered(n) \/ Unanswered(n)) \/ UNCHANGED events
    BY DEF UploadPut
  <2> QED BY <1>0, <2>1, AnswerOk, EventOk
<1>9. NodesOk'
  BY <1>0, <1>7, <1>8 DEF NodesOk
<1>10. \/ Store(p[1], v, p[2]) /\ Goto(s, "list")
       \/ /\ Store(p[1], v, p[2]) \/ disk' = disk
          /\ job' = [job EXCEPT ![s].pc = Advance(s), ![s].list = Tail(@)]
  BY <1>1, <1>2, <1>3 DEF UploadPut, Next1
<1>11. PICK x : /\ job' = [job EXCEPT ![s] = x]
                /\ \/ x = [j EXCEPT !.pc = "list"] /\ Store(p[1], v, p[2])
                   \/ x = [j EXCEPT !.pc = IF Tail(j.list) = <<>> THEN "finish" ELSE "put",
                                    !.list = Tail(j.list)]
  <2>1. CASE Store(p[1], v, p[2]) /\ Goto(s, "list")
    <3>1. PICK x : x = [j EXCEPT !.pc = "list"]
      OBVIOUS
    <3>2. job' = [job EXCEPT ![s] = x]
      BY <1>0, <1>1, <2>1, <3>1 DEF FilesOk, Goto
    <3> QED BY <2>1, <3>1, <3>2
  <2>2. CASE job' = [job EXCEPT ![s].pc = Advance(s), ![s].list = Tail(@)]
    <3>1. PICK x : x = [j EXCEPT !.pc = IF Tail(j.list) = <<>> THEN "finish" ELSE "put",
                                 !.list = Tail(j.list)]
      OBVIOUS
    <3>2. job' = [job EXCEPT ![s] = x]
      BY <1>0, <1>1, <2>2, <3>1 DEF FilesOk, Advance
    <3> QED BY <3>1, <3>2
  <2> QED BY <1>10, <2>1, <2>2
<1>12. x \in JobType /\ x.vault = v /\ x.got = j.got /\ (x.pc = "list" => x.list = j.list /\ Store(p[1], v, p[2]))
       /\ (x.pc # "list" => x.list = Tail(j.list) /\ x.pc = IF Tail(j.list) = <<>> THEN "finish" ELSE "put")
  <2>1. CASE x = [j EXCEPT !.pc = "list"] /\ Store(p[1], v, p[2])
    BY <1>2, <1>5, <2>1 DEF JobType
  <2>2. CASE x = [j EXCEPT !.pc = IF Tail(j.list) = <<>> THEN "finish" ELSE "put", !.list = Tail(j.list)]
    BY <1>2, <1>5, <1>6, <2>2 DEF JobType
  <2> QED BY <1>11, <2>1, <2>2
<1>13. job'[s] = x /\ (\A t \in Slots : t # s => job'[t] = job[t]) /\ job' \in [Slots -> JobType]
  BY <1>0, <1>11, <1>12 DEF FilesOk
<1>14. /\ disk' \in [Nodes -> SUBSET Fragments] /\ \A m \in Nodes : IsFiniteSet(disk'[m])
       /\ (\A w : Kept(w))
       /\ Store(p[1], v, p[2]) => HoldsNext(p[1], v, p[2])
  BY <1>5, <1>6, <1>7, <1>10, StoreOk
<1>15. FilesOk'
  BY <1>0, <1>7, <1>13, <1>14 DEF FilesOk
<1>16. \A w : Same(w)
  BY <1>7, <1>14 DEF Same
<1>17. VaultInv(v)'
  BY <1>0, <1>5, <1>7, <1>16, VaultKeeps DEF FileInv
<1>18. \A r \in x.got : HoldsNext(r[1], v, r[2])
  <2> SUFFICES ASSUME NEW r \in j.got PROVE HoldsNext(r[1], v, r[2])
    BY <1>12
  <2>1. r[1] \in Nodes /\ r[2] \in Keys /\ Holds(r[1], v, r[2])
    BY <1>5 DEF Places
  <2> QED BY <1>14, <2>1 DEF Kept
<1>19. UploadInv(s)'
  <2>1. command'[v] = "posted" /\ (v \notin unlisted' => \A r \in x.got : replica'[v][r[1]] = r[2])
    BY <1>5, <1>7, <1>12
  <2>2. CASE x.pc = "list"
    <3>1. x.list = j.list /\ HoldsNext(Head(x.list)[1], v, Head(x.list)[2])
      BY <1>3, <1>12, <1>14, <2>2
    <3>2. Clear(Ahead(x), x.got) /\ Apart(x.list) /\ x.list # <<>>
      BY <1>5, <1>12, <2>2, <3>1 DEF Ahead
    <3> QED BY <1>5, <1>12, <1>13, <1>18, <2>1, <2>2, <3>1, <3>2, UploadIs
  <2>3. CASE x.pc # "list"
    <3>1. /\ x.list = Tail(j.list) /\ (x.pc # "finish" => x.list # <<>>)
          /\ (x.pc = "finish" => x.list = <<>>) /\ x.pc # "usage"
      BY <1>12, <2>3
    <3>2. Clear(Ahead(x), x.got) /\ Apart(x.list)
      BY <1>6, <1>12, <2>3, <3>1 DEF Ahead
    <3> QED BY <1>5, <1>12, <1>13, <1>18, <2>1, <2>3, <3>1, <3>2, UploadIs
  <2> QED BY <2>2, <2>3
<1>20. DeleteInv(s)'
  BY <1>12, <1>13 DEF DeleteInv, Deleting
<1>21. \A t \in Slots : t # s /\ Uploading(t) => job[t].vault # v
  BY <1>0, <1>1, <1>2, <1>4, <1>5, NoOther
<1> QED BY <1>5, <1>7, <1>9, <1>12, <1>13, <1>14, <1>15, <1>16, <1>17, <1>19, <1>20, <1>21, FileStep

\* INSERT: what is listed is stored, and no replica of the vault is overwritten,
\* because the nodes are different.
LEMMA UploadListInv ==
  ASSUME IInv, NEW s \in Slots, UploadList(s)
  PROVE  IInv'
<1>0. NodesOk /\ FilesOk /\ TypeOK /\ FileInv
  BY TypeParts DEF IInv
<1>1. PICK j : j = job[s]
  OBVIOUS
<1>2. PICK v : v = j.vault
  OBVIOUS
<1>3. PICK p : p = Head(j.list)
  OBVIOUS
<1>4. Uploading(s) /\ j.pc = "list"
  BY <1>1 DEF UploadList, At, Uploading
<1>5. /\ j \in JobType /\ j.got \in SUBSET Places /\ j.list \in Seq(Places)
      /\ v \in Vaults /\ command[v] = "posted" /\ v \notin deleted
      /\ j.list # <<>> /\ Apart(j.list) /\ Clear(j.list, j.got)
      /\ Holds(p[1], v, p[2])
      /\ \A r \in j.got : Holds(r[1], v, r[2])
      /\ v \notin unlisted => \A r \in j.got : replica[v][r[1]] = r[2]
  BY <1>1, <1>2, <1>3, <1>4, UploadKnows DEF Ahead
<1>6. /\ p \in Places /\ p[1] \in Nodes /\ p[2] \in Keys
      /\ \A i \in DOMAIN Tail(j.list) : Tail(j.list)[i][1] # p[1]
      /\ Clear(Tail(j.list), j.got) /\ \A r \in j.got : r[1] # p[1]
  BY <1>3, <1>5, RestOk
<1>7. PICK n : n = p[1]
  OBVIOUS
<1>8. /\ \/ row[n] # None /\ replica' = [replica EXCEPT ![v][n] = p[2]] /\ unlisted' = unlisted
         \/ replica' = replica /\ unlisted' = unlisted \cup {v}
      /\ job' = [job EXCEPT ![s].pc = "usage", ![s].got = @ \cup {<<p[1], p[2]>>}]
      /\ UNCHANGED <<row, settings, up, enrol, beat, manifest, legacy, disk, command, size, lost, deleted>>
  BY <1>1, <1>2, <1>3, <1>7 DEF UploadList, Next1, nodes
<1>8a. events' \in 0..MaxEvents
  <2>1. events' = events \/ Event
    BY DEF UploadList
  <2> QED BY <1>0, <2>1, EventOk DEF NodesOk
<1>9. <<p[1], p[2]>> = p
  BY <1>6 DEF Places
<1>10. PICK G : G = j.got \cup {p}
  OBVIOUS
<1>11. PICK x : x = [j EXCEPT !.pc = "usage", !.got = G]
  OBVIOUS
<1>12. job' = [job EXCEPT ![s] = x]
  BY <1>0, <1>1, <1>8, <1>9, <1>10, <1>11 DEF FilesOk
<1>13. G \in SUBSET Places
  BY <1>5, <1>6, <1>10
<1>14. x \in JobType /\ x.vault = v /\ x.got = G /\ x.list = j.list /\ x.pc = "usage"
  BY <1>2, <1>5, <1>11, <1>13 DEF JobType
<1>15. job'[s] = x /\ (\A t \in Slots : t # s => job'[t] = job[t]) /\ job' \in [Slots -> JobType]
  BY <1>0, <1>12, <1>14 DEF FilesOk
<1>16. /\ replica' \in [Vaults -> [Nodes -> Keys \cup {None}]]
       /\ \A w \in Vaults : w # v => replica'[w] = replica[w]
       /\ \A m \in Nodes : m # n => replica'[v][m] = replica[v][m]
       /\ \/ row[n] # None /\ replica'[v][n] = p[2] /\ unlisted' = unlisted
          \/ replica' = replica /\ unlisted' = unlisted \cup {v}
  <2>1. replica \in [Vaults -> [Nodes -> Keys \cup {None}]]
    BY <1>0 DEF FilesOk
  <2>2. CASE replica' = replica /\ unlisted' = unlisted \cup {v}
    BY <2>1, <2>2
  <2>3. CASE row[n] # None /\ replica' = [replica EXCEPT ![v][n] = p[2]] /\ unlisted' = unlisted
    <3>1. PICK h : h = [replica[v] EXCEPT ![n] = p[2]]
      OBVIOUS
    <3>2. replica[v] \in [Nodes -> Keys \cup {None}]
      BY <1>5, <2>1
    <3>3. h \in [Nodes -> Keys \cup {None}] /\ h[n] = p[2] /\ \A m \in Nodes : m # n => h[m] = replica[v][m]
      BY <1>6, <1>7, <3>1, <3>2
    <3>4. replica' = [replica EXCEPT ![v] = h]
      BY <1>5, <2>1, <2>3, <3>1
    <3>5. replica'[v] = h
      BY <1>5, <2>1, <3>4
    <3> QED BY <2>1, <2>3, <3>3, <3>4, <3>5
  <2> QED BY <1>8, <2>2, <2>3
<1>17. \A w \in Vaults, m \in Nodes : replica'[w][m] # None => row'[m] # None
  <2> SUFFICES ASSUME NEW w \in Vaults, NEW m \in Nodes, replica'[w][m] # None PROVE row[m] # None
    BY <1>8
  <2>1. replica[w][m] # None => row[m] # None
    BY <1>0 DEF NodesOk
  <2> QED BY <1>16, <2>1
<1>18. NodesOk'
  BY <1>0, <1>8, <1>8a, <1>17 DEF NodesOk
<1>19. unlisted' \subseteq Vaults /\ unlisted \subseteq unlisted'
  BY <1>0, <1>5, <1>8 DEF FilesOk
<1>20. FilesOk'
  BY <1>0, <1>8, <1>15, <1>16, <1>19 DEF FilesOk
<1>21. \A w \in Vaults : w # v => Same(w)
  BY <1>8, <1>16, Untouched
<1>22. \A m, k : Holds(m, v, k) => HoldsNext(m, v, k)
  BY <1>8 DEF Holds, HoldsNext
<1>23. VaultInv(v)'
  <2>1. \A r \in manifest[v] : Holds(r[1], v, r[2])
    BY <1>0, <1>5 DEF FileInv, VaultInv
  <2>2. ASSUME NEW m \in Nodes, replica'[v][m] \in Keys PROVE HoldsNext(m, v, replica'[v][m])
    <3>1. replica[v][m] \in Keys => Holds(m, v, replica[v][m])
      BY <1>0, <1>5 DEF FileInv, VaultInv
    <3>2. replica'[v][m] = replica[v][m] \/ (m = n /\ replica'[v][m] = p[2])
      BY <1>16
    <3> QED BY <1>5, <1>7, <1>22, <2>2, <3>1, <3>2
  <2>3. v \notin deleted' /\ command'[v] = "posted" /\ manifest' = manifest
    BY <1>5, <1>8
  <2>4. \A r \in manifest'[v] : HoldsNext(r[1], v, r[2])
    BY <1>22, <2>1, <2>3
  <2>5. manifest[v] = {}
    BY <1>0, <1>5 DEF FileInv, VaultInv
  <2> QED BY <2>2, <2>3, <2>4, <2>5 DEF VaultInv, Holds, HoldsNext
<1>24. UploadInv(s)'
  <2>1. \A r \in G : HoldsNext(r[1], v, r[2])
    BY <1>5, <1>10, <1>22
  <2>2. Clear(Tail(j.list), G)
    BY <1>6, <1>10 DEF Clear
  <2>3. Clear(Ahead(x), x.got)
    BY <1>14, <2>2 DEF Ahead
  <2>4. ASSUME v \notin unlisted', NEW r \in G PROVE replica'[v][r[1]] = r[2]
    <3>1. row[n] # None /\ replica'[v][n] = p[2] /\ v \notin unlisted
      BY <1>16, <2>4
    <3>2. CASE r = p
      BY <1>7, <1>16, <3>1, <3>2
    <3>3. CASE r \in j.got
      <4>1. r[1] \in Nodes /\ r[1] # n
        BY <1>5, <1>6, <1>7, <3>3 DEF Places
      <4> QED BY <1>5, <1>16, <3>1, <3>3, <4>1
    <3> QED BY <1>10, <3>2, <3>3
  <2>5. command'[v] = "posted"
    BY <1>5, <1>8
  <2> QED BY <1>5, <1>14, <1>15, <2>1, <2>3, <2>4, <2>5, UploadIs
<1>25. DeleteInv(s)'
  BY <1>14, <1>15 DEF DeleteInv, Deleting
<1>26. \A t \in Slots : t # s /\ Uploading(t) => job[t].vault # v
  BY <1>0, <1>1, <1>2, <1>4, <1>5, NoOther
<1>27. (\A m \in Nodes : IsFiniteSet(disk'[m])) /\ deleted \subseteq deleted'
  BY <1>0, <1>8 DEF FileInv
<1> QED BY <1>5, <1>14, <1>15, <1>18, <1>19, <1>20, <1>21, <1>23, <1>24, <1>25, <1>26, <1>27, FileStep

\* The update of the used space.
LEMMA UploadUsageInv ==
  ASSUME IInv, NEW s \in Slots, UploadUsage(s)
  PROVE  IInv'
<1>0. NodesOk /\ FilesOk /\ TypeOK /\ FileInv
  BY TypeParts DEF IInv
<1>1. PICK j : j = job[s]
  OBVIOUS
<1>2. PICK v : v = j.vault
  OBVIOUS
<1>3. PICK rest : rest = Tail(j.list)
  OBVIOUS
<1>4. Uploading(s) /\ j.pc = "usage"
  BY <1>1 DEF UploadUsage, At, Uploading
<1>5. /\ j \in JobType /\ j.got \in SUBSET Places /\ j.list \in Seq(Places)
      /\ v \in Vaults /\ command[v] = "posted"
      /\ j.list # <<>> /\ Apart(j.list) /\ Clear(rest, j.got)
      /\ \A r \in j.got : Holds(r[1], v, r[2])
      /\ v \notin unlisted => \A r \in j.got : replica[v][r[1]] = r[2]
  BY <1>1, <1>2, <1>3, <1>4, UploadKnows DEF Ahead
<1>6. rest \in Seq(Places) /\ Apart(rest)
  BY <1>3, <1>5, RestOk
<1>7. /\ Book(Head(j.list)[1], Encrypted(v))
      /\ job' = [job EXCEPT ![s].pc = Advance(s), ![s].list = Tail(@)]
      /\ UNCHANGED <<settings, up, enrol, beat, replica, manifest, legacy, disk, command, size, events, lost, deleted, unlisted>>
  BY <1>1, <1>2 DEF UploadUsage, Next1, files, history
<1>8. Encrypted(v) \in Nat
  BY <1>0, <1>5, RegistryAssumption DEF FilesOk, Encrypted
<1>9. /\ row' \in [Nodes -> RowType \cup {None}]
      /\ \A w \in Vaults, m \in Nodes : replica'[w][m] # None => row'[m] # None
  BY <1>0, <1>7, <1>8, BookOk
<1>10. NodesOk'
  BY <1>0, <1>7, <1>9 DEF NodesOk
<1>11. PICK x : x = [j EXCEPT !.pc = IF rest = <<>> THEN "finish" ELSE "put", !.list = rest]
  OBVIOUS
<1>12. job' = [job EXCEPT ![s] = x]
  BY <1>0, <1>1, <1>3, <1>7, <1>11 DEF FilesOk, Advance
<1>13. /\ x \in JobType /\ x.vault = v /\ x.got = j.got /\ x.list = rest
       /\ x.pc = IF rest = <<>> THEN "finish" ELSE "put"
  BY <1>2, <1>5, <1>6, <1>11 DEF JobType
<1>14. job'[s] = x /\ (\A t \in Slots : t # s => job'[t] = job[t]) /\ job' \in [Slots -> JobType]
  BY <1>0, <1>12, <1>13 DEF FilesOk
<1>15. FilesOk'
  BY <1>0, <1>7, <1>14 DEF FilesOk
<1>16. \A w : Same(w)
  BY <1>7, Untouched
<1>17. VaultInv(v)'
  BY <1>0, <1>5, <1>7, <1>16, VaultKeeps DEF FileInv
<1>18. UploadInv(s)'
  <2>1. \A r \in x.got : HoldsNext(r[1], v, r[2])
    BY <1>5, <1>7, <1>13 DEF Holds, HoldsNext
  <2>2. command'[v] = "posted" /\ (v \notin unlisted' => \A r \in x.got : replica'[v][r[1]] = r[2])
    BY <1>5, <1>7, <1>13
  <2>3. Apart(x.list) /\ Clear(Ahead(x), x.got)
    BY <1>5, <1>6, <1>13 DEF Ahead
  <2>4. (x.pc # "finish" => x.list # <<>>) /\ (x.pc = "finish" => x.list = <<>>) /\ x.pc # "list"
    BY <1>13
  <2> QED BY <1>5, <1>13, <1>14, <2>1, <2>2, <2>3, <2>4, UploadIs
<1>19. DeleteInv(s)'
  BY <1>13, <1>14 DEF DeleteInv, Deleting
<1>20. \A t \in Slots : t # s /\ Uploading(t) => job[t].vault # v
  BY <1>0, <1>1, <1>2, <1>4, <1>5, NoOther
<1>21. (\A m \in Nodes : IsFiniteSet(disk'[m])) /\ deleted \subseteq deleted' /\ unlisted \subseteq unlisted'
  BY <1>0, <1>7 DEF FileInv
<1> QED BY <1>5, <1>10, <1>13, <1>14, <1>15, <1>16, <1>17, <1>18, <1>19, <1>20, <1>21, FileStep

\* A slot that is free again has nothing to know.
LEMMA FreeSlot ==
  ASSUME NEW s, job'[s] = Idle
  PROVE  UploadInv(s)' /\ DeleteInv(s)' /\ ~Uploading(s)'
BY DEF UploadInv, DeleteInv, Uploading, Deleting, Idle

\* The end of an upload: the manifest lists what was acknowledged, and all of it
\* is in file_replicas unless a node was removed meanwhile.
LEMMA UploadFinishInv ==
  ASSUME IInv, NEW s \in Slots, UploadFinish(s)
  PROVE  IInv'
<1>0. NodesOk /\ FilesOk /\ TypeOK /\ FileInv
  BY TypeParts DEF IInv
<1>1. PICK j : j = job[s]
  OBVIOUS
<1>2. PICK v : v = j.vault
  OBVIOUS
<1>3. PICK got : got = j.got
  OBVIOUS
<1>4. Uploading(s)
  BY DEF UploadFinish, At, Uploading
<1>5. /\ got \in SUBSET Places /\ v \in Vaults /\ command[v] = "posted" /\ v \notin deleted
      /\ \A r \in got : Holds(r[1], v, r[2])
      /\ v \notin unlisted => \A r \in got : replica[v][r[1]] = r[2]
  BY <1>1, <1>2, <1>3, <1>4, UploadKnows
<1>6. PICK c : c = IF got = {} THEN "failed" ELSE "stored"
  OBVIOUS
<1>7. /\ manifest' = IF got = {} THEN manifest ELSE [manifest EXCEPT ![v] = got]
      /\ command' = [command EXCEPT ![v] = c]
      /\ job' = [job EXCEPT ![s] = Idle]
      /\ UNCHANGED <<row, settings, up, enrol, beat, replica, legacy, disk, size, events, lost, deleted, unlisted>>
  BY <1>1, <1>2, <1>3, <1>6 DEF UploadFinish, Answer, Done, nodes, history
<1>8. NodesOk'
  BY <1>0, <1>7 DEF NodesOk
<1>9. job'[s] = Idle /\ (\A t \in Slots : t # s => job'[t] = job[t]) /\ job' \in [Slots -> JobType]
  BY <1>0, <1>7, IdleOk DEF FilesOk
<1>10. c \in CommandType
  BY <1>6 DEF CommandType
<1>11. /\ command' \in [Vaults -> CommandType] /\ command'[v] = c
       /\ \A w \in Vaults : w # v => command'[w] = command[w]
  BY <1>0, <1>5, <1>7, <1>10 DEF FilesOk
<1>12. /\ manifest' \in [Vaults -> SUBSET Places]
       /\ manifest'[v] = (IF got = {} THEN manifest[v] ELSE got)
       /\ \A w \in Vaults : w # v => manifest'[w] = manifest[w]
  BY <1>0, <1>5, <1>7 DEF FilesOk
<1>13. FilesOk'
  BY <1>0, <1>7, <1>9, <1>11, <1>12 DEF FilesOk
<1>14. \A w \in Vaults : w # v => Same(w)
  BY <1>7, <1>11, <1>12, Untouched
<1>15. VaultInv(v)'
  <2>1. /\ \A r \in manifest[v] : Holds(r[1], v, r[2])
        /\ \A n \in Nodes : replica[v][n] \in Keys => Holds(n, v, replica[v][n])
    BY <1>0, <1>5 DEF FileInv, VaultInv
  <2>2. \A r \in manifest'[v] : HoldsNext(r[1], v, r[2])
    BY <1>5, <1>7, <1>12, <2>1 DEF Holds, HoldsNext
  <2>3. \A n \in Nodes : replica'[v][n] \in Keys => HoldsNext(n, v, replica'[v][n])
    BY <1>7, <2>1 DEF Holds, HoldsNext
  <2>4. v \notin deleted' \cup unlisted' /\ command'[v] = "stored" =>
          manifest'[v] # {} /\ \A r \in manifest'[v] : replica'[v][r[1]] = r[2]
    BY <1>5, <1>6, <1>7, <1>11, <1>12
  <2>5. v \notin deleted'
    BY <1>5, <1>7
  <2>6. command'[v] # "stored" => manifest'[v] = {}
    <3>1. manifest[v] = {}
      BY <1>0, <1>5 DEF FileInv, VaultInv
    <3> QED BY <1>6, <1>11, <1>12, <3>1
  <2> QED BY <2>2, <2>3, <2>4, <2>5, <2>6 DEF VaultInv, Holds, HoldsNext
<1>16. UploadInv(s)' /\ DeleteInv(s)' /\ ~Uploading(s)'
  BY <1>9, FreeSlot
<1>17. \A t \in Slots : t # s /\ Uploading(t) => job[t].vault # v
  BY <1>0, <1>1, <1>2, <1>4, <1>5, NoOther
<1>18. (\A m \in Nodes : IsFiniteSet(disk'[m])) /\ deleted \subseteq deleted' /\ unlisted \subseteq unlisted'
  BY <1>0, <1>7 DEF FileInv
<1> QED BY <1>5, <1>8, <1>9, <1>13, <1>14, <1>15, <1>16, <1>17, <1>18, FileStep

\* A client hangs up: what its upload has stored stays, and the vault counts as
\* failed.
LEMMA DropInv ==
  ASSUME IInv, NEW s \in Slots, Drop(s)
  PROVE  IInv'
<1>0. NodesOk /\ FilesOk /\ TypeOK /\ FileInv
  BY TypeParts DEF IInv
<1>1. /\ job' = [job EXCEPT ![s] = Idle]
      /\ command' = IF Uploading(s) THEN [command EXCEPT ![job[s].vault] = "failed"] ELSE command
      /\ UNCHANGED <<row, settings, up, enrol, beat, replica, manifest, legacy, disk, size, lost, deleted, unlisted>>
  BY DEF Drop, Done, Uploading, nodes, history
<1>2. events' \in 0..MaxEvents
  BY <1>0, EventOk DEF Drop
<1>3. NodesOk'
  BY <1>0, <1>1, <1>2 DEF NodesOk
<1>4. CASE ~Uploading(s)
  BY <1>1, <1>3, <1>4, IdleOk, NodeStep
<1>5. CASE Uploading(s)
  <2>1. PICK j : j = job[s]
    OBVIOUS
  <2>2. PICK v : v = j.vault
    OBVIOUS
  <2>3. v \in Vaults /\ v \notin deleted /\ command[v] = "posted"
    BY <1>5, <2>1, <2>2, UploadKnows
  <2>4. command' = [command EXCEPT ![v] = "failed"]
    BY <1>1, <1>5, <2>1, <2>2
  <2>5. /\ command' \in [Vaults -> CommandType] /\ command'[v] = "failed"
        /\ \A w \in Vaults : w # v => command'[w] = command[w]
    BY <1>0, <2>3, <2>4 DEF FilesOk, CommandType
  <2>6. job'[s] = Idle /\ (\A t \in Slots : t # s => job'[t] = job[t]) /\ job' \in [Slots -> JobType]
    BY <1>0, <1>1, IdleOk DEF FilesOk
  <2>7. FilesOk'
    BY <1>0, <1>1, <2>5, <2>6 DEF FilesOk
  <2>8. \A w \in Vaults : w # v => Same(w)
    BY <1>1, <2>5, Untouched
  <2>9. VaultInv(v)'
    <3>1. VaultInv(v)
      BY <1>0, <2>3 DEF FileInv
    <3> QED BY <1>1, <2>3, <2>5, <3>1 DEF VaultInv, Holds
  <2>10. UploadInv(s)' /\ DeleteInv(s)' /\ ~Uploading(s)'
    BY <2>6, FreeSlot
  <2>11. \A t \in Slots : t # s /\ Uploading(t) => job[t].vault # v
    BY <1>0, <1>5, <2>1, <2>2, <2>3, NoOther
  <2>12. (\A m \in Nodes : IsFiniteSet(disk'[m])) /\ deleted \subseteq deleted' /\ unlisted \subseteq unlisted'
    BY <1>0, <1>1 DEF FileInv
  <2> QED BY <1>3, <2>3, <2>6, <2>7, <2>8, <2>9, <2>10, <2>11, <2>12, FileStep
<1> QED BY <1>4, <1>5

\* A deletion starts, of a vault nobody uploads.
LEMMA DeleteStartInv ==
  ASSUME IInv, NEW s \in Slots, NEW v \in Vaults, DeleteStart(s, v)
  PROVE  IInv'
<1>0. NodesOk /\ FilesOk /\ TypeOK /\ FileInv
  BY TypeParts DEF IInv
<1>1. PICK P : P = {p \in Places : replica[v][p[1]] = p[2]}
  OBVIOUS
<1>2. PICK seq \in SetToSeqs(P) : Start(s, [Idle EXCEPT !.pc = "delete", !.vault = v, !.list = seq])
  BY <1>1 DEF DeleteStart
<1>3. P # {}
  <2>1. PICK n \in Nodes : replica[v][n] # None
    BY DEF DeleteStart
  <2>2. replica[v] \in [Nodes -> Keys \cup {None}]
    BY <1>0 DEF FilesOk
  <2>3. replica[v][n] \in Keys
    BY <2>1, <2>2
  <2>4. <<n, replica[v][n]>> \in P
    BY <1>1, <2>3 DEF Places
  <2> QED BY <2>4
<1>4. IsFiniteSet(P)
  <2>1. Cardinality(Nodes) \in Nat
    BY NodesAssumption, FS_CardinalityType
  <2>2. Cardinality(Nodes) - 1 \in Int
    BY <2>1
  <2>3. IsFiniteSet(Keys)
    BY <2>2, FS_Interval DEF Keys
  <2>4. IsFiniteSet(Places)
    BY <2>3, NodesAssumption, FS_Product DEF Places
  <2> QED BY <1>1, <2>4, FS_Subset
<1>5. seq \in Seq(P) /\ Len(seq) = Cardinality(P) /\ ToSet(seq) = P
  BY <1>2, <1>4, Enumerates
<1>6. seq # <<>>
  BY <1>3, <1>5 DEF ToSet
<1>7. seq \in Seq(Places)
  <2>1. P \subseteq Places
    BY <1>1
  <2> QED BY <1>5, <2>1
<1>8. PICK x : x = [Idle EXCEPT !.pc = "delete", !.vault = v, !.list = seq]
  OBVIOUS
<1>9. x \in JobType /\ x.pc = "delete" /\ x.vault = v /\ x.list = seq
  BY <1>7, <1>8, IdleOk DEF Idle, JobType
<1>10. /\ job' = [job EXCEPT ![s] = x] /\ deleted' = deleted \cup {v}
       /\ command[v] \in {"stored", "failed"}
       /\ UNCHANGED <<row, settings, up, enrol, beat, replica, manifest, legacy, disk, command, size, events, lost, unlisted>>
  BY <1>2, <1>8 DEF DeleteStart, Start, nodes, files
<1>11. job'[s] = x /\ (\A t \in Slots : t # s => job'[t] = job[t]) /\ job' \in [Slots -> JobType]
  BY <1>0, <1>9, <1>10 DEF FilesOk
<1>12. NodesOk'
  BY <1>0, <1>10 DEF NodesOk
<1>13. deleted' \subseteq Vaults /\ deleted \subseteq deleted' /\ v \in deleted'
  BY <1>0, <1>10 DEF FilesOk
<1>14. FilesOk'
  BY <1>0, <1>10, <1>11, <1>13 DEF FilesOk
<1>15. \A w \in Vaults : w # v => Same(w)
  BY <1>10 DEF Same, Kept, Holds, HoldsNext
<1>16. VaultInv(v)'
  <2>1. command[v] # "stored" => manifest[v] = {}
    BY <1>0 DEF FileInv, VaultInv
  <2> QED BY <1>10, <1>13, <2>1 DEF VaultInv
<1>17. UploadInv(s)' /\ ~Uploading(s)'
  BY <1>9, <1>11 DEF UploadInv, Uploading
<1>18. DeleteInv(s)'
  BY <1>6, <1>9, <1>11, <1>13 DEF DeleteInv
<1>19. \A t \in Slots : t # s /\ Uploading(t) => job[t].vault # v
  BY <1>0, <1>10, NoOther
<1>20. (\A m \in Nodes : IsFiniteSet(disk'[m])) /\ unlisted \subseteq unlisted'
  BY <1>0, <1>10 DEF FileInv
<1> QED BY <1>11, <1>12, <1>13, <1>14, <1>15, <1>16, <1>17, <1>18, <1>19, <1>20, FileStep

\* DELETE at a node removes a fragment of a deleted vault only.
LEMMA DeleteAtNodeInv ==
  ASSUME IInv, NEW s \in Slots, DeleteAtNode(s)
  PROVE  IInv'
<1>0. NodesOk /\ FilesOk /\ TypeOK /\ FileInv
  BY TypeParts DEF IInv
<1>1. PICK j : j = job[s]
  OBVIOUS
<1>2. PICK v : v = j.vault
  OBVIOUS
<1>3. PICK p : p = Head(j.list)
  OBVIOUS
<1>4. PICK rest : rest = Tail(j.list)
  OBVIOUS
<1>5. j \in JobType /\ j.pc = "delete"
  BY <1>0, <1>1 DEF FilesOk, DeleteAtNode, At
<1>6. v \in deleted /\ v \in Vaults /\ j.list # <<>>
  BY <1>0, <1>1, <1>2, <1>5 DEF FileInv, DeleteInv, Deleting, FilesOk
<1>7. j.list \in Seq(Places) /\ rest \in Seq(Places) /\ p \in Places
  <2>1. j.list \in Seq(Places)
    BY <1>5 DEF JobType
  <2> QED BY <1>3, <1>4, <1>6, <2>1
<1>8. PICK f : f = <<v, p[2]>>
  OBVIOUS
<1>9. /\ disk' = disk \/ disk' = [disk EXCEPT ![p[1]] = disk[p[1]] \ {f}]
      /\ UNCHANGED <<row, settings, up, enrol, beat, replica, manifest, legacy, command, size, events, lost, deleted, unlisted>>
  BY <1>1, <1>2, <1>3, <1>8 DEF DeleteAtNode, Next1, nodes, history
<1>10. PICK x : x = [j EXCEPT !.pc = IF rest = <<>> THEN "delete_rows" ELSE "delete", !.list = rest]
  OBVIOUS
<1>11. job' = [job EXCEPT ![s] = x]
  BY <1>0, <1>1, <1>4, <1>5, <1>10 DEF FilesOk, DeleteAtNode
<1>12. x \in JobType /\ x.vault = v /\ x.list = rest /\ x.pc = IF rest = <<>> THEN "delete_rows" ELSE "delete"
  BY <1>2, <1>5, <1>7, <1>10 DEF JobType
<1>13. job'[s] = x /\ (\A t \in Slots : t # s => job'[t] = job[t]) /\ job' \in [Slots -> JobType]
  BY <1>0, <1>11, <1>12 DEF FilesOk
<1>14. NodesOk'
  BY <1>0, <1>9 DEF NodesOk
<1>15. \A m \in Nodes : disk'[m] = disk[m] \/ disk'[m] = disk[m] \ {f}
  BY <1>0, <1>9 DEF FilesOk
<1>16. disk' \in [Nodes -> SUBSET Fragments]
  BY <1>0, <1>9 DEF FilesOk
<1>17. FilesOk'
  BY <1>0, <1>9, <1>13, <1>16 DEF FilesOk
<1>18. ASSUME NEW w \in Vaults, w # v PROVE Same(w)
  <2>1. \A k : <<w, k>> # f
    BY <1>8, <1>18
  <2>2. Kept(w)
    BY <1>9, <1>15, <2>1 DEF Kept, Holds, HoldsNext
  <2> QED BY <1>9, <2>2 DEF Same
<1>19. VaultInv(v)'
  BY <1>0, <1>6, <1>9 DEF VaultInv, FileInv
<1>20. UploadInv(s)' /\ ~Uploading(s)'
  BY <1>12, <1>13 DEF UploadInv, Uploading
<1>21. DeleteInv(s)'
  BY <1>6, <1>9, <1>12, <1>13 DEF DeleteInv
<1>22. \A t \in Slots : t # s /\ Uploading(t) => job[t].vault # v
  <2>1. command[v] # "posted"
    BY <1>0, <1>6 DEF FileInv, VaultInv
  <2> QED BY <1>0, <1>6, <2>1, NoOther
<1>23. ASSUME NEW m \in Nodes PROVE IsFiniteSet(disk'[m])
  <2>1. IsFiniteSet(disk[m]) /\ disk'[m] \in SUBSET disk[m]
    BY <1>0, <1>15 DEF FileInv
  <2> QED BY <2>1, FS_Subset
<1> QED BY <1>6, <1>9, <1>13, <1>14, <1>17, <1>18, <1>19, <1>20, <1>21, <1>22, <1>23, FileStep

\* The rows of a deleted vault go.
LEMMA DeleteRowsInv ==
  ASSUME IInv, NEW s \in Slots, DeleteRows(s)
  PROVE  IInv'
<1>0. NodesOk /\ FilesOk /\ TypeOK /\ FileInv
  BY TypeParts DEF IInv
<1>1. PICK v : v = job[s].vault
  OBVIOUS
<1>2. v \in deleted /\ v \in Vaults
  BY <1>0, <1>1 DEF FileInv, DeleteInv, Deleting, FilesOk, DeleteRows, At
<1>3. PICK none : none = [n \in Nodes |-> None]
  OBVIOUS
<1>4. /\ replica' = [replica EXCEPT ![v] = none]
      /\ job' = [job EXCEPT ![s] = Idle]
      /\ UNCHANGED <<row, settings, up, enrol, beat, manifest, legacy, disk, command, size, events, lost, deleted, unlisted>>
  BY <1>1, <1>3 DEF DeleteRows, Done, nodes, history
<1>5. /\ replica' \in [Vaults -> [Nodes -> Keys \cup {None}]]
      /\ replica'[v] = none /\ \A w \in Vaults : w # v => replica'[w] = replica[w]
  <2>1. none \in [Nodes -> Keys \cup {None}]
    BY <1>3
  <2> QED BY <1>0, <1>2, <1>4, <2>1 DEF FilesOk
<1>6. \A w \in Vaults, m \in Nodes : replica'[w][m] # None => row'[m] # None
  <2> SUFFICES ASSUME NEW w \in Vaults, NEW m \in Nodes, replica'[w][m] # None PROVE row[m] # None
    BY <1>4
  <2>1. w # v
    BY <1>3, <1>5
  <2>2. replica[w][m] # None
    BY <1>5, <2>1
  <2> QED BY <1>0, <2>2 DEF NodesOk
<1>7. NodesOk'
  BY <1>0, <1>4, <1>6 DEF NodesOk
<1>8. job'[s] = Idle /\ (\A t \in Slots : t # s => job'[t] = job[t]) /\ job' \in [Slots -> JobType]
  BY <1>0, <1>4, IdleOk DEF FilesOk
<1>9. FilesOk'
  BY <1>0, <1>4, <1>5, <1>8 DEF FilesOk
<1>10. \A w \in Vaults : w # v => Same(w)
  BY <1>4, <1>5, Untouched
<1>11. VaultInv(v)'
  BY <1>0, <1>2, <1>4 DEF VaultInv, FileInv
<1>12. UploadInv(s)' /\ DeleteInv(s)' /\ ~Uploading(s)'
  BY <1>8, FreeSlot
<1>13. \A t \in Slots : t # s /\ Uploading(t) => job[t].vault # v
  <2>1. command[v] # "posted"
    BY <1>0, <1>2 DEF FileInv, VaultInv
  <2> QED BY <1>0, <1>2, <2>1, NoOther
<1>14. (\A m \in Nodes : IsFiniteSet(disk'[m])) /\ deleted \subseteq deleted' /\ unlisted \subseteq unlisted'
  BY <1>0, <1>4 DEF FileInv
<1> QED BY <1>2, <1>7, <1>8, <1>9, <1>10, <1>11, <1>12, <1>13, <1>14, FileStep

-----------------------------------------------------------------------------
(* The theorems *)

\* At the start nothing is uploaded, listed or stored.
LEMMA InitIInv == Init => IInv
<1> SUFFICES ASSUME Init PROVE IInv
  OBVIOUS
<1>1. NodesOk
  <2>1. Fresh \in RowType
    BY DEF Fresh, RowType
  <2>2. row \in [Nodes -> RowType \cup {None}]
    BY <2>1 DEF Init
  <2>3. settings \in [factor : Factors \cup {2}, strategy : Strategies \cup {"mixed"}]
    BY DEF Init
  <2>4. up \subseteq Nodes /\ enrol \subseteq Nodes
    BY DEF Init
  <2>5. events \in 0..MaxEvents
    BY RegistryAssumption DEF Init
  <2>6. \A v \in Vaults, n \in Nodes : replica[v][n] = None
    BY DEF Init
  <2>7. legacy \in Nodes \cup {None, ""} /\ beat \in [Nodes -> Nat \cup {None}]
    BY DEF Init
  <2> QED BY <2>2, <2>3, <2>4, <2>5, <2>6, <2>7 DEF NodesOk
<1>2. FilesOk
  BY IdleOk DEF Init, FilesOk, CommandType
<1>3. \A s \in Slots : job[s] = Idle
  BY DEF Init
<1>4. \A s \in Slots : UploadInv(s) /\ DeleteInv(s) /\ ~Uploading(s)
  BY <1>3 DEF UploadInv, DeleteInv, Uploading, Deleting, Idle
<1>5. \A n \in Nodes : IsFiniteSet(disk[n])
  BY FS_EmptySet DEF Init
<1>6. ASSUME NEW v \in Vaults PROVE VaultInv(v)
  <2>1. manifest[v] = {} /\ command[v] = "new" /\ deleted = {}
    BY DEF Init
  <2>2. ASSUME NEW n \in Nodes, replica[v][n] \in Keys PROVE Holds(n, v, replica[v][n])
    <3>1. replica[v][n] = None
      BY DEF Init
    <3>2. Cardinality(Nodes) \in Nat
      BY NodesAssumption, FS_CardinalityType
    <3>3. replica[v][n] \in Nat
      BY <2>2, <3>2 DEF Keys
    <3> QED BY <3>1, <3>3, NoneAssumption
  <2> QED BY <2>1, <2>2 DEF VaultInv
<1> QED BY <1>1, <1>2, <1>4, <1>5, <1>6, TypeParts DEF IInv, FileInv, OneUpload

\* Every step keeps the invariant.
LEMMA NextIInv == IInv /\ [Next]_vars => IInv'
<1> SUFFICES ASSUME IInv, [Next]_vars PROVE IInv'
  OBVIOUS
<1>1. ASSUME NEW s \in Slots, Request(s) PROVE IInv'
  <2>1. CASE HealthCheckAll(s) \/ GetUploadUrl(s) \/ \E n \in Nodes : RemoveCount(s, n)
    BY <2>1, ManagerStarts
  <2>2. CASE \E n \in Nodes : RegisterProbe(s, n)
    BY <2>2, RegisterProbeInv
  <2>3. CASE \E v \in Vaults : UploadStart(s, v)
    BY <2>3, UploadStartInv
  <2>4. CASE \E v \in Vaults : DeleteStart(s, v)
    BY <2>4, DeleteStartInv
  <2> QED BY <1>1, <2>1, <2>2, <2>3, <2>4 DEF Request
<1>2. ASSUME NEW s \in Slots, Continue(s) PROVE IInv'
  BY <1>2, RegisterNodeInv, HealthProbeInv, HealthUpdateInv, RemoveNodeInv, ConfirmInv,
     UploadPutInv, UploadListInv, UploadUsageInv, UploadFinishInv, DeleteAtNodeInv,
     DeleteRowsInv DEF Continue
<1>3. ASSUME NEW s \in Slots, Drop(s) PROVE IInv'
  BY <1>3, DropInv
<1>4. ASSUME NEW n \in Nodes, Node(n) PROVE IInv'
  <2>1. CASE Crash(n) \/ StartNode(n)
    BY <2>1, CrashInv
  <2>2. CASE SendHeartbeat(n)
    BY <2>2, SendHeartbeatInv
  <2>3. CASE Heartbeat(n)
    BY <2>3, HeartbeatInv
  <2>4. CASE \E f \in Fragments : LoseFragment(n, f)
    BY <2>4, LoseFragmentInv
  <2> QED BY <1>4, <2>1, <2>2, <2>3, <2>4 DEF Node
<1>5. CASE RegisterFile \/ \E f \in Factors, st \in Strategies : UpdateReplicationSettings(f, st)
  BY <1>5, SettingsInv
<1>6. CASE Desktop
  BY <1>6, DesktopInv
<1>7. CASE UNCHANGED vars
  <2>1. NodesOk'
    BY <1>7 DEF IInv, TypeOK, NodesOk, vars
  <2> QED BY <1>7, <2>1, NodeOnly DEF vars
<1> QED BY <1>1, <1>2, <1>3, <1>4, <1>5, <1>6, <1>7 DEF Next

\* The inductive invariant holds in every reachable state.
THEOREM Invariance == Spec => []IInv
BY InitIInv, NextIInv, PTL DEF Spec

\* Every variable keeps its type, what a node reports is a number, and a replica
\* is listed only at a registered node (the foreign key of file_replicas).
THEOREM TypeCorrect == Spec => []TypeOK
<1>1. IInv => TypeOK
  BY DEF IInv
<1> QED BY <1>1, Invariance, PTL

\* Whatever the tables say, the nodes chosen for an upload are distinct, active
\* and have room, are as many as asked for, and are spread or balanced as the
\* strategy promises (select_nodes_for_upload).
THEOREM Selected == Spec => []SelectionFits
BY TypeCorrect, SelectionsFit, PTL

\* A node whose replica is listed is registered, so it is asked itself.
LEMMA AskedItself ==
  ASSUME TypeOK, NEW v \in Vaults, NEW p \in Places, replica[v][p[1]] = p[2]
  PROVE  row[p[1]] # None /\ Endpoint(p[1]) = p[1]
<1>1. p[1] \in Nodes /\ p[2] \in Keys
  BY DEF Places
<1>2. Cardinality(Nodes) \in Nat
  BY NodesAssumption, FS_CardinalityType
<1>3. p[2] \in Nat
  BY <1>1, <1>2 DEF Keys
<1>4. replica[v][p[1]] # None
  BY <1>3, NoneAssumption
<1> QED BY <1>1, <1>4 DEF TypeOK, Endpoint

\* Until a vault is deleted, every node a download would try has, or has lost,
\* the fragment it is asked for, and is itself asked unless the INSERT of a
\* replica failed (upload_file, download_file).
THEOREM ListedHeld == Spec => []ListedIsStored
<1>1. IInv => ListedIsStored
  <2> SUFFICES ASSUME IInv, NEW v \in Vaults, v \notin deleted, NEW p \in Sources(v)
               PROVE  /\ <<v, p[2]>> \in disk[p[1]] \cup lost[p[1]]
                      /\ v \notin unlisted => Endpoint(p[1]) = p[1]
    BY DEF ListedIsStored
  <2>1. VaultInv(v) /\ TypeOK
    BY DEF IInv, FileInv
  <2>2. CASE p \in Listed(v)
    <3>1. p \in Places /\ p[1] \in Nodes /\ p[2] \in Keys /\ replica[v][p[1]] = p[2]
      BY <2>2 DEF Listed, Places
    <3>2. <<v, p[2]>> \in disk[p[1]] \cup lost[p[1]]
      BY <2>1, <3>1 DEF VaultInv, Holds
    <3> QED BY <2>1, <3>1, <3>2, AskedItself
  <2>3. CASE p \in manifest[v]
    <3>1. <<v, p[2]>> \in disk[p[1]] \cup lost[p[1]]
      BY <2>1, <2>3 DEF VaultInv, Holds
    <3>2. p \in Places
      BY <2>1, <2>3 DEF TypeOK
    <3>3. v \notin unlisted => replica[v][p[1]] = p[2]
      BY <2>1, <2>3 DEF VaultInv
    <3> QED BY <2>1, <3>1, <3>2, <3>3, AskedItself
  <2> QED BY <2>2, <2>3 DEF Sources
<1> QED BY <1>1, Invariance, PTL

\* What the desktop was told to be stored is listed in full and can be downloaded
\* from any running node that has it (upload_file, download_file).
THEOREM Findable == Spec => []StoredIsFindable
<1>1. IInv => StoredIsFindable
  <2> SUFFICES ASSUME IInv, NEW v \in Vaults, v \notin deleted \cup unlisted, command[v] = "stored"
               PROVE  /\ manifest[v] # {}
                      /\ \A p \in manifest[v] :
                           /\ replica[v][p[1]] = p[2] /\ row[p[1]] # None
                           /\ /\ p[1] \in up /\ <<v, p[2]>> \in disk[p[1]]
                              /\ Active(p[1]) \/ Listed(v) = {}
                              => Served(v)
    BY DEF StoredIsFindable
  <2>1. manifest[v] # {} /\ \A p \in manifest[v] : replica[v][p[1]] = p[2]
    BY DEF IInv, FileInv, VaultInv
  <2>2. ASSUME NEW p \in manifest[v]
        PROVE  /\ p \in Places /\ replica[v][p[1]] = p[2] /\ row[p[1]] # None
               /\ Endpoint(p[1]) = p[1]
    <3>1. p \in Places
      BY DEF IInv, TypeOK
    <3> QED BY <2>1, <3>1, AskedItself DEF IInv
  <2>3. ASSUME NEW p \in manifest[v], p[1] \in up, <<v, p[2]>> \in disk[p[1]],
               Active(p[1]) \/ Listed(v) = {}
        PROVE  Served(v)
    <3>1. p \in Sources(v)
      BY <2>2, <2>3 DEF Sources, Listed
    <3> QED BY <2>2, <2>3, <3>1 DEF Served
  <2> QED BY <2>1, <2>2, <2>3
<1> QED BY <1>1, Invariance, PTL
=============================================================================
