-------------------------- MODULE SystemCallsProofs --------------------------
(***************************************************************************)
(* The system calls keep the tables and memories in order (OsInv), and     *)
(* implement Descriptors and MemorySpaces, for any programs and sizes.     *)
(*                                                                         *)
(* The two halves are proved apart.  FilesInv says of the descriptors what *)
(* MemoryInv says of the pages and mappings; for each operation of         *)
(* FileTable and AddressSpace a lemma says what it makes of one table or   *)
(* one memory, and what a program sees of that.  From these, each call     *)
(* keeps the invariant and is a step of what it promises, or no step at    *)
(* all (FilesStepped, SpaceStepped).                                       *)
(***************************************************************************)
EXTENDS SystemCalls, TLAPS, FiniteSetTheorems, SequenceTheorems, WellFoundedInduction

-----------------------------------------------------------------------------
(* The least of a set of numbers.                                          *)
LEMMA LeastNumber ==
  ASSUME NEW T \in SUBSET Nat, T # {}
  PROVE  \E x \in T : \A y \in T : x <= y
<1>. DEFINE R == {p \in Nat \X Nat : p[1] < p[2]}
<1>1. IsWellFoundedOn(R, Nat)
  BY NatLessThanWellFounded DEF OpToRel
<1>2. PICK x \in T : \A y \in T : ~ (<<y, x>> \in R)
  <2>. HIDE DEF R
  <2>. QED  BY <1>1, WFMin, Zenon
<1>3. \A y \in T : x <= y
  <2>. SUFFICES ASSUME NEW y \in T PROVE x <= y  OBVIOUS
  <2>1. <<y, x>> \notin R  BY <1>2
  <2>2. <<y, x>> \in Nat \X Nat  OBVIOUS
  <2>3. ~(y < x)  BY <2>1, <2>2
  <2>. QED  BY <2>3
<1>. QED  BY <1>3

(* Counting up from 0.                                                     *)
LEMMA CountingUp ==
  ASSUME NEW n \in Nat, NEW T, 0 \in T, \A k \in 1 .. n : k - 1 \in T => k \in T
  PROVE  0 .. n \subseteq T
<1>. SUFFICES ASSUME (0 .. n) \ T # {} PROVE FALSE  OBVIOUS
<1>1. PICK x \in (0 .. n) \ T : \A y \in (0 .. n) \ T : x <= y
  BY LeastNumber, (0 .. n) \ T \subseteq Nat
<1>. QED  BY <1>1

LEMMA MinIs ==
  ASSUME NEW T \in SUBSET Nat, T # {}
  PROVE  Min(T) \in T /\ Min(T) \in Nat /\ \A y \in T : Min(T) <= y
<1>1. \E x \in T : \A y \in T : x <= y  BY LeastNumber
<1>. QED  BY <1>1 DEF Min

(* Ranks number a finite set of numbers.                                   *)
LEMMA Ranks ==
  ASSUME NEW S \in SUBSET Nat, IsFiniteSet(S)
  PROVE  /\ Cardinality(S) \in Nat
         /\ \A n \in S : Rank(S, n) \in 1 .. Cardinality(S) /\ Nth(S, Rank(S, n)) = n
         /\ \A k \in 1 .. Cardinality(S) : Nth(S, k) \in S /\ Rank(S, Nth(S, k)) = k
<1>. DEFINE up(n) == {m \in S : m <= n}
            T == 1 .. Cardinality(S)
            f == [n \in S |-> Rank(S, n)]
<1>1. Cardinality(S) \in Nat  BY FS_CardinalityType
<1>2. ASSUME NEW n \in S PROVE IsFiniteSet(up(n)) /\ Rank(S, n) \in T
  <2>1. up(n) \in SUBSET S /\ n \in up(n)  OBVIOUS
  <2>2. IsFiniteSet(up(n)) /\ Cardinality(up(n)) <= Cardinality(S)  BY <2>1, FS_Subset
  <2>3. Cardinality(up(n)) \in Nat /\ Cardinality(up(n)) # 0
    BY <2>1, <2>2, FS_CardinalityType, FS_EmptySet
  <2>4. Rank(S, n) = Cardinality(up(n))  BY DEF Rank
  <2>. HIDE DEF up
  <2>. QED  BY <1>1, <2>2, <2>3, <2>4
<1>3. ASSUME NEW n \in S, NEW m \in S, n < m PROVE Rank(S, n) < Rank(S, m)
  <2>1. up(n) \in SUBSET up(m) /\ m \in up(m) /\ m \notin up(n)
    <3>1. n \in Nat /\ m \in Nat /\ \A x \in S : x \in Nat  OBVIOUS
    <3>2. \A x \in S : x <= n => x <= m  BY <1>3, <3>1
    <3>3. m <= m  BY <3>1
    <3>5. \A x \in up(n) : x \in up(m)  BY <3>2
    <3>6. m \in up(m)  BY <3>3
    <3>4. ~(m <= n)  BY <1>3, <3>1
    <3>. QED  BY <3>4, <3>5, <3>6
  <2>2. IsFiniteSet(up(m)) /\ IsFiniteSet(up(n))  BY <1>2
  <2>3. Cardinality(up(n)) <= Cardinality(up(m)) /\ Cardinality(up(n)) # Cardinality(up(m))
    <3>. HIDE DEF up
    <3>. QED  BY <2>1, <2>2, FS_Subset
  <2>4. Rank(S, n) = Cardinality(up(n)) /\ Rank(S, m) = Cardinality(up(m))  BY DEF Rank
  <2>5. Cardinality(up(n)) \in Nat /\ Cardinality(up(m)) \in Nat  BY <2>2, FS_CardinalityType
  <2>. HIDE DEF up
  <2>. QED  BY <2>3, <2>4, <2>5
<1>4. \A n, m \in S : Rank(S, n) = Rank(S, m) => n = m
  <2>. SUFFICES ASSUME NEW n \in S, NEW m \in S, Rank(S, n) = Rank(S, m) PROVE n = m
    OBVIOUS
  <2>0. Rank(S, n) = Rank(S, m)  OBVIOUS
  <2>1. ~(Rank(S, n) < Rank(S, m)) /\ ~(Rank(S, m) < Rank(S, n))
    <3>1. Rank(S, n) \in T  BY <1>2
    <3>2. Rank(S, n) \in Int  BY <1>1, <3>1
    <3>. QED  BY <2>0, <3>2
  <2>2. ~(n < m) /\ ~(m < n)  BY <1>3, <2>1
  <2>. QED  BY <2>2
<1>5. IsFiniteSet(T) /\ Cardinality(T) = Cardinality(S)
  <2>1. 1 \in Int /\ Cardinality(S) \in Int  BY <1>1
  <2>2. IsFiniteSet(T) /\ Cardinality(T) = IF 1 > Cardinality(S) THEN 0 ELSE Cardinality(S) - 1 + 1
    BY <2>1, FS_Interval
  <2>. QED  BY <1>1, <2>2
<1>6. f \in Injection(S, T)
  <2>1. f \in [S -> T]  BY <1>2
  <2>2. \A n, m \in S : f[n] = f[m] => n = m  BY <1>4
  <2>. QED  BY <2>1, <2>2 DEF Injection, IsInjective
<1>7. f \in Surjection(S, T)
  <2>. HIDE DEF f, T
  <2>. QED  BY <1>5, <1>6, FS_Injection
<1>8. ASSUME NEW k \in T PROVE \E n \in S : Rank(S, n) = k
  BY <1>7 DEF Surjection
<1>9. \A k \in T : Nth(S, k) \in S /\ Rank(S, Nth(S, k)) = k
  BY <1>8 DEF Nth
<1>10. \A n \in S : Nth(S, Rank(S, n)) = n
  <2>. HIDE DEF T
  <2>. QED  BY <1>2, <1>4, <1>9
<1>. QED  BY <1>1, <1>2, <1>9, <1>10

-----------------------------------------------------------------------------
(***************************************************************************)
(* Sequences made of parts of others.  r is s at the positions S, in some  *)
(* order.                                                                  *)
(***************************************************************************)
Part(r, s, S) ==
  \E f \in [DOMAIN r -> S] :
    /\ \A k \in DOMAIN r : r[k] = s[f[k]]
    /\ \A j, k \in DOMAIN r : f[j] = f[k] => j = k
    /\ \A i \in S : \E k \in DOMAIN r : f[k] = i

LEMMA SeqIs ==
  ASSUME NEW X, NEW s \in Seq(X)
  PROVE  Len(s) \in Nat /\ DOMAIN s = 1 .. Len(s) /\ \A i \in DOMAIN s : s[i] \in X
BY LenProperties

LEMMA PickedIs ==
  ASSUME NEW X, NEW s \in Seq(X), NEW S \in SUBSET DOMAIN s
  PROVE  Picked(s, S) \in Seq(X) /\ Part(Picked(s, S), s, S)
<1>. DEFINE n == Cardinality(S)
            f == [k \in 1 .. n |-> Nth(S, k)]
<1>1. IsFiniteSet(S) /\ S \in SUBSET Nat
  <2>1. Len(s) \in Nat /\ DOMAIN s = 1 .. Len(s)  BY SeqIs
  <2>2. IsFiniteSet(1 .. Len(s))  BY <2>1, FS_Interval, 1 \in Int
  <2>. QED  BY <2>1, <2>2, FS_Subset
<1>2. /\ n \in Nat
      /\ \A i \in S : Rank(S, i) \in 1 .. n /\ Nth(S, Rank(S, i)) = i
      /\ \A k \in 1 .. n : Nth(S, k) \in S /\ Rank(S, Nth(S, k)) = k
  BY <1>1, Ranks
<1>3. Picked(s, S) = [k \in 1 .. n |-> s[Nth(S, k)]]  BY DEF Picked
<1>. HIDE DEF n
<1>4. \A i \in S : s[i] \in X  BY SeqIs
<1>5. DOMAIN Picked(s, S) = 1 .. n /\ \A k \in 1 .. n : Picked(s, S)[k] = s[Nth(S, k)]
  BY <1>3
<1>6. Picked(s, S) \in [1 .. n -> X]  BY <1>2, <1>3, <1>4
<1>7. Picked(s, S) \in Seq(X)  BY <1>2, <1>6
<1>8. f \in [1 .. n -> S] /\ \A k \in 1 .. n : f[k] = Nth(S, k)  BY <1>2
<1>9. /\ \A j, k \in 1 .. n : f[j] = f[k] => j = k
      /\ \A i \in S : \E k \in 1 .. n : f[k] = i
  BY <1>2, <1>8
<1>. HIDE DEF f
<1>10. PICK r : r = Picked(s, S)  OBVIOUS
<1>11. r \in Seq(X) /\ DOMAIN r = 1 .. n /\ \A k \in 1 .. n : r[k] = s[f[k]]
  BY <1>5, <1>7, <1>8, <1>10
<1>12. Part(r, s, S)
  <2>1. f \in [DOMAIN r -> S]  BY <1>8, <1>11
  <2>2. \A k \in DOMAIN r : r[k] = s[f[k]]  BY <1>11
  <2>3. /\ \A j, k \in DOMAIN r : f[j] = f[k] => j = k
        /\ \A i \in S : \E k \in DOMAIN r : f[k] = i
    BY <1>9, <1>11
  <2>. QED  BY <2>1, <2>2, <2>3 DEF Part
<1>. QED  BY <1>10, <1>11, <1>12

LEMMA RemoveAtIs ==
  ASSUME NEW X, NEW s \in Seq(X), NEW i \in DOMAIN s
  PROVE  /\ RemoveAt(s, i) \in Seq(X)
         /\ Len(RemoveAt(s, i)) = Len(s) - 1
         /\ \A k \in 1 .. Len(s) - 1 : RemoveAt(s, i)[k] = s[IF k < i THEN k ELSE k + 1]
<1>1. Len(s) \in Nat /\ DOMAIN s = 1 .. Len(s) /\ i \in 1 .. Len(s)  BY SeqIs
<1>. DEFINE a == SubSeq(s, 1, i - 1)
            b == SubSeq(s, i + 1, Len(s))
<1>2. a \in Seq(X) /\ Len(a) = i - 1 /\ \A k \in 1 .. i - 1 : a[k] = s[k]
  BY <1>1, SubSeqProperties
<1>3. b \in Seq(X) /\ Len(b) = Len(s) - i /\ \A k \in 1 .. Len(s) - i : b[k] = s[i + k]
  BY <1>1, SubSeqProperties, SMTT(30)
<1>4. RemoveAt(s, i) = a \o b  BY DEF RemoveAt
<1>. HIDE DEF a, b
<1>5. /\ a \o b \in Seq(X) /\ Len(a \o b) = Len(a) + Len(b)
      /\ \A k \in 1 .. Len(a) + Len(b) : (a \o b)[k] = IF k <= Len(a) THEN a[k] ELSE b[k - Len(a)]
  BY <1>2, <1>3, ConcatProperties
<1>6. ASSUME NEW k \in 1 .. Len(s) - 1 PROVE (a \o b)[k] = s[IF k < i THEN k ELSE k + 1]
  <2>1. CASE k < i
    <3>1. k \in 1 .. i - 1 /\ k \in 1 .. Len(a) + Len(b) /\ k <= Len(a)  BY <1>1, <1>2, <1>3, <2>1
    <3>. QED  BY <1>2, <1>5, <2>1, <3>1
  <2>2. CASE ~(k < i)
    <3>1. /\ k - Len(a) \in 1 .. Len(s) - i /\ k \in 1 .. Len(a) + Len(b) /\ ~(k <= Len(a))
          /\ i + (k - Len(a)) = k + 1
      BY <1>1, <1>2, <1>3, <2>2
    <3>. QED  BY <1>3, <1>5, <2>2, <3>1
  <2>. QED  BY <2>1, <2>2
<1>. QED  BY <1>1, <1>2, <1>3, <1>4, <1>5, <1>6, SMTT(30)

LEMMA RemovedPart ==
  ASSUME NEW X, NEW s \in Seq(X), NEW i \in DOMAIN s
  PROVE  Part(RemoveAt(s, i), s, DOMAIN s \ {i})
<1>1. Len(s) \in Nat /\ DOMAIN s = 1 .. Len(s) /\ i \in 1 .. Len(s)  BY SeqIs
<1>2. PICK r : r = RemoveAt(s, i)  OBVIOUS
<1>3. /\ r \in Seq(X) /\ Len(r) = Len(s) - 1
      /\ \A k \in 1 .. Len(s) - 1 : r[k] = s[IF k < i THEN k ELSE k + 1]
  BY <1>2, RemoveAtIs
<1>4. DOMAIN r = 1 .. Len(s) - 1  BY <1>3, SeqIs
<1>. DEFINE at(k) == IF k < i THEN k ELSE k + 1
            f == [k \in 1 .. Len(s) - 1 |-> at(k)]
<1>5. \A k \in 1 .. Len(s) - 1 : at(k) \in 1 .. Len(s) /\ at(k) # i  BY <1>1
<1>6. f \in [DOMAIN r -> DOMAIN s \ {i}] /\ \A k \in DOMAIN r : f[k] = at(k)
  BY <1>1, <1>4, <1>5
<1>7. \A j, k \in 1 .. Len(s) - 1 : at(j) = at(k) => j = k  BY <1>1
<1>8. ASSUME NEW j \in 1 .. Len(s), j # i PROVE \E k \in 1 .. Len(s) - 1 : at(k) = j
  <2>1. CASE j < i  BY <1>1, <2>1
  <2>2. CASE ~(j < i)
    <3>1. j - 1 \in 1 .. Len(s) - 1 /\ at(j - 1) = j  BY <1>1, <1>8, <2>2
    <3>. QED  BY <3>1
  <2>. QED  BY <2>1, <2>2
<1>9. \A k \in DOMAIN r : r[k] = s[f[k]]  BY <1>3, <1>4, <1>6
<1>. HIDE DEF f, at
<1>10. \A j, k \in DOMAIN r : f[j] = f[k] => j = k  BY <1>4, <1>6, <1>7
<1>11. \A j \in DOMAIN s \ {i} : \E k \in DOMAIN r : f[k] = j  BY <1>1, <1>4, <1>6, <1>8
<1>. QED  BY <1>2, <1>6, <1>9, <1>10, <1>11 DEF Part

(* One element put in front of a sequence.                                  *)
LEMMA ConsIs ==
  ASSUME NEW X, NEW x \in X, NEW q \in Seq(X), NEW r, r = <<x>> \o q
  PROVE  /\ r \in Seq(X) /\ Len(r) = Len(q) + 1 /\ DOMAIN r = 1 .. Len(q) + 1
         /\ r[1] = x /\ \A k \in 1 .. Len(q) : r[k + 1] = q[k]
<1>1. Len(q) \in Nat /\ DOMAIN q = 1 .. Len(q)  BY SeqIs
<1>2. PICK h : h = <<x>>  OBVIOUS
<1>3. h \in Seq(X) /\ Len(h) = 1 /\ h[1] = x  BY <1>2
<1>4. /\ h \o q \in Seq(X) /\ Len(h \o q) = Len(h) + Len(q)
      /\ \A k \in 1 .. Len(h) + Len(q) :
           (h \o q)[k] = IF k <= Len(h) THEN h[k] ELSE q[k - Len(h)]
  BY <1>3, ConcatProperties
<1>5. PICK c : c = h \o q  OBVIOUS
<1>6. c = r  BY <1>2, <1>5, Zenon
<1>7. /\ c \in Seq(X) /\ Len(c) = 1 + Len(q)
      /\ \A k \in 1 .. 1 + Len(q) : c[k] = IF k <= 1 THEN h[k] ELSE q[k - 1]
  BY <1>3, <1>4, <1>5
<1>8. DOMAIN c = 1 .. Len(c)  BY <1>7, SeqIs
<1>. QED  BY ONLY <1>1, <1>3, <1>6, <1>7, <1>8

LEMMA ToFrontIs ==
  ASSUME NEW X, NEW s \in Seq(X), NEW i \in DOMAIN s,
         NEW r, r = <<s[i]>> \o RemoveAt(s, i)
  PROVE  r \in Seq(X) /\ Len(r) = Len(s) /\ r[1] = s[i] /\ Part(r, s, DOMAIN s)
<1>1. PICK n : n = Len(s)  OBVIOUS
<1>2. n \in Nat /\ DOMAIN s = 1 .. n /\ i \in 1 .. n /\ s[i] \in X  BY <1>1, SeqIs
<1>3. PICK q : q = RemoveAt(s, i)  OBVIOUS
<1>4. q \in Seq(X) /\ Len(q) = n - 1 /\ Part(q, s, DOMAIN s \ {i})
  BY <1>1, <1>3, RemoveAtIs, RemovedPart
<1>5. DOMAIN q = 1 .. n - 1  BY <1>4, SeqIs
<1>6. PICK f \in [DOMAIN q -> DOMAIN s \ {i}] :
        /\ \A k \in DOMAIN q : q[k] = s[f[k]]
        /\ \A j, k \in DOMAIN q : f[j] = f[k] => j = k
        /\ \A j \in DOMAIN s \ {i} : \E k \in DOMAIN q : f[k] = j
  BY <1>4 DEF Part
<1>7. r = <<s[i]>> \o q  BY <1>3
<1>8. /\ r \in Seq(X) /\ Len(r) = n /\ DOMAIN r = 1 .. n
      /\ r[1] = s[i] /\ \A k \in 1 .. n - 1 : r[k + 1] = q[k]
  <2>1. /\ r \in Seq(X) /\ Len(r) = Len(q) + 1 /\ DOMAIN r = 1 .. Len(q) + 1
        /\ r[1] = s[i] /\ \A k \in 1 .. Len(q) : r[k + 1] = q[k]
    <3>1. s[i] \in X /\ q \in Seq(X)  BY <1>2, <1>4
    <3>2. \A x \in X : r = <<x>> \o q =>
            /\ r \in Seq(X) /\ Len(r) = Len(q) + 1 /\ DOMAIN r = 1 .. Len(q) + 1
            /\ r[1] = x /\ \A k \in 1 .. Len(q) : r[k + 1] = q[k]
      BY ONLY <3>1, ConsIs
    <3>. QED  BY <1>7, <3>1, <3>2, Zenon
  <2>2. Len(q) = n - 1 /\ n - 1 + 1 = n  BY <1>2, <1>4
  <2>. QED  BY ONLY <2>1, <2>2
<1>. DEFINE g == [k \in 1 .. n |-> IF k = 1 THEN i ELSE f[k - 1]]
<1>9. \A k \in 1 .. n : k # 1 => k - 1 \in 1 .. n - 1 /\ k - 1 + 1 = k  BY <1>2
<1>10. 1 \in 1 .. n  BY <1>2
<1>11. \A k \in 1 .. n - 1 : f[k] \in 1 .. n /\ f[k] # i  BY ONLY <1>2, <1>5, <1>6
<1>12. g \in [1 .. n -> 1 .. n]  BY ONLY <1>2, <1>9, <1>11
<1>13. g[1] = i /\ \A k \in 1 .. n : k # 1 => g[k] = f[k - 1]  BY <1>10
<1>. HIDE DEF g
<1>14. ASSUME NEW k \in 1 .. n PROVE r[k] = s[g[k]]
  <2>1. CASE k = 1  BY <1>8, <1>13, <2>1
  <2>2. CASE k # 1
    <3>1. k - 1 \in 1 .. n - 1 /\ k - 1 + 1 = k  BY <1>9, <2>2
    <3>2. r[k - 1 + 1] = q[k - 1] /\ q[k - 1] = s[f[k - 1]]  BY <1>5, <1>6, <1>8, <3>1
    <3>. QED  BY <1>13, <2>2, <3>1, <3>2
  <2>. QED  BY <2>1, <2>2
<1>15. ASSUME NEW j \in 1 .. n, NEW k \in 1 .. n, g[j] = g[k] PROVE j = k
  <2>1. \A m \in 1 .. n : m # 1 => g[m] # i  BY <1>9, <1>11, <1>13, SMTT(30)
  <2>2. CASE j = 1 \/ k = 1  BY <1>13, <1>15, <2>1, <2>2
  <2>3. CASE j # 1 /\ k # 1
    <3>1. j - 1 \in 1 .. n - 1 /\ k - 1 \in 1 .. n - 1  BY <1>9, <2>3
    <3>2. f[j - 1] = f[k - 1]  BY <1>13, <1>15, <2>3
    <3>3. j - 1 = k - 1  BY <1>5, <1>6, <3>1, <3>2
    <3>. QED  BY <3>3
  <2>. QED  BY <2>2, <2>3
<1>16. ASSUME NEW j \in 1 .. n PROVE \E k \in 1 .. n : g[k] = j
  <2>1. CASE j = i  BY <1>10, <1>13, <2>1
  <2>2. CASE j # i
    <3>1. PICK k \in 1 .. n - 1 : f[k] = j  BY <1>2, <1>5, <1>6, <2>2
    <3>2. k + 1 \in 1 .. n /\ k + 1 # 1 /\ k + 1 - 1 = k  BY <1>2
    <3>. QED  BY <1>13, <3>1, <3>2
  <2>. QED  BY <2>1, <2>2
<1>17. Part(r, s, DOMAIN s)
  <2>1. g \in [DOMAIN r -> DOMAIN s]  BY ONLY <1>2, <1>8, <1>12
  <2>2. \A k \in DOMAIN r : r[k] = s[g[k]]  BY ONLY <1>8, <1>14
  <2>3. \A j, k \in DOMAIN r : g[j] = g[k] => j = k  BY ONLY <1>8, <1>15
  <2>4. \A j \in DOMAIN s : \E k \in DOMAIN r : g[k] = j  BY ONLY <1>2, <1>8, <1>16
  <2>. QED  BY ONLY <2>1, <2>2, <2>3, <2>4 DEF Part
<1>. QED  BY <1>1, <1>8, <1>17

LEMMA ReverseIs ==
  ASSUME NEW X, NEW s \in Seq(X)
  PROVE  Reverse(s) \in Seq(X) /\ Part(Reverse(s), s, DOMAIN s)
<1>1. Len(s) \in Nat /\ DOMAIN s = 1 .. Len(s) /\ \A i \in 1 .. Len(s) : s[i] \in X  BY SeqIs
<1>. DEFINE f == [k \in 1 .. Len(s) |-> Len(s) - k + 1]
<1>2. PICK r : r = Reverse(s)  OBVIOUS
<1>3. r = [k \in 1 .. Len(s) |-> s[(Len(s) - k) + 1]]  BY <1>2 DEF Reverse
<1>4. \A k \in 1 .. Len(s) : Len(s) - k + 1 \in 1 .. Len(s)  BY <1>1
<1>5. r \in [1 .. Len(s) -> X]  BY <1>1, <1>3, <1>4
<1>6. r \in Seq(X)  BY <1>1, <1>5
<1>7. f \in [DOMAIN r -> DOMAIN s]  BY <1>1, <1>3, <1>4
<1>8. \A k \in DOMAIN r : r[k] = s[f[k]]  BY <1>3
<1>9. \A j, k \in 1 .. Len(s) : f[j] = f[k] => j = k  BY <1>1
<1>10. \A i \in 1 .. Len(s) : \E k \in 1 .. Len(s) : f[k] = i
  <2>. SUFFICES ASSUME NEW i \in 1 .. Len(s) PROVE \E k \in 1 .. Len(s) : f[k] = i  OBVIOUS
  <2>1. Len(s) - i + 1 \in 1 .. Len(s) /\ f[Len(s) - i + 1] = i  BY <1>1
  <2>. QED  BY <2>1
<1>11. DOMAIN r = 1 .. Len(s)  BY <1>3
<1>. HIDE DEF f
<1>12. /\ \A j, k \in DOMAIN r : f[j] = f[k] => j = k
       /\ \A i \in DOMAIN s : \E k \in DOMAIN r : f[k] = i
  BY <1>1, <1>9, <1>10, <1>11
<1>13. Part(r, s, DOMAIN s)  BY <1>7, <1>8, <1>12 DEF Part
<1>. QED  BY <1>2, <1>6, <1>13

-----------------------------------------------------------------------------
(***************************************************************************)
(* The inductive invariant.  D are the numbers of the host's descriptors.  *)
(***************************************************************************)
PipeEnd(o) == o[1] \in {"read", "write"}

Reals(t) == {t[i].real : i \in DOMAIN t}

Ents(D) == [sim : Nat, real : D, kind : Kinds, closeOnExec : BOOLEAN]

HostOK(D, h) ==
  /\ h \in [D -> Objects \cup {Free}]
  /\ \A r \in 0 .. 2 : r \in D /\ h[r] # Free /\ ~PipeEnd(h[r])

(* A table holds open descriptors, each number and each descriptor once;   *)
(* the mark is never on one of the first three.                            *)
Distinct(t) ==
  \A i, j \in DOMAIN t : t[i].sim = t[j].sim \/ t[i].real = t[j].real => i = j

Holds(D, t, h) ==
  /\ t \in Seq(Ents(D))
  /\ Distinct(t)
  /\ \A i \in DOMAIN t : /\ h[t[i].real] # Free
                         /\ t[i].kind = "pipe" <=> PipeEnd(h[t[i].real])
                         /\ t[i].closeOnExec => t[i].real > 2

HostNumbers == 0 .. mix.hostFds - 1

FilesInv ==
  /\ mix \in Mixes /\ live \in (SUBSET Procs) \ {{}}
  /\ HostOK(HostNumbers, host)
  /\ tables = [p \in Procs |-> tables[p]]
  /\ \A p \in Procs : Holds(HostNumbers, tables[p], host) /\ Bounded(tables[p])
  /\ \A p \in Procs \ live : tables[p] = <<>>
  /\ \A p, q \in Procs : p # q => Reals(tables[p]) \cap Reals(tables[q]) = {}
  /\ \A r \in HostNumbers : PipeEnd(host[r]) => \E p \in Procs : r \in Reals(tables[p])

(***************************************************************************)
(* Pages and mappings.                                                     *)
(***************************************************************************)
Word == Int \cup Values

Ptes == [tag : Nat, page : [0 .. PageWords - 1 -> Word]]

BucketNumbers == 0 .. Buckets - 1

TagsOnce(l) == \A i, j \in DOMAIN l : l[i].tag = l[j].tag => i = j

PagesOK(ptab, count) ==
  /\ ptab \in [BucketNumbers -> Seq(Ptes)]
  /\ \A b \in BucketNumbers : TagsOnce(ptab[b])
  /\ IsFiniteSet(Pages(ptab)) /\ count = Cardinality(Pages(ptab))

Placed(map) ==
  /\ map.base \in Nat /\ map.size \in Nat \ {0} /\ Aligned(map.base)
  /\ map.base + map.size <= Words

InnerMaps == [base : Nat, size : Nat, inherit : BOOLEAN]

HostMaps == [base : Nat, size : Nat, inherit : BOOLEAN,
             data : UNION {[0 .. n - 1 -> Word] : n \in 0 .. Words}]

Apart(m, n) == m.base + m.size <= n.base \/ n.base + n.size <= m.base

MapsOK(hostMaps, inner) ==
  /\ hostMaps \in Seq(HostMaps) /\ inner \in Seq(InnerMaps)
  /\ \A i \in DOMAIN hostMaps :
       Placed(hostMaps[i]) /\ DOMAIN hostMaps[i].data = 0 .. hostMaps[i].size - 1
  /\ \A i \in DOMAIN inner : Placed(inner[i])
  /\ \A i, j \in DOMAIN hostMaps : i # j => Apart(hostMaps[i], hostMaps[j])
  /\ \A i, j \in DOMAIN inner : i # j => Apart(inner[i], inner[j])
  /\ \A i \in DOMAIN hostMaps, j \in DOMAIN inner : Apart(hostMaps[i], inner[j])

SpaceOK(s) ==
  /\ s = [ptab |-> s.ptab, count |-> s.count, memoryMap |-> s.memoryMap,
          internalMap |-> s.internalMap]
  /\ PagesOK(s.ptab, s.count)
  /\ MapsOK(s.memoryMap, s.internalMap)

MemoryInv ==
  /\ baseAddr \in 0 .. Words + PageWords /\ Aligned(baseAddr)
  /\ spaces = [p \in Procs |-> spaces[p]]
  /\ \A p \in Procs : SpaceOK(spaces[p])

-----------------------------------------------------------------------------
(* What is open on the host.                                               *)
LEMMA ObjectsAre ==
  /\ Free \notin Objects /\ Closed \notin Objects /\ ~PipeEnd(Free) /\ ~PipeEnd(Closed)
  /\ \A i \in 1 .. 3 : Std[i] \in Objects /\ ~PipeEnd(Std[i])
  /\ \A f \in Files : <<"file", f>> \in Objects /\ ~PipeEnd(<<"file", f>>)
  /\ \A i \in Pipes : /\ <<"read", i>> \in Objects /\ PipeEnd(<<"read", i>>)
                      /\ <<"write", i>> \in Objects /\ PipeEnd(<<"write", i>>)
                      /\ <<"read", i>> # <<"write", i>>
<1>1. /\ DOMAIN Std = 1 .. 3 /\ Std[1] = <<"std", "in">> /\ Std[2] = <<"std", "out">>
      /\ Std[3] = <<"std", "err">>
  BY DEF Std
<1>2. ASSUME NEW o \in Objects PROVE o[1] \in {"std", "file", "read", "write"}
  <2>1. CASE o \in ToSet(Std)
    <3>1. PICK i \in 1 .. 3 : o = Std[i]  BY <1>1, <2>1 DEF ToSet
    <3>. QED  BY <1>1, <3>1
  <2>2. CASE o \in {<<"file", f>> : f \in Files}  BY <2>2
  <2>3. CASE o \in {<<k, i>> : k \in {"read", "write"}, i \in Pipes}
    <3>1. PICK k \in {"read", "write"}, i \in Pipes : o = <<k, i>>  BY <2>3
    <3>. QED  BY <3>1
  <2>. QED  BY <2>1, <2>2, <2>3 DEF Objects
<1>3. Free[1] = "free" /\ Closed[1] = "closed"  BY DEF Free, Closed
<1>4. Free \notin Objects /\ Closed \notin Objects /\ ~PipeEnd(Free) /\ ~PipeEnd(Closed)
  BY <1>2, <1>3 DEF PipeEnd
<1>5. \A i \in 1 .. 3 : Std[i] \in Objects /\ ~PipeEnd(Std[i])
  <2>1. \A i \in 1 .. 3 : Std[i] \in ToSet(Std)  BY <1>1 DEF ToSet
  <2>2. \A i \in 1 .. 3 : Std[i][1] = "std"  BY <1>1
  <2>. QED  BY <2>1, <2>2 DEF Objects, PipeEnd
<1>6. \A f \in Files : <<"file", f>> \in Objects /\ ~PipeEnd(<<"file", f>>)
  BY DEF Objects, PipeEnd
<1>7. \A i \in Pipes : /\ <<"read", i>> \in Objects /\ PipeEnd(<<"read", i>>)
                       /\ <<"write", i>> \in Objects /\ PipeEnd(<<"write", i>>)
                       /\ <<"read", i>> # <<"write", i>>
  BY DEF Objects, PipeEnd
<1>. QED  BY <1>4, <1>5, <1>6, <1>7

LEMMA RoomIs ==
  ASSUME NEW D \in SUBSET Nat, IsFiniteSet(D), NEW h, HostOK(D, h)
  PROVE  /\ DOMAIN h = D /\ \A r \in D : h[r] \in Objects \cup {Free}
         /\ Room(h) = {r \in D : h[r] = Free}
         /\ Room(h) \in SUBSET Nat /\ Room(h) \in SUBSET D /\ IsFiniteSet(Room(h))
         /\ \A r \in Room(h) : r > 2
         /\ Cardinality(Room(h)) >= 1 => NewReal(h) \in Room(h)
<1>1. DOMAIN h = D /\ \A r \in D : h[r] \in Objects \cup {Free}  BY DEF HostOK
<1>2. Room(h) = {r \in D : h[r] = Free}  BY <1>1 DEF Room
<1>3. Room(h) \in SUBSET Nat /\ Room(h) \in SUBSET D /\ IsFiniteSet(Room(h))
  BY <1>2, FS_Subset
<1>4. ASSUME NEW r \in Room(h) PROVE r > 2
  <2>1. 0 \in 0 .. 2 /\ 1 \in 0 .. 2 /\ 2 \in 0 .. 2  OBVIOUS
  <2>2. h[0] # Free /\ h[1] # Free /\ h[2] # Free  BY <2>1 DEF HostOK
  <2>3. r \in Nat /\ h[r] = Free  BY <1>2
  <2>4. r # 0 /\ r # 1 /\ r # 2  BY <2>2, <2>3
  <2>. QED  BY <2>3, <2>4
<1>5. ASSUME Cardinality(Room(h)) >= 1 PROVE NewReal(h) \in Room(h)
  <2>1. Room(h) # {}  BY <1>5, FS_EmptySet
  <2>. QED  BY <1>3, <2>1, MinIs DEF NewReal
<1>. QED  BY <1>1, <1>2, <1>3, <1>4, <1>5

(* What a table holds, entry by entry.                                     *)
LEMMA HoldsIs ==
  ASSUME NEW D, NEW t, NEW h, Holds(D, t, h)
  PROVE  /\ Len(t) \in Nat /\ DOMAIN t = 1 .. Len(t)
         /\ \A i \in DOMAIN t : /\ t[i] \in Ents(D) /\ t[i].sim \in Nat /\ t[i].real \in D
                                /\ t[i].kind \in Kinds /\ t[i].closeOnExec \in BOOLEAN
<1>1. t \in Seq(Ents(D))  BY DEF Holds
<1>2. Len(t) \in Nat /\ DOMAIN t = 1 .. Len(t) /\ \A i \in DOMAIN t : t[i] \in Ents(D)
  BY <1>1, SeqIs
<1>. QED  BY <1>2 DEF Ents

LEMMA EntryIs ==
  ASSUME NEW D, NEW t, NEW h, Holds(D, t, h), NEW i \in DOMAIN t
  PROVE  EntryOf(t, t[i].sim) = i
<1>. DEFINE I == {j \in 1 .. Len(t) : t[j].sim = t[i].sim}
<1>1. Len(t) \in Nat /\ DOMAIN t = 1 .. Len(t)  BY HoldsIs
<1>2. \A j \in DOMAIN t : t[j].sim = t[i].sim => j = i  BY DEF Holds, Distinct
<1>3. I = {i}  BY <1>1, <1>2
<1>4. EntryOf(t, t[i].sim) = IF I # {} THEN Min(I) ELSE 0  BY DEF EntryOf, SelectInSeq
<1>5. {i} \in SUBSET Nat /\ {i} # {}  BY <1>1
<1>6. Min({i}) = i  BY <1>5, MinIs
<1>. QED  BY <1>3, <1>4, <1>6

(* What the program sees through a table.                                  *)
LEMMA ViewIs ==
  ASSUME NEW D, NEW t, NEW h, Holds(D, t, h)
  PROVE  /\ \A i \in DOMAIN t : /\ t[i].sim \in Numbers(t) /\ t[i].real \in Reals(t)
                                /\ RealOf(t, t[i].sim) = t[i].real
                                /\ t[i].sim \in 0 .. MaxNumber =>
                                     View(t, h)[t[i].sim] = h[t[i].real]
         /\ \A n \in Numbers(t) : \E i \in DOMAIN t : n = t[i].sim
         /\ \A r \in Reals(t) : r \in D /\ \E i \in DOMAIN t : r = t[i].real
         /\ \A n \in 0 .. MaxNumber : n \notin Numbers(t) => View(t, h)[n] = Closed
<1>1. \A i \in DOMAIN t : t[i].sim \in Numbers(t) /\ t[i].real \in Reals(t)
  BY DEF Numbers, Reals
<1>2. \A i \in DOMAIN t : RealOf(t, t[i].sim) = t[i].real  BY EntryIs DEF RealOf
<1>3. \A n \in Numbers(t) : \E i \in DOMAIN t : n = t[i].sim  BY DEF Numbers
<1>4. \A r \in Reals(t) : r \in D /\ \E i \in DOMAIN t : r = t[i].real  BY HoldsIs DEF Reals
<1>5. /\ \A n \in 0 .. MaxNumber : n \notin Numbers(t) => View(t, h)[n] = Closed
      /\ \A n \in 0 .. MaxNumber : n \in Numbers(t) => View(t, h)[n] = h[RealOf(t, n)]
  BY DEF View
<1>. QED  BY <1>1, <1>2, <1>3, <1>4, <1>5

(***************************************************************************)
(* A step of one program: its table goes from t to u and the host from h   *)
(* to g.  It touches only descriptors that are its own or free, and leaves *)
(* no end of a pipe behind without an entry.                               *)
(***************************************************************************)
Mine(t, h, r) == r \in Reals(t) \/ h[r] = Free

Step(D, t, h, u, g) ==
  /\ HostOK(D, g) /\ Holds(D, u, g)
  /\ \A r \in D : Mine(t, h, r) \/ g[r] = h[r]
  /\ \A r \in Reals(u) : Mine(t, h, r)
  /\ \A r \in D : PipeEnd(g[r]) /\ Mine(t, h, r) => r \in Reals(u)

LEMMA StepsOn ==
  ASSUME NEW D, NEW t, NEW h, NEW u, NEW g, NEW v, NEW k,
         Step(D, t, h, u, g), Step(D, u, g, v, k), Holds(D, t, h)
  PROVE  Step(D, t, h, v, k)
<1>1. HostOK(D, k) /\ Holds(D, v, k)  BY DEF Step
<1>2. \A r \in Reals(u) : r \in D  BY ViewIs DEF Step
<1>3. \A r \in Reals(v) : r \in D  BY ViewIs DEF Step
<1>4. \A r \in D : Mine(u, g, r) => Mine(t, h, r)  BY DEF Step, Mine
<1>5. \A r \in D : Mine(t, h, r) \/ k[r] = h[r]  BY <1>4 DEF Step
<1>6. \A r \in Reals(v) : Mine(t, h, r)  BY <1>3, <1>4 DEF Step
<1>7. ASSUME NEW r \in D, PipeEnd(k[r]), Mine(t, h, r) PROVE r \in Reals(v)
  <2>1. CASE Mine(u, g, r)  BY <1>7, <2>1 DEF Step
  <2>2. CASE ~Mine(u, g, r)
    <3>1. k[r] = g[r]  BY <2>2 DEF Step
    <3>2. r \in Reals(u)  BY <1>7, <3>1 DEF Step
    <3>. QED  BY <2>2, <3>2 DEF Mine
  <2>. QED  BY <2>1, <2>2
<1>. QED  BY <1>1, <1>5, <1>6, <1>7 DEF Step

Frame(D, t, h) == D \in SUBSET Nat /\ IsFiniteSet(D) /\ HostOK(D, h) /\ Holds(D, t, h)

LEMMA FrameStep ==
  ASSUME NEW D, NEW t, NEW h, Frame(D, t, h), NEW u, NEW g, Step(D, t, h, u, g)
  PROVE  Frame(D, u, g)
BY DEF Frame, Step

(* A new entry.                                                            *)
Adds(D, t, h, n, r, o, k, c, u, g) ==
  /\ Frame(D, t, h) /\ n \in Nat \ Numbers(t) /\ r \in Room(h) /\ o \in Objects
  /\ k \in Kinds /\ c \in BOOLEAN /\ (k = "pipe" <=> PipeEnd(o))
  /\ u = Append(t, Entry(n, r, k, c)) /\ g = [h EXCEPT ![r] = o]

LEMMA Added ==
  ASSUME NEW D, NEW t, NEW h, NEW n, NEW r, NEW o, NEW k, NEW c, NEW u, NEW g,
         Adds(D, t, h, n, r, o, k, c, u, g)
  PROVE  /\ Step(D, t, h, u, g)
         /\ Numbers(u) = Numbers(t) \cup {n}
         /\ \A m \in 0 .. MaxNumber : View(u, g)[m] = IF m = n THEN o ELSE View(t, h)[m]
         /\ \A x \in Room(h) : x # r => x \in Room(g)
         /\ Len(u) = Len(t) + 1
<1>. /\ D \in SUBSET Nat /\ IsFiniteSet(D) /\ HostOK(D, h) /\ Holds(D, t, h)
     /\ n \in Nat \ Numbers(t) /\ r \in Room(h) /\ o \in Objects
     /\ k \in Kinds /\ c \in BOOLEAN /\ (k = "pipe" <=> PipeEnd(o))
     /\ u = Append(t, Entry(n, r, k, c)) /\ g = [h EXCEPT ![r] = o]
  BY DEF Adds, Frame
<1>. DEFINE e == Entry(n, r, k, c)
<1>1. /\ DOMAIN h = D /\ \A x \in D : h[x] \in Objects \cup {Free}
      /\ r \in D /\ h[r] = Free /\ r > 2 /\ \A x \in Room(h) : x \in D /\ h[x] = Free
  BY RoomIs
<1>2. /\ Len(t) \in Nat /\ DOMAIN t = 1 .. Len(t) /\ t \in Seq(Ents(D))
      /\ \A i \in DOMAIN t : t[i].real \in D /\ h[t[i].real] # Free
  BY HoldsIs DEF Holds
<1>3. /\ e \in Ents(D) /\ e.sim = n /\ e.real = r /\ e.kind = k /\ e.closeOnExec = c
  BY <1>1 DEF Ents, Entry
<1>. HIDE DEF e
<1>4. u = Append(t, e)  BY DEF e
<1>5. /\ u \in Seq(Ents(D)) /\ Len(u) = Len(t) + 1
      /\ \A i \in 1 .. Len(t) : u[i] = t[i]
      /\ u[Len(t) + 1] = e
  BY <1>2, <1>3, <1>4, AppendProperties
<1>6. DOMAIN u = 1 .. Len(t) + 1  BY <1>5, SeqIs
<1>7. /\ DOMAIN g = D /\ g[r] = o /\ \A x \in D : x # r => g[x] = h[x]
      /\ g \in [D -> Objects \cup {Free}]
  <2>1. h \in [D -> Objects \cup {Free}]  BY DEF HostOK
  <2>. QED  BY <1>1, <2>1
<1>8. HostOK(D, g)
  <2>1. \A x \in 0 .. 2 : x # r  BY <1>1
  <2>. QED  BY <1>7, <2>1 DEF HostOK
<1>9. /\ \A i \in DOMAIN u : i \in DOMAIN t \/ i = Len(t) + 1
      /\ \A i \in DOMAIN t : i \in DOMAIN u /\ u[i] = t[i]
      /\ Len(t) + 1 \in DOMAIN u
  BY <1>2, <1>5, <1>6
<1>10. \A i \in DOMAIN t : t[i].real # r /\ t[i].sim # n
  BY <1>1, <1>2 DEF Numbers
<1>11. Distinct(u)
  <2>1. Distinct(t)  BY DEF Holds
  <2>2. ASSUME NEW i \in DOMAIN u, NEW j \in DOMAIN u,
               u[i].sim = u[j].sim \/ u[i].real = u[j].real
        PROVE  i = j
    <3>1. CASE i \in DOMAIN t /\ j \in DOMAIN t  BY <1>9, <2>1, <2>2, <3>1 DEF Distinct
    <3>2. CASE i = Len(t) + 1 /\ j \in DOMAIN t  BY <1>3, <1>5, <1>9, <1>10, <2>2, <3>2
    <3>3. CASE j = Len(t) + 1 /\ i \in DOMAIN t  BY <1>3, <1>5, <1>9, <1>10, <2>2, <3>3
    <3>. QED  BY <1>9, <3>1, <3>2, <3>3
  <2>. QED  BY <2>2 DEF Distinct
<1>12. ASSUME NEW i \in DOMAIN u
       PROVE  /\ g[u[i].real] # Free
              /\ u[i].kind = "pipe" <=> PipeEnd(g[u[i].real])
              /\ u[i].closeOnExec => u[i].real > 2
  <2>1. CASE i \in DOMAIN t  BY <1>2, <1>7, <1>9, <1>10, <2>1 DEF Holds
  <2>2. CASE i = Len(t) + 1  BY <1>1, <1>3, <1>5, <1>7, <2>2, ObjectsAre
  <2>. QED  BY <1>9, <2>1, <2>2
<1>13. Holds(D, u, g)  BY <1>5, <1>11, <1>12 DEF Holds
<1>14. Reals(u) = Reals(t) \cup {r} /\ Numbers(u) = Numbers(t) \cup {n}
  BY <1>3, <1>5, <1>9 DEF Reals, Numbers
<1>15. Step(D, t, h, u, g)
  <2>1. \A x \in D : Mine(t, h, x) \/ g[x] = h[x]  BY <1>1, <1>7 DEF Mine
  <2>2. \A x \in Reals(u) : Mine(t, h, x)  BY <1>1, <1>14 DEF Mine
  <2>3. \A x \in D : PipeEnd(g[x]) /\ Mine(t, h, x) => x \in Reals(u)
    BY <1>7, <1>14, ObjectsAre DEF Mine
  <2>. QED  BY <1>8, <1>13, <2>1, <2>2, <2>3 DEF Step
<1>16. ASSUME NEW m \in 0 .. MaxNumber
       PROVE  View(u, g)[m] = IF m = n THEN o ELSE View(t, h)[m]
  <2>1. CASE m \notin Numbers(u)  BY <1>13, <1>14, <2>1, ViewIs
  <2>0. \A i \in DOMAIN u : u[i].sim \in 0 .. MaxNumber => View(u, g)[u[i].sim] = g[u[i].real]
    BY ONLY <1>13, ViewIs
  <2>2. CASE m = n
    <3>1. Len(t) + 1 \in DOMAIN u /\ u[Len(t) + 1].sim = m /\ u[Len(t) + 1].real = r
      BY <1>3, <1>5, <1>9, <2>2
    <3>2. View(u, g)[m] = g[r]  BY <2>0, <3>1
    <3>. QED  BY <1>7, <2>2, <3>2
  <2>3. CASE m \in Numbers(t) /\ m # n
    <3>1. PICK i \in DOMAIN t : m = t[i].sim  BY <2>3, ViewIs
    <3>2. View(t, h)[m] = h[t[i].real]  BY <3>1, ViewIs
    <3>4. i \in DOMAIN u /\ u[i].sim = m /\ u[i].real = t[i].real  BY <1>9, <3>1
    <3>3. View(u, g)[m] = g[t[i].real]  BY <2>0, <3>4
    <3>. QED  BY <1>2, <1>7, <1>10, <2>3, <3>2, <3>3
  <2>. QED  BY <1>14, <2>1, <2>2, <2>3
<1>17. \A x \in Room(h) : x # r => x \in Room(g)  BY <1>1, <1>7 DEF Room
<1>. QED  BY <1>5, <1>14, <1>15, <1>16, <1>17

(* Entries taken out, and their descriptors closed or left: close, the     *)
(* marked entries at exec, and all of them at exit.                        *)
Shrinks(D, t, h, K, u, g) ==
  /\ Frame(D, t, h) /\ K \in SUBSET DOMAIN t
  /\ u \in Seq(Ents(D)) /\ Part(u, t, K)
  /\ g = [x \in D |-> g[x]]
  /\ \A x \in D :
       \/ g[x] = h[x]
       \/ g[x] = Free /\ x > 2 /\ \E i \in DOMAIN t \ K : x = t[i].real
  /\ \A i \in DOMAIN t \ K : t[i].kind = "pipe" => g[t[i].real] = Free

LEMMA Shrunk ==
  ASSUME NEW D, NEW t, NEW h, NEW K, NEW u, NEW g, Shrinks(D, t, h, K, u, g)
  PROVE  /\ Step(D, t, h, u, g)
         /\ \A i \in DOMAIN t : t[i].sim \in Numbers(u) <=> i \in K
         /\ Numbers(u) \in SUBSET Numbers(t)
         /\ \A m \in 0 .. MaxNumber :
              View(u, g)[m] = IF m \in Numbers(u) THEN View(t, h)[m] ELSE Closed
         /\ Room(h) \in SUBSET Room(g)
<1>. /\ D \in SUBSET Nat /\ HostOK(D, h) /\ Holds(D, t, h)
     /\ K \in SUBSET DOMAIN t /\ u \in Seq(Ents(D)) /\ g = [x \in D |-> g[x]]
  BY DEF Shrinks, Frame
<1>1. /\ Distinct(t)
      /\ \A j \in DOMAIN t : /\ t[j].real \in D /\ h[t[j].real] # Free
                             /\ t[j].kind = "pipe" <=> PipeEnd(h[t[j].real])
                             /\ t[j].closeOnExec => t[j].real > 2
                             /\ t[j].sim \in Numbers(t) /\ t[j].real \in Reals(t)
  <2>1. \A j \in DOMAIN t : t[j].real \in D  BY HoldsIs
  <2>. QED  BY <2>1 DEF Holds, Numbers, Reals
<1>2. PICK f \in [DOMAIN u -> K] :
        /\ \A k \in DOMAIN u : u[k] = t[f[k]]
        /\ \A j, k \in DOMAIN u : f[j] = f[k] => j = k
        /\ \A j \in K : \E k \in DOMAIN u : f[k] = j
  BY DEF Shrinks, Part
<1>3. \A k \in DOMAIN u : f[k] \in K /\ f[k] \in DOMAIN t /\ u[k] = t[f[k]]  BY <1>2
<1>4. \A j \in K : \E k \in DOMAIN u : u[k] = t[j]  BY <1>2
<1>5. /\ DOMAIN h = D /\ \A x \in D : h[x] \in Objects \cup {Free}
      /\ h = [x \in D |-> h[x]]
  BY DEF HostOK
<1>6. /\ \A x \in D :
           \/ g[x] = h[x]
           \/ g[x] = Free /\ x > 2 /\ \E i \in DOMAIN t \ K : x = t[i].real
      /\ \A i \in DOMAIN t \ K : t[i].kind = "pipe" => g[t[i].real] = Free
  BY DEF Shrinks
<1>7. HostOK(D, g)
  <2>1. g \in [D -> Objects \cup {Free}]  BY <1>5, <1>6
  <2>2. ASSUME NEW r \in 0 .. 2 PROVE r \in D /\ g[r] # Free /\ ~PipeEnd(g[r])
    <3>1. r \in D /\ h[r] # Free /\ ~PipeEnd(h[r])  BY DEF HostOK
    <3>2. ~(r > 2)  OBVIOUS
    <3>. QED  BY <1>6, <3>1, <3>2
  <2>. QED  BY <2>1, <2>2 DEF HostOK
<1>8. \A j \in K : g[t[j].real] = h[t[j].real]
  <2>1. \A j \in K, i \in DOMAIN t \ K : t[j].real # t[i].real  BY <1>1 DEF Distinct
  <2>. QED  BY <1>1, <1>6, <2>1
<1>9. Distinct(u)
  <2>. SUFFICES ASSUME NEW j \in DOMAIN u, NEW k \in DOMAIN u,
                       u[j].sim = u[k].sim \/ u[j].real = u[k].real
                PROVE  j = k
    BY DEF Distinct
  <2>1. f[j] \in DOMAIN t /\ f[k] \in DOMAIN t /\ u[j] = t[f[j]] /\ u[k] = t[f[k]]  BY <1>3
  <2>2. f[j] = f[k]  BY <1>1, <2>1 DEF Distinct
  <2>. QED  BY <1>2, <2>2
<1>10. ASSUME NEW k \in DOMAIN u
       PROVE  /\ g[u[k].real] = h[u[k].real] /\ g[u[k].real] # Free
              /\ u[k].sim \in Numbers(t) /\ u[k].real \in Reals(t)
              /\ u[k].kind = "pipe" <=> PipeEnd(g[u[k].real])
              /\ u[k].closeOnExec => u[k].real > 2
  <2>1. f[k] \in K /\ f[k] \in DOMAIN t /\ u[k] = t[f[k]]  BY <1>3
  <2>2. g[t[f[k]].real] = h[t[f[k]].real]  BY <1>8, <2>1
  <2>. QED  BY <1>1, <2>1, <2>2
<1>11. Holds(D, u, g)  BY <1>9, <1>10 DEF Holds
<1>12. ASSUME NEW i \in DOMAIN t PROVE t[i].sim \in Numbers(u) <=> i \in K
  <2>1. ASSUME i \in K PROVE t[i].sim \in Numbers(u)  BY <1>4, <2>1 DEF Numbers
  <2>2. ASSUME t[i].sim \in Numbers(u) PROVE i \in K
    <3>1. PICK k \in DOMAIN u : t[i].sim = u[k].sim  BY <2>2 DEF Numbers
    <3>2. f[k] = i  BY <1>1, <1>3, <3>1 DEF Distinct
    <3>. QED  BY <1>3, <3>2
  <2>. QED  BY <2>1, <2>2
<1>13. Numbers(u) \in SUBSET Numbers(t) /\ Reals(u) \in SUBSET Reals(t)
  <2>1. \A x \in Numbers(u) : x \in Numbers(t)  BY <1>10 DEF Numbers
  <2>2. \A x \in Reals(u) : x \in Reals(t)  BY <1>10 DEF Reals
  <2>. QED  BY <2>1, <2>2
<1>14. Step(D, t, h, u, g)
  <2>1. \A x \in D : Mine(t, h, x) \/ g[x] = h[x]  BY <1>1, <1>6 DEF Mine
  <2>2. \A x \in Reals(u) : Mine(t, h, x)  BY <1>13 DEF Mine
  <2>3. ASSUME NEW x \in D, PipeEnd(g[x]), Mine(t, h, x) PROVE x \in Reals(u)
    <3>1. g[x] # Free /\ g[x] = h[x]  BY <1>6, <2>3, ObjectsAre
    <3>2. PICK i \in DOMAIN t : x = t[i].real  BY <2>3, <3>1 DEF Mine, Reals
    <3>3. i \in K  BY <1>1, <1>6, <2>3, <3>1, <3>2
    <3>. QED  BY <1>4, <3>2, <3>3 DEF Reals
  <2>. QED  BY <1>7, <1>11, <2>1, <2>2, <2>3 DEF Step
<1>15. ASSUME NEW m \in 0 .. MaxNumber
       PROVE  View(u, g)[m] = IF m \in Numbers(u) THEN View(t, h)[m] ELSE Closed
  <2>0. /\ \A k \in DOMAIN u : u[k].sim \in 0 .. MaxNumber => View(u, g)[u[k].sim] = g[u[k].real]
        /\ \A k \in DOMAIN t : t[k].sim \in 0 .. MaxNumber => View(t, h)[t[k].sim] = h[t[k].real]
    BY ONLY Holds(D, t, h), <1>11, ViewIs
  <2>1. CASE m \notin Numbers(u)  BY <1>11, <2>1, ViewIs
  <2>2. CASE m \in Numbers(u)
    <3>1. PICK k \in DOMAIN u : m = u[k].sim  BY <2>2 DEF Numbers
    <3>2. f[k] \in DOMAIN t /\ m = t[f[k]].sim /\ u[k].real = t[f[k]].real  BY <1>3, <3>1
    <3>3. View(u, g)[m] = g[u[k].real] /\ View(t, h)[m] = h[u[k].real]  BY <2>0, <3>1, <3>2
    <3>. QED  BY <1>10, <2>2, <3>3
  <2>. QED  BY <2>1, <2>2
<1>16. Room(h) \in SUBSET Room(g)
  <2>1. DOMAIN g = D  OBVIOUS
  <2>2. \A x \in D : h[x] = Free => g[x] = Free  BY <1>6
  <2>. QED  BY <1>5, <2>1, <2>2 DEF Room
<1>. QED  BY <1>12, <1>13, <1>14, <1>15, <1>16

LEMMA ClosedOnIs ==
  ASSUME NEW D, NEW h, HostOK(D, h), NEW R
  PROVE  /\ ClosedOn(h, R) = [x \in D |-> ClosedOn(h, R)[x]]
         /\ \A x \in D : ClosedOn(h, R)[x] = IF x \in R THEN Free ELSE h[x]
<1>1. DOMAIN h = D  BY DEF HostOK
<1>. QED  BY <1>1 DEF ClosedOn

LEMMA Dropped ==
  ASSUME NEW D, NEW t, NEW h, Frame(D, t, h), NEW n \in Numbers(t),
         NEW c, c = Closer(t, h, n)
  PROVE  /\ Step(D, t, h, c.table, c.host)
         /\ Numbers(c.table) = Numbers(t) \ {n}
         /\ \A m \in 0 .. MaxNumber :
              View(c.table, c.host)[m] = IF m = n THEN Closed ELSE View(t, h)[m]
         /\ Room(h) \in SUBSET Room(c.host)
<1>0. D \in SUBSET Nat /\ HostOK(D, h) /\ Holds(D, t, h)  BY DEF Frame
<1>1. PICK i \in DOMAIN t : n = t[i].sim  BY <1>0, ViewIs
<1>2. EntryOf(t, n) = i  BY <1>0, <1>1, EntryIs
<1>3. PICK u : u = RemoveAt(t, i)  OBVIOUS
<1>4. PICK g : g = IF ClosesReal(t[i]) THEN ClosedOn(h, {t[i].real}) ELSE h  OBVIOUS
<1>5. c.table = u /\ c.host = g  BY <1>2, <1>3, <1>4 DEF Closer
<1>6. t \in Seq(Ents(D)) /\ t[i].real \in D
      /\ (t[i].kind = "pipe" <=> PipeEnd(h[t[i].real]))
      /\ (t[i].closeOnExec => t[i].real > 2)
  BY <1>0, HoldsIs DEF Holds
<1>7. u \in Seq(Ents(D)) /\ Part(u, t, DOMAIN t \ {i})  BY <1>3, <1>6, RemoveAtIs, RemovedPart
<1>8. PICK K : K = DOMAIN t \ {i}  OBVIOUS
<1>9. /\ g = [x \in D |-> g[x]]
      /\ \A x \in D : g[x] = IF x = t[i].real /\ ClosesReal(t[i]) THEN Free ELSE h[x]
  <2>1. h = [x \in D |-> h[x]]  BY <1>0 DEF HostOK
  <2>2. CASE ClosesReal(t[i])  BY <1>0, <1>4, <2>2, ClosedOnIs
  <2>3. CASE ~ClosesReal(t[i])  BY <1>4, <2>1, <2>3
  <2>. QED  BY <2>2, <2>3
<1>10. Shrinks(D, t, h, K, u, g)
  <2>1. ClosesReal(t[i]) => t[i].real > 2
    <3>1. CASE t[i].kind = "pipe"
      <4>1. PipeEnd(h[t[i].real]) /\ t[i].real \in Nat  BY <1>0, <1>6, <3>1
      <4>2. t[i].real \notin 0 .. 2  BY <1>0, <4>1 DEF HostOK
      <4>. QED  BY <4>1, <4>2
    <3>. QED  BY <1>6, <3>1 DEF ClosesReal
  <2>2. i \in DOMAIN t \ K /\ \A j \in DOMAIN t \ K : j = i  BY <1>8
  <2>3. \A x \in D :
          \/ g[x] = h[x]
          \/ g[x] = Free /\ x > 2 /\ \E j \in DOMAIN t \ K : x = t[j].real
    BY <1>9, <2>1, <2>2
  <2>4. \A j \in DOMAIN t \ K : t[j].kind = "pipe" => g[t[j].real] = Free
    BY <1>6, <1>9, <2>2 DEF ClosesReal
  <2>5. K \in SUBSET DOMAIN t /\ Part(u, t, K)  BY <1>7, <1>8
  <2>. QED  BY <1>7, <1>9, <2>3, <2>4, <2>5 DEF Shrinks
<1>11. /\ Step(D, t, h, u, g)
       /\ \A j \in DOMAIN t : t[j].sim \in Numbers(u) <=> j \in K
       /\ Numbers(u) \in SUBSET Numbers(t)
       /\ \A m \in 0 .. MaxNumber :
            View(u, g)[m] = IF m \in Numbers(u) THEN View(t, h)[m] ELSE Closed
       /\ Room(h) \in SUBSET Room(g)
  BY <1>10, Shrunk
<1>12. Numbers(u) = Numbers(t) \ {n}
  <2>1. \A j \in DOMAIN t : t[j].sim = n => j = i  BY <1>0, <1>1 DEF Holds, Distinct
  <2>2. ASSUME NEW m \in Numbers(t) PROVE m \in Numbers(u) <=> m # n
    <3>1. PICK j \in DOMAIN t : m = t[j].sim  BY DEF Numbers
    <3>. QED  BY <1>1, <1>8, <1>11, <2>1, <3>1
  <2>. QED  BY <1>11, <2>2
<1>13. \A m \in 0 .. MaxNumber :
         View(u, g)[m] = IF m = n THEN Closed ELSE View(t, h)[m]
  BY <1>0, <1>11, <1>12, ViewIs
<1>. QED  BY <1>5, <1>11, <1>12, <1>13

-----------------------------------------------------------------------------
(***************************************************************************)
(* The numbers that are free.                                              *)
(***************************************************************************)
LEMMA ImageCount ==
  ASSUME NEW n \in Nat, NEW S, NEW f \in [1 .. n -> S],
         \A i, j \in 1 .. n : f[i] = f[j] => i = j,
         \A x \in S : \E i \in 1 .. n : f[i] = x
  PROVE  IsFiniteSet(S) /\ Cardinality(S) = n
<1>1. f \in Bijection(1 .. n, S)
  BY DEF Bijection, Injection, Surjection, IsInjective
<1>2. ExistsBijection(1 .. n, S)  BY <1>1 DEF ExistsBijection
<1>. QED  BY <1>2, FS_CountingElements, FS_NatBijection

LEMMA NumbersAre ==
  ASSUME NEW D, NEW t, NEW h, Holds(D, t, h)
  PROVE  /\ IsFiniteSet(Numbers(t)) /\ Cardinality(Numbers(t)) = Len(t)
         /\ Numbers(t) \in SUBSET Nat
<1>. DEFINE f == [i \in 1 .. Len(t) |-> t[i].sim]
<1>1. Len(t) \in Nat /\ DOMAIN t = 1 .. Len(t) /\ \A i \in DOMAIN t : t[i].sim \in Nat
  BY HoldsIs
<1>2. f \in [1 .. Len(t) -> Numbers(t)]  BY <1>1 DEF Numbers
<1>3. \A i, j \in 1 .. Len(t) : f[i] = f[j] => i = j  BY <1>1 DEF Holds, Distinct
<1>4. \A x \in Numbers(t) : \E i \in 1 .. Len(t) : f[i] = x  BY <1>1 DEF Numbers
<1>5. Numbers(t) \in SUBSET Nat  BY <1>1 DEF Numbers
<1>. HIDE DEF f
<1>. QED  BY <1>1, <1>2, <1>3, <1>4, <1>5, ImageCount

(* From any number on, one of the next Len(t) + 1 is free.                 *)
LEMMA GapFrom ==
  ASSUME NEW D, NEW t, NEW h, Holds(D, t, h), NEW a \in Nat
  PROVE  \E k \in a .. a + Len(t) : /\ k \notin Numbers(t)
                                    /\ \A j \in a .. k - 1 : j \in Numbers(t)
<1>1. Len(t) \in Nat  BY HoldsIs
<1>. DEFINE T == (a .. a + Len(t)) \ Numbers(t)
<1>2. T # {}
  <2>1. /\ IsFiniteSet(a .. a + Len(t))
        /\ Cardinality(a .. a + Len(t)) = IF a > a + Len(t) THEN 0 ELSE a + Len(t) - a + 1
    BY <1>1, FS_Interval, a \in Int, a + Len(t) \in Int, SMTT(30)
  <2>2. Cardinality(a .. a + Len(t)) = Len(t) + 1  BY <1>1, <2>1
  <2>3. IsFiniteSet(Numbers(t)) /\ Cardinality(Numbers(t)) = Len(t)  BY NumbersAre
  <2>4. ~(a .. a + Len(t) \subseteq Numbers(t))
    <3>. SUFFICES ASSUME a .. a + Len(t) \in SUBSET Numbers(t) PROVE FALSE  OBVIOUS
    <3>1. Cardinality(a .. a + Len(t)) <= Cardinality(Numbers(t))  BY <2>3, FS_Subset
    <3>. QED  BY <1>1, <2>2, <2>3, <3>1
  <2>. QED  BY <2>4
<1>3. T \in SUBSET Nat  BY <1>1
<1>4. PICK k \in T : \A y \in T : k <= y
  <2>. HIDE DEF T
  <2>. QED  BY <1>2, <1>3, LeastNumber
<1>5. k \in a .. a + Len(t) /\ k \notin Numbers(t)  BY <1>4
<1>6. ASSUME NEW j \in a .. k - 1 PROVE j \in Numbers(t)
  <2>1. j \in a .. a + Len(t) /\ ~(k <= j)  BY <1>1, <1>5
  <2>. QED  BY <1>4, <2>1
<1>. QED  BY <1>5, <1>6

LEMMA LowestIs ==
  ASSUME NEW D, NEW t, NEW h, Holds(D, t, h)
  PROVE  /\ LowestFree(t) \in Nat \ Numbers(t)
         /\ \A m \in 0 .. LowestFree(t) - 1 : m \in Numbers(t)
<1>. DEFINE T == (0 .. Len(t)) \ Numbers(t)
<1>1. Len(t) \in Nat  BY HoldsIs
<1>2. \E k \in 0 .. 0 + Len(t) : k \notin Numbers(t)  BY GapFrom, 0 \in Nat
<1>3. T # {} /\ T \in SUBSET Nat  BY <1>1, <1>2
<1>4. LowestFree(t) = Min(T)  BY DEF LowestFree
<1>5. Min(T) \in T /\ \A y \in T : Min(T) <= y
  <2>. HIDE DEF T
  <2>. QED  BY <1>3, MinIs
<1>6. ASSUME NEW m \in 0 .. Min(T) - 1 PROVE m \in Numbers(t)
  <2>1. m \in 0 .. Len(t) /\ ~(Min(T) <= m)  BY <1>1, <1>5
  <2>. QED  BY <1>5, <2>1
<1>. QED  BY <1>3, <1>4, <1>5, <1>6

(* insert gives a number that is free.                                     *)
LEMMA InsertIs ==
  ASSUME NEW D, NEW t, NEW h, Holds(D, t, h), NEW r \in Nat
  PROVE  \E n \in Nat \ Numbers(t) : Insert(t, r) = Append(t, Entry(n, r, "pipe", FALSE))
<1>. DEFINE G(k) == k \notin Numbers(t) /\ \A j \in r .. k - 1 : j \in Numbers(t)
            n == CHOOSE k \in r .. r + Len(t) : G(k)
<1>1. \E k \in r .. r + Len(t) : G(k)  BY GapFrom
<1>2. n \in r .. r + Len(t) /\ G(n)
  <2>. HIDE DEF G
  <2>. QED  BY <1>1
<1>3. Len(t) \in Nat  BY HoldsIs
<1>4. n \in Nat \ Numbers(t)
  <2>1. n \notin Numbers(t)  BY <1>2
  <2>. HIDE DEF n, G
  <2>. QED  BY <1>2, <1>3, <2>1
<1>5. Insert(t, r) = Append(t, Entry(n, r, "pipe", FALSE))  BY DEF Insert
<1>. HIDE DEF n
<1>. QED  BY <1>4, <1>5

(***************************************************************************)
(* The calls as steps, and what they make of the view.                     *)
(***************************************************************************)
LEMMA OpenerStep ==
  ASSUME NEW D, NEW t, NEW h, Frame(D, t, h), Cardinality(Room(h)) >= 1, NEW f \in Files,
         NEW c, c = Opener(t, h, <<"file", f>>, LowestFree(t))
  PROVE  /\ Step(D, t, h, c.table, c.host)
         /\ \A m \in 0 .. MaxNumber :
              View(c.table, c.host)[m] = IF m = LowestFree(t) THEN <<"file", f>>
                                         ELSE View(t, h)[m]
         /\ LowestFree(t) \in Numbers(c.table)
<1>1. D \in SUBSET Nat /\ IsFiniteSet(D) /\ HostOK(D, h) /\ Holds(D, t, h)  BY DEF Frame
<1>2. PICK n \in Nat \ Numbers(t) : n = LowestFree(t)  BY <1>1, LowestIs
<1>3. PICK r \in Room(h) : r = NewReal(h)  BY <1>1, RoomIs
<1>4. PICK o \in Objects : o = <<"file", f>> /\ ~PipeEnd(o)  BY ObjectsAre
<1>5. PICK u : u = Append(t, Entry(n, r, "file", FALSE))  OBVIOUS
<1>6. PICK g : g = [h EXCEPT ![r] = o]  OBVIOUS
<1>7. c.table = u /\ c.host = g  BY <1>2, <1>3, <1>4, <1>5, <1>6 DEF Opener, OpenedOn
<1>8. "file" \in Kinds /\ FALSE \in BOOLEAN /\ ("file" = "pipe" <=> PipeEnd(o))
  BY <1>4 DEF Kinds
<1>9. /\ Step(D, t, h, u, g) /\ Numbers(u) = Numbers(t) \cup {n}
      /\ \A m \in 0 .. MaxNumber : View(u, g)[m] = IF m = n THEN o ELSE View(t, h)[m]
  <2>0. PICK k \in Kinds, b \in BOOLEAN : k = "file" /\ b = FALSE  BY <1>8
  <2>1. Adds(D, t, h, n, r, o, k, b, u, g)  BY <1>5, <1>6, <1>8, <2>0 DEF Adds
  <2>. QED  BY <2>1, Added
<1>. QED  BY <1>2, <1>4, <1>7, <1>9

Copies(D, t, h, old, n, c) ==
  /\ Frame(D, t, h) /\ Cardinality(Room(h)) >= 1
  /\ old \in Numbers(t) /\ n \in Nat \ Numbers(t) /\ c = Copied(t, h, old, n)

LEMMA CopiedStep ==
  ASSUME NEW D, NEW t, NEW h, NEW old, NEW n, NEW c, Copies(D, t, h, old, n, c)
  PROVE  /\ Step(D, t, h, c.table, c.host)
         /\ Numbers(c.table) = Numbers(t) \cup {n}
         /\ \E o \in Objects :
              /\ old \in 0 .. MaxNumber => o = View(t, h)[old]
              /\ \A m \in 0 .. MaxNumber :
                   View(c.table, c.host)[m] = IF m = n THEN o ELSE View(t, h)[m]
<1>. /\ Frame(D, t, h) /\ Cardinality(Room(h)) >= 1
     /\ old \in Numbers(t) /\ n \in Nat \ Numbers(t) /\ c = Copied(t, h, old, n)
  BY DEF Copies
<1>1. D \in SUBSET Nat /\ IsFiniteSet(D) /\ HostOK(D, h) /\ Holds(D, t, h)  BY DEF Frame
<1>2. PICK i \in DOMAIN t : old = t[i].sim  BY <1>1, ViewIs
<1>3. EntryOf(t, old) = i  BY <1>1, <1>2, EntryIs
<1>4. /\ t[i].real \in D /\ t[i].kind \in Kinds /\ t[i].closeOnExec \in BOOLEAN
      /\ h[t[i].real] # Free /\ (t[i].kind = "pipe" <=> PipeEnd(h[t[i].real]))
  BY <1>1, HoldsIs DEF Holds
<1>5. PICK o \in Objects : o = h[t[i].real]  BY <1>1, <1>4 DEF HostOK
<1>6. PICK r \in Room(h) : r = NewReal(h)  BY <1>1, RoomIs
<1>7. PICK k \in Kinds, b \in BOOLEAN : k = t[i].kind /\ b = t[i].closeOnExec  BY <1>4
<1>8. PICK u : u = Append(t, Entry(n, r, k, b))  OBVIOUS
<1>9. PICK g : g = [h EXCEPT ![r] = o]  OBVIOUS
<1>10. c.table = u /\ c.host = g
  BY <1>3, <1>5, <1>6, <1>7, <1>8, <1>9 DEF Copied, OpenedOn
<1>11. k = "pipe" <=> PipeEnd(o)  BY <1>4, <1>5, <1>7
<1>12. /\ Step(D, t, h, u, g) /\ Numbers(u) = Numbers(t) \cup {n}
       /\ \A m \in 0 .. MaxNumber : View(u, g)[m] = IF m = n THEN o ELSE View(t, h)[m]
  <2>1. Adds(D, t, h, n, r, o, k, b, u, g)  BY <1>8, <1>9, <1>11 DEF Adds
  <2>. QED  BY <2>1, Added
<1>13. old \in 0 .. MaxNumber => o = View(t, h)[old]
  <2>1. \A j \in DOMAIN t : t[j].sim \in 0 .. MaxNumber => View(t, h)[t[j].sim] = h[t[j].real]
    BY ONLY <1>1, ViewIs
  <2>. QED  BY <1>2, <1>5, <2>1
<1>. QED  BY <1>10, <1>12, <1>13

(* dup2 puts the old object behind the new number.                         *)
LEMMA Dup2Step ==
  ASSUME NEW D, NEW t, NEW h, Frame(D, t, h), Cardinality(Room(h)) >= 1,
         NEW old \in Numbers(t), NEW new \in Numbers(t), old # new,
         NEW c, c = Dup2(t, h, old, new)
  PROVE  /\ Step(D, t, h, c.table, c.host)
         /\ Numbers(c.table) = Numbers(t)
         /\ old \in 0 .. MaxNumber =>
              \A m \in 0 .. MaxNumber :
                View(c.table, c.host)[m] = IF m = new THEN View(t, h)[old] ELSE View(t, h)[m]
<1>1. PICK d : d = Closer(t, h, new)  OBVIOUS
<1>2. /\ Step(D, t, h, d.table, d.host)
      /\ Numbers(d.table) = Numbers(t) \ {new}
      /\ \A m \in 0 .. MaxNumber :
           View(d.table, d.host)[m] = IF m = new THEN Closed ELSE View(t, h)[m]
      /\ Room(h) \in SUBSET Room(d.host)
  BY <1>1, Dropped
<1>3. Frame(D, d.table, d.host)  BY <1>2, FrameStep
<1>4. Cardinality(Room(d.host)) >= 1
  <2>1. IsFiniteSet(Room(h)) /\ IsFiniteSet(Room(d.host))  BY <1>3, RoomIs DEF Frame
  <2>2. Cardinality(Room(h)) <= Cardinality(Room(d.host))  BY <1>2, <2>1, FS_Subset
  <2>3. Cardinality(Room(h)) \in Nat /\ Cardinality(Room(d.host)) \in Nat
    BY <2>1, FS_CardinalityType
  <2>. QED  BY <2>2, <2>3
<1>5. c = Copied(d.table, d.host, old, new)  BY <1>1 DEF Dup2
<1>6. old \in Numbers(d.table) /\ new \in Nat \ Numbers(d.table)
  <2>1. Numbers(t) \in SUBSET Nat  BY NumbersAre DEF Frame
  <2>. QED  BY <1>2, <2>1
<1>7. /\ Step(D, d.table, d.host, c.table, c.host)
      /\ Numbers(c.table) = Numbers(d.table) \cup {new}
      /\ \E o \in Objects :
           /\ old \in 0 .. MaxNumber => o = View(d.table, d.host)[old]
           /\ \A m \in 0 .. MaxNumber :
                View(c.table, c.host)[m] = IF m = new THEN o ELSE View(d.table, d.host)[m]
  <2>1. Copies(D, d.table, d.host, old, new, c)  BY <1>3, <1>4, <1>5, <1>6 DEF Copies
  <2>. QED  BY <2>1, CopiedStep
<1>8. Step(D, t, h, c.table, c.host)  BY <1>2, <1>7, StepsOn DEF Frame
<1>9. Numbers(c.table) = Numbers(t)  BY <1>2, <1>7
<1>10. ASSUME old \in 0 .. MaxNumber, NEW m \in 0 .. MaxNumber
       PROVE  View(c.table, c.host)[m] = IF m = new THEN View(t, h)[old] ELSE View(t, h)[m]
  BY <1>2, <1>7, <1>10
<1>. QED  BY <1>8, <1>9, <1>10

LEMMA PipeStep ==
  ASSUME NEW D, NEW t, NEW h, Frame(D, t, h), Cardinality(Room(h)) >= 2, NEW pipe \in Pipes,
         NEW c, c = PipeCall(t, h, pipe)
  PROVE  /\ Step(D, t, h, c.table, c.host)
         /\ \E m, n \in Numbers(c.table) \ Numbers(t) :
              /\ m # n
              /\ \A x \in 0 .. MaxNumber :
                   View(c.table, c.host)[x] = IF x = m THEN <<"read", pipe>>
                                              ELSE IF x = n THEN <<"write", pipe>>
                                              ELSE View(t, h)[x]
<1>1. D \in SUBSET Nat /\ IsFiniteSet(D) /\ HostOK(D, h) /\ Holds(D, t, h)  BY DEF Frame
<1>2. /\ IsFiniteSet(Room(h)) /\ Cardinality(Room(h)) \in Nat
      /\ Room(h) \in SUBSET Nat
      /\ Cardinality(Room(h)) >= 1 => NewReal(h) \in Room(h)
  BY <1>1, RoomIs, FS_CardinalityType
<1>3. PICK r \in Room(h) : r = NewReal(h)  BY <1>2
<1>4. PICK x \in Room(h) : x # r
  <2>1. Cardinality(Room(h) \ {r}) = Cardinality(Room(h)) - 1 /\ IsFiniteSet(Room(h) \ {r})
    BY <1>2, FS_RemoveElement
  <2>2. Room(h) \ {r} # {}
    <3>. SUFFICES ASSUME Room(h) \ {r} = {} PROVE FALSE  OBVIOUS
    <3>1. Cardinality(Room(h) \ {r}) = 0  BY FS_EmptySet
    <3>. QED  BY <1>2, <2>1, <3>1
  <2>. QED  BY <2>2
<1>5. PICK o \in Objects : o = <<"read", pipe>> /\ PipeEnd(o)  BY ObjectsAre
<1>6. PICK e \in Objects : e = <<"write", pipe>> /\ PipeEnd(e)  BY ObjectsAre
<1>7. PICK n \in Nat \ Numbers(t) : Insert(t, r) = Append(t, Entry(n, r, "pipe", FALSE))
  BY <1>1, <1>2, InsertIs
<1>8. PICK u : u = Append(t, Entry(n, r, "pipe", FALSE))  OBVIOUS
<1>9. PICK g : g = [h EXCEPT ![r] = o]  OBVIOUS
<1>10. "pipe" \in Kinds /\ FALSE \in BOOLEAN  BY DEF Kinds
<1>11. /\ Step(D, t, h, u, g) /\ Numbers(u) = Numbers(t) \cup {n}
       /\ \A m \in 0 .. MaxNumber : View(u, g)[m] = IF m = n THEN o ELSE View(t, h)[m]
       /\ \A y \in Room(h) : y # r => y \in Room(g)
  <2>0. PICK k \in Kinds, b \in BOOLEAN : k = "pipe" /\ b = FALSE  BY <1>10
  <2>1. Adds(D, t, h, n, r, o, k, b, u, g)  BY <1>5, <1>8, <1>9, <2>0 DEF Adds
  <2>. QED  BY <2>1, Added
<1>12. D \in SUBSET Nat /\ IsFiniteSet(D) /\ HostOK(D, g) /\ Holds(D, u, g)
  BY <1>1, <1>11 DEF Step
<1>13. /\ IsFiniteSet(Room(g)) /\ Room(g) \in SUBSET Nat
       /\ Cardinality(Room(g)) >= 1 => NewReal(g) \in Room(g)
  BY <1>12, RoomIs
<1>14. PICK w \in Room(g) : w = NewReal(g)
  <2>1. Room(g) # {}  BY <1>4, <1>11
  <2>2. Cardinality(Room(g)) \in Nat /\ Cardinality(Room(g)) # 0
    BY <1>13, <2>1, FS_CardinalityType, FS_EmptySet
  <2>. QED  BY <1>13, <2>2
<1>15. PICK m \in Nat \ Numbers(u) : Insert(u, w) = Append(u, Entry(m, w, "pipe", FALSE))
  BY <1>12, <1>13, InsertIs
<1>16. PICK v : v = Append(u, Entry(m, w, "pipe", FALSE))  OBVIOUS
<1>17. PICK k : k = [g EXCEPT ![w] = e]  OBVIOUS
<1>18. /\ Step(D, u, g, v, k) /\ Numbers(v) = Numbers(u) \cup {m}
       /\ \A i \in 0 .. MaxNumber : View(v, k)[i] = IF i = m THEN e ELSE View(u, g)[i]
  <2>1. Frame(D, u, g)  BY <1>11, FrameStep
  <2>0. PICK y \in Kinds, b \in BOOLEAN : y = "pipe" /\ b = FALSE  BY <1>10
  <2>2. Adds(D, u, g, m, w, e, y, b, v, k)
    BY <1>6, <1>16, <1>17, <2>0, <2>1 DEF Adds
  <2>. QED  BY <2>2, Added
<1>19. OpenedOn(h, <<"read", pipe>>) = g  BY <1>3, <1>5, <1>9 DEF OpenedOn
<1>20. OpenedOn(g, <<"write", pipe>>) = k  BY <1>6, <1>14, <1>17 DEF OpenedOn
<1>21. c.table = v /\ c.host = k
  BY <1>3, <1>7, <1>8, <1>14, <1>15, <1>16, <1>19, <1>20 DEF PipeCall
<1>22. Step(D, t, h, v, k)  BY <1>1, <1>11, <1>18, StepsOn
<1>23. n \in Numbers(v) \ Numbers(t) /\ m \in Numbers(v) \ Numbers(t) /\ n # m
  BY <1>11, <1>18
<1>24. \A i \in 0 .. MaxNumber :
         View(v, k)[i] = IF i = n THEN o ELSE IF i = m THEN e ELSE View(t, h)[i]
  BY <1>11, <1>18, <1>23
<1>. QED  BY <1>5, <1>6, <1>21, <1>22, <1>23, <1>24

(* A mark changes nothing that the program sees.                           *)
LEMMA SetFdStep ==
  ASSUME NEW D, NEW t, NEW h, Frame(D, t, h), NEW n \in Numbers(t), RealOf(t, n) > 2,
         NEW u, u = SetCloseOnExec(t, n)
  PROVE  /\ Step(D, t, h, u, h) /\ Numbers(u) = Numbers(t)
         /\ \A m \in 0 .. MaxNumber : View(u, h)[m] = View(t, h)[m]
<1>0. D \in SUBSET Nat /\ HostOK(D, h) /\ Holds(D, t, h)  BY DEF Frame
<1>1. PICK i \in DOMAIN t : n = t[i].sim  BY <1>0, ViewIs
<1>2. EntryOf(t, n) = i  BY <1>0, <1>1, EntryIs
<1>3. t[i].real > 2  BY <1>2 DEF RealOf
<1>4. u = [t EXCEPT ![i].closeOnExec = TRUE]  BY <1>2 DEF SetCloseOnExec
<1>5. /\ t \in Seq(Ents(D)) /\ Len(t) \in Nat /\ DOMAIN t = 1 .. Len(t)
      /\ \A j \in DOMAIN t : t[j] \in Ents(D)
  BY <1>0, HoldsIs DEF Holds
<1>6. DOMAIN u = DOMAIN t /\ u \in Seq(Ents(D))
  <2>1. [t[i] EXCEPT !.closeOnExec = TRUE] \in Ents(D)  BY <1>5 DEF Ents
  <2>2. u = [j \in 1 .. Len(t) |-> IF j = i THEN [t[i] EXCEPT !.closeOnExec = TRUE] ELSE t[j]]
    BY <1>4, <1>5
  <2>3. u \in [1 .. Len(t) -> Ents(D)]  BY <1>5, <2>1, <2>2
  <2>4. DOMAIN u = DOMAIN t  BY <1>5, <2>2
  <2>5. u \in Seq(Ents(D))  BY <1>5, <2>3
  <2>. QED  BY <2>4, <2>5
<1>7. \A j \in DOMAIN t : /\ u[j].sim = t[j].sim /\ u[j].real = t[j].real /\ u[j].kind = t[j].kind
                          /\ u[j].closeOnExec => t[j].closeOnExec \/ j = i
  BY <1>4, <1>5 DEF Ents
<1>8. Numbers(u) = Numbers(t) /\ Reals(u) = Reals(t)  BY <1>6, <1>7 DEF Numbers, Reals
<1>9. Holds(D, u, h)
  <2>1. Distinct(u)  BY <1>0, <1>6, <1>7 DEF Holds, Distinct
  <2>. QED  BY <1>0, <1>3, <1>6, <1>7, <2>1 DEF Holds
<1>10. Step(D, t, h, u, h)
  <2>1. \A r \in D : PipeEnd(h[r]) /\ Mine(t, h, r) => r \in Reals(u)
    BY <1>8, ObjectsAre DEF Mine
  <2>. QED  BY <1>0, <1>8, <1>9, <2>1 DEF Step, Mine
<1>11. ASSUME NEW m \in 0 .. MaxNumber PROVE View(u, h)[m] = View(t, h)[m]
  <2>0. /\ \A k \in DOMAIN u : u[k].sim \in 0 .. MaxNumber => View(u, h)[u[k].sim] = h[u[k].real]
        /\ \A k \in DOMAIN t : t[k].sim \in 0 .. MaxNumber => View(t, h)[t[k].sim] = h[t[k].real]
    BY ONLY <1>0, <1>9, ViewIs
  <2>1. CASE m \notin Numbers(t)  BY <1>0, <1>8, <1>9, <2>1, ViewIs
  <2>2. CASE m \in Numbers(t)
    <3>1. PICK j \in DOMAIN t : m = t[j].sim  BY <2>2 DEF Numbers
    <3>. QED  BY <1>6, <1>7, <2>0, <3>1
  <2>. QED  BY <2>1, <2>2
<1>. QED  BY <1>8, <1>10, <1>11

(* exec closes what is marked.                                             *)
LEMMA CloexecStep ==
  ASSUME NEW D, NEW t, NEW h, Frame(D, t, h), NEW c, c = HandleCloexec(t, h)
  PROVE  /\ Step(D, t, h, c.table, c.host)
         /\ Numbers(c.table) \in SUBSET Numbers(t)
         /\ \A m \in 0 .. MaxNumber : View(c.table, c.host)[m] \in {View(t, h)[m], Closed}
<1>0. D \in SUBSET Nat /\ HostOK(D, h) /\ Holds(D, t, h)  BY DEF Frame
<1>1. PICK K : K = {i \in DOMAIN t : ~t[i].closeOnExec}  OBVIOUS
<1>2. PICK R : R = {e.real : e \in {f \in ToSet(t) : f.closeOnExec}}  OBVIOUS
<1>3. PICK u : u = Picked(t, K)  OBVIOUS
<1>4. PICK g : g = ClosedOn(h, R)  OBVIOUS
<1>5. c.table = u /\ c.host = g  BY <1>1, <1>2, <1>3, <1>4 DEF HandleCloexec
<1>6. /\ t \in Seq(Ents(D))
      /\ \A i \in DOMAIN t : t[i].real \in D /\ (t[i].closeOnExec => t[i].real > 2)
  BY <1>0, HoldsIs DEF Holds
<1>7. K \in SUBSET DOMAIN t /\ \A i \in DOMAIN t \ K : t[i].closeOnExec  BY <1>1
<1>8. u \in Seq(Ents(D)) /\ Part(u, t, K)  BY <1>3, <1>6, <1>7, PickedIs
<1>9. \A x : x \in R <=> \E i \in DOMAIN t \ K : x = t[i].real
  BY <1>1, <1>2 DEF ToSet
<1>10. g = [x \in D |-> g[x]] /\ \A x \in D : g[x] = IF x \in R THEN Free ELSE h[x]
  BY <1>0, <1>4, ClosedOnIs
<1>11. Shrinks(D, t, h, K, u, g)
  <2>1. \A x \in D :
          \/ g[x] = h[x]
          \/ g[x] = Free /\ x > 2 /\ \E j \in DOMAIN t \ K : x = t[j].real
    BY <1>6, <1>7, <1>9, <1>10
  <2>2. \A j \in DOMAIN t \ K : t[j].kind = "pipe" => g[t[j].real] = Free
    BY <1>6, <1>9, <1>10
  <2>. QED  BY <1>7, <1>8, <1>10, <2>1, <2>2 DEF Shrinks
<1>12. /\ Step(D, t, h, u, g)
       /\ Numbers(u) \in SUBSET Numbers(t)
       /\ \A m \in 0 .. MaxNumber :
            View(u, g)[m] = IF m \in Numbers(u) THEN View(t, h)[m] ELSE Closed
  BY <1>11, Shrunk
<1>. QED  BY <1>5, <1>12

(* exit closes everything but the first three.                             *)
LEMMA CloseallStep ==
  ASSUME NEW D, NEW t, NEW h, Frame(D, t, h), NEW g, g = Closeall(t, h)
  PROVE  Step(D, t, h, <<>>, g)
<1>0. D \in SUBSET Nat /\ HostOK(D, h) /\ Holds(D, t, h)  BY DEF Frame
<1>1. PICK R : R = {e.real : e \in ToSet(t)} \ 0 .. 2  OBVIOUS
<1>2. g = ClosedOn(h, R)  BY <1>1 DEF Closeall
<1>3. PICK u : u = <<>>  OBVIOUS
<1>4. PICK K : K = {}  OBVIOUS
<1>5. DOMAIN u = {} /\ u \in Seq(Ents(D))  BY <1>3
<1>6. Part(u, t, K)
  <2>1. u \in [DOMAIN u -> K]  BY <1>3, <1>4, <1>5
  <2>. QED  BY <1>4, <1>5, <2>1 DEF Part
<1>7. \A i \in DOMAIN t : /\ t[i].real \in D /\ t[i].real \in Nat
                          /\ t[i].kind = "pipe" <=> PipeEnd(h[t[i].real])
  BY <1>0, HoldsIs DEF Holds
<1>8. \A x : x \in R <=> x \notin 0 .. 2 /\ \E i \in DOMAIN t : x = t[i].real
  BY <1>1 DEF ToSet
<1>9. g = [x \in D |-> g[x]] /\ \A x \in D : g[x] = IF x \in R THEN Free ELSE h[x]
  BY <1>0, <1>2, ClosedOnIs
<1>10. Shrinks(D, t, h, K, u, g)
  <2>1. \A x \in D :
          \/ g[x] = h[x]
          \/ g[x] = Free /\ x > 2 /\ \E j \in DOMAIN t \ K : x = t[j].real
    <3>1. \A x \in D : x \notin 0 .. 2 => x > 2  BY <1>0
    <3>. QED  BY <1>4, <1>8, <1>9, <3>1
  <2>2. \A j \in DOMAIN t \ K : t[j].kind = "pipe" => g[t[j].real] = Free
    <3>1. \A r \in 0 .. 2 : ~PipeEnd(h[r])  BY <1>0 DEF HostOK
    <3>. QED  BY <1>7, <1>8, <1>9, <3>1
  <2>3. K \in SUBSET DOMAIN t  BY <1>4
  <2>. QED  BY <1>5, <1>6, <1>9, <2>1, <2>2, <2>3 DEF Shrinks
<1>. QED  BY <1>3, <1>10, Shrunk

(* fork gives the child what the parent sees, on descriptors of its own.   *)
LEMMA CopyFromStep ==
  ASSUME NEW D, NEW t, NEW h, Frame(D, t, h), Cardinality(Room(h)) >= Len(t),
         NEW c, c = CopyFrom(t, h)
  PROVE  /\ Step(D, <<>>, h, c.table, c.host)
         /\ Numbers(c.table) = Numbers(t)
         /\ \A m \in 0 .. MaxNumber : View(c.table, c.host)[m] = View(t, h)[m]
<1>0. D \in SUBSET Nat /\ IsFiniteSet(D) /\ HostOK(D, h) /\ Holds(D, t, h)  BY DEF Frame
<1>1. PICK room : room = Room(h)  OBVIOUS
<1>2. PICK n \in Nat : n = Len(t) /\ DOMAIN t = 1 .. n  BY <1>0, HoldsIs
<1>3. /\ room \in SUBSET Nat /\ IsFiniteSet(room) /\ DOMAIN h = D
      /\ room = {r \in D : h[r] = Free} /\ \A r \in room : r > 2
      /\ \A r \in D : h[r] \in Objects \cup {Free}
  BY <1>0, <1>1, RoomIs
<1>4. /\ \A r \in room : Rank(room, r) \in Nat \ {0} /\ Nth(room, Rank(room, r)) = r
      /\ \A k \in 1 .. n : Nth(room, k) \in room /\ Rank(room, Nth(room, k)) = k
  <2>1. /\ Cardinality(room) \in Nat
        /\ \A r \in room : /\ Rank(room, r) \in 1 .. Cardinality(room)
                           /\ Nth(room, Rank(room, r)) = r
        /\ \A k \in 1 .. Cardinality(room) : Nth(room, k) \in room /\ Rank(room, Nth(room, k)) = k
    BY <1>3, Ranks
  <2>2. n <= Cardinality(room)  BY <1>1, <1>2
  <2>. QED  BY <1>2, <2>1, <2>2
<1>5. \A i \in DOMAIN t :
        /\ t[i].sim \in Nat /\ t[i].real \in D /\ t[i].kind \in Kinds
        /\ t[i].closeOnExec \in BOOLEAN /\ h[t[i].real] # Free
        /\ t[i].kind = "pipe" <=> PipeEnd(h[t[i].real])
  BY <1>0, HoldsIs DEF Holds
<1>. DEFINE E(i) == Entry(t[i].sim, Nth(room, i), t[i].kind,
                          t[i].closeOnExec /\ t[i].kind # "file")
<1>6. PICK u : u = [i \in DOMAIN t |-> E(i)]  OBVIOUS
<1>7. PICK g : g = [r \in DOMAIN h |-> IF r \in room /\ Rank(room, r) <= Len(t)
                                       THEN h[t[Rank(room, r)].real] ELSE h[r]]
  OBVIOUS
<1>8. c.table = u /\ c.host = g  BY <1>1, <1>6, <1>7 DEF CopyFrom
<1>9. \A i \in 1 .. n : /\ E(i) \in Ents(D) /\ E(i).sim = t[i].sim /\ E(i).real = Nth(room, i)
                        /\ E(i).kind = t[i].kind /\ E(i).real \in room
  BY <1>2, <1>3, <1>4, <1>5 DEF Ents, Entry
<1>. HIDE DEF E
<1>10. /\ u \in Seq(Ents(D)) /\ DOMAIN u = 1 .. n
       /\ \A i \in 1 .. n : /\ u[i].sim = t[i].sim /\ u[i].real = Nth(room, i)
                            /\ u[i].kind = t[i].kind /\ u[i].real \in room
  <2>1. u = [i \in 1 .. n |-> E(i)]  BY <1>2, <1>6
  <2>2. u \in [1 .. n -> Ents(D)]  BY <1>9, <2>1
  <2>. QED  BY <1>2, <1>9, <2>1, <2>2
<1>11. /\ DOMAIN g = D
       /\ \A r \in D : g[r] = IF r \in room /\ Rank(room, r) <= n
                              THEN h[t[Rank(room, r)].real] ELSE h[r]
       /\ g = [r \in D |-> g[r]]
  BY <1>2, <1>3, <1>7
<1>12. \A r \in room : Rank(room, r) <= n => Rank(room, r) \in 1 .. n  BY <1>2, <1>4
<1>13. HostOK(D, g)
  <2>1. \A r \in D : g[r] \in Objects \cup {Free}  BY <1>2, <1>3, <1>5, <1>11, <1>12
  <2>2. g \in [D -> Objects \cup {Free}]  BY <1>11, <2>1
  <2>3. ASSUME NEW r \in 0 .. 2 PROVE r \in D /\ g[r] = h[r]
    <3>1. r \in D /\ ~(r > 2)  BY <1>0 DEF HostOK
    <3>. QED  BY <1>3, <1>11, <3>1
  <2>. QED  BY <1>0, <2>2, <2>3 DEF HostOK
<1>14. \A i \in 1 .. n : g[u[i].real] = h[t[i].real]
  <2>. SUFFICES ASSUME NEW i \in 1 .. n PROVE g[u[i].real] = h[t[i].real]  OBVIOUS
  <2>1. u[i].real = Nth(room, i) /\ Nth(room, i) \in room /\ Rank(room, Nth(room, i)) = i
    BY <1>4, <1>10
  <2>2. Nth(room, i) \in D /\ i <= n  BY <1>3, <2>1
  <2>. QED  BY <1>11, <2>1, <2>2
<1>15. Distinct(u)
  <2>. SUFFICES ASSUME NEW i \in 1 .. n, NEW j \in 1 .. n,
                       u[i].sim = u[j].sim \/ u[i].real = u[j].real
                PROVE  i = j
    BY <1>10 DEF Distinct
  <2>1. CASE u[i].sim = u[j].sim  BY <1>0, <1>2, <1>10, <2>1 DEF Holds, Distinct
  <2>2. CASE u[i].real = u[j].real  BY <1>4, <1>10, <2>2
  <2>. QED  BY <2>1, <2>2
<1>16. Holds(D, u, g)
  <2>1. ASSUME NEW i \in DOMAIN u
        PROVE  /\ g[u[i].real] # Free
               /\ u[i].kind = "pipe" <=> PipeEnd(g[u[i].real])
               /\ u[i].closeOnExec => u[i].real > 2
    <3>1. i \in 1 .. n /\ i \in DOMAIN t  BY <1>2, <1>10
    <3>2. u[i].kind = t[i].kind /\ u[i].real > 2 /\ g[u[i].real] = h[t[i].real]
      BY <1>3, <1>10, <1>14, <3>1
    <3>. QED  BY <1>5, <3>1, <3>2
  <2>. QED  BY <1>10, <1>15, <2>1 DEF Holds
<1>17. Step(D, <<>>, h, u, g)
  <2>0. \A r \in D : Mine(<<>>, h, r) <=> r \in room
    <3>1. Reals(<<>>) = {}  BY DEF Reals
    <3>. QED  BY <1>3, <3>1 DEF Mine
  <2>1. \A r \in D : Mine(<<>>, h, r) \/ g[r] = h[r]  BY <1>11, <2>0
  <2>2. ASSUME NEW r \in Reals(u) PROVE Mine(<<>>, h, r)
    <3>1. PICK i \in 1 .. n : r = u[i].real  BY <1>10 DEF Reals
    <3>. QED  BY <1>3, <1>10, <2>0, <3>1
  <2>3. ASSUME NEW r \in D, PipeEnd(g[r]), Mine(<<>>, h, r) PROVE r \in Reals(u)
    <3>1. r \in room  BY <2>0, <2>3
    <3>2. Rank(room, r) <= n
      <4>. SUFFICES ASSUME ~(Rank(room, r) <= n) PROVE FALSE  OBVIOUS
      <4>1. g[r] = Free  BY <1>3, <1>11, <3>1
      <4>. QED  BY <2>3, <4>1, ObjectsAre
    <3>3. PICK k \in 1 .. n : k = Rank(room, r)  BY <1>12, <3>1, <3>2
    <3>4. u[k].real = r  BY <1>4, <1>10, <3>1, <3>3
    <3>. QED  BY <1>10, <3>4 DEF Reals
  <2>. QED  BY <1>13, <1>16, <2>1, <2>2, <2>3 DEF Step
<1>18. Numbers(u) = Numbers(t)
  BY <1>2, <1>10 DEF Numbers
<1>19. ASSUME NEW m \in 0 .. MaxNumber PROVE View(u, g)[m] = View(t, h)[m]
  <2>0. /\ \A k \in DOMAIN u : u[k].sim \in 0 .. MaxNumber => View(u, g)[u[k].sim] = g[u[k].real]
        /\ \A k \in DOMAIN t : t[k].sim \in 0 .. MaxNumber => View(t, h)[t[k].sim] = h[t[k].real]
    BY ONLY <1>0, <1>16, ViewIs
  <2>1. CASE m \notin Numbers(t)  BY <1>0, <1>16, <1>18, <2>1, ViewIs
  <2>2. CASE m \in Numbers(t)
    <3>1. PICK j \in DOMAIN t : m = t[j].sim  BY <2>2 DEF Numbers
    <3>. QED  BY <1>2, <1>10, <1>14, <2>0, <3>1
  <2>. QED  BY <2>1, <2>2
<1>. QED  BY <1>8, <1>17, <1>18, <1>19

-----------------------------------------------------------------------------
(***************************************************************************)
(* The tables of all the programs.                                         *)
(***************************************************************************)
LEMMA FilesFrame ==
  ASSUME FilesInv, NEW p \in Procs
  PROVE  /\ Frame(HostNumbers, tables[p], host)
         /\ HostNumbers \in SUBSET Nat /\ IsFiniteSet(HostNumbers)
<1>1. mix.hostFds \in Nat  BY OsAssumption DEF FilesInv
<1>2. 0 \in Int /\ mix.hostFds - 1 \in Int  BY <1>1
<1>3. IsFiniteSet(0 .. mix.hostFds - 1)  BY <1>2, FS_Interval
<1>4. HostNumbers \in SUBSET Nat /\ IsFiniteSet(HostNumbers)  BY <1>1, <1>3 DEF HostNumbers
<1>. QED  BY <1>4 DEF FilesInv, Frame

(* The entries of the others keep their descriptors.                       *)
LEMMA OthersHold ==
  ASSUME FilesInv, NEW p \in Procs, NEW q \in Procs, p # q, NEW u, NEW g,
         Step(HostNumbers, tables[p], host, u, g)
  PROVE  /\ \A i \in DOMAIN tables[q] : g[tables[q][i].real] = host[tables[q][i].real]
         /\ Holds(HostNumbers, tables[q], g)
         /\ Reals(u) \cap Reals(tables[q]) = {}
         /\ View(tables[q], g) = View(tables[q], host)
<1>1. /\ Holds(HostNumbers, tables[q], host)
      /\ Reals(tables[p]) \cap Reals(tables[q]) = {}
  BY DEF FilesInv
<1>2. \A i \in DOMAIN tables[q] : /\ tables[q][i].real \in HostNumbers
                                  /\ tables[q][i].real \in Reals(tables[q])
                                  /\ host[tables[q][i].real] # Free
                                  /\ ~Mine(tables[p], host, tables[q][i].real)
  <2>1. \A i \in DOMAIN tables[q] : /\ tables[q][i].real \in HostNumbers
                                    /\ tables[q][i].real \in Reals(tables[q])
                                    /\ host[tables[q][i].real] # Free
    BY <1>1, HoldsIs, ZenonT(60) DEF Holds, Reals
  <2>. QED  BY <1>1, <2>1 DEF Mine
<1>3. \A i \in DOMAIN tables[q] : g[tables[q][i].real] = host[tables[q][i].real]
  BY <1>2 DEF Step
<1>4. Holds(HostNumbers, tables[q], g)  BY <1>1, <1>3 DEF Holds
<1>5. Reals(u) \cap Reals(tables[q]) = {}
  <2>1. \A x \in Reals(tables[q]) : ~Mine(tables[p], host, x)  BY <1>2 DEF Reals
  <2>2. \A x \in Reals(u) : Mine(tables[p], host, x)  BY DEF Step
  <2>. QED  BY <2>1, <2>2
<1>6. View(tables[q], g) = View(tables[q], host)
  <2>1. \A n \in Numbers(tables[q]) : g[RealOf(tables[q], n)] = host[RealOf(tables[q], n)]
    <3>. SUFFICES ASSUME NEW n \in Numbers(tables[q])
                  PROVE  g[RealOf(tables[q], n)] = host[RealOf(tables[q], n)]
      OBVIOUS
    <3>1. PICK i \in DOMAIN tables[q] : n = tables[q][i].sim  BY DEF Numbers
    <3>2. EntryOf(tables[q], n) = i  BY <1>1, <3>1, EntryIs
    <3>. QED  BY <1>3, <3>2 DEF RealOf
  <2>. QED  BY <2>1 DEF View
<1>. QED  BY <1>3, <1>4, <1>5, <1>6

(* A step of one program, with the live ones adjusted to it.               *)
Makes(p, u, g) ==
  /\ Step(HostNumbers, tables[p], host, u, g) /\ Bounded(u)
  /\ tables' = [tables EXCEPT ![p] = u] /\ host' = g /\ mix' = mix
  /\ live' \in (SUBSET Procs) \ {{}}
  /\ \A q \in Procs \ live' : q = p \/ q \notin live
  /\ p \in live' \/ u = <<>>

LEMMA FilesStep ==
  ASSUME FilesInv, NEW p \in Procs, NEW u, NEW g, Makes(p, u, g)
  PROVE  /\ FilesInv'
         /\ \A q \in Procs \ {p} : Views'[q] = Views[q]
         /\ Views[p] = View(tables[p], host) /\ Views'[p] = View(u, g)
<1>0. /\ Step(HostNumbers, tables[p], host, u, g) /\ Bounded(u)
      /\ tables' = [tables EXCEPT ![p] = u] /\ host' = g /\ mix' = mix
      /\ live' \in (SUBSET Procs) \ {{}}
      /\ \A q \in Procs \ live' : q = p \/ q \notin live
      /\ p \in live' \/ u = <<>>
  BY DEF Makes
<1>1. HostNumbers' = HostNumbers  BY <1>0 DEF HostNumbers
<1>2. tables = [q \in Procs |-> tables[q]]  BY DEF FilesInv
<1>3. /\ tables'[p] = u /\ tables' = [q \in Procs |-> tables'[q]]
      /\ \A q \in Procs \ {p} : tables'[q] = tables[q]
  BY <1>0, <1>2
<1>4. ASSUME NEW q \in Procs, p # q
      PROVE  /\ Holds(HostNumbers, tables[q], g)
             /\ Reals(u) \cap Reals(tables[q]) = {}
             /\ View(tables[q], g) = View(tables[q], host)
  <2>1. Step(HostNumbers, tables[p], host, u, g)  BY <1>0
  <2>. QED  BY ONLY FilesInv, p \in Procs, q \in Procs, <1>4, <2>1, OthersHold
<1>5. \A q \in Procs : Holds(HostNumbers, tables'[q], g)
  BY <1>0, <1>3, <1>4 DEF Step
<1>6. \A q \in Procs : Bounded(tables'[q])
  BY <1>0, <1>3 DEF FilesInv
<1>7. \A q \in Procs \ live' : tables'[q] = <<>>
  BY <1>0, <1>3 DEF FilesInv
<1>8. \A q, r \in Procs : q # r => Reals(tables'[q]) \cap Reals(tables'[r]) = {}
  <2>. SUFFICES ASSUME NEW q \in Procs, NEW r \in Procs, q # r
                PROVE  Reals(tables'[q]) \cap Reals(tables'[r]) = {}
    OBVIOUS
  <2>1. CASE q # p /\ r # p  BY <1>3, <2>1 DEF FilesInv
  <2>2. CASE q = p  BY <1>3, <1>4, <2>2
  <2>3. CASE r = p  BY <1>3, <1>4, <2>3
  <2>. QED  BY <2>1, <2>2, <2>3
<1>9. ASSUME NEW r \in HostNumbers, PipeEnd(g[r]) PROVE \E q \in Procs : r \in Reals(tables'[q])
  <2>1. CASE Mine(tables[p], host, r)  BY <1>0, <1>3, <1>9, <2>1 DEF Step
  <2>2. CASE ~Mine(tables[p], host, r)
    <3>1. g[r] = host[r]  BY <1>0, <2>2 DEF Step
    <3>2. PICK q \in Procs : r \in Reals(tables[q])  BY <1>9, <3>1 DEF FilesInv
    <3>3. q # p  BY <2>2, <3>2 DEF Mine
    <3>. QED  BY <1>3, <3>2, <3>3
  <2>. QED  BY <2>1, <2>2
<1>10. HostOK(HostNumbers, g)  BY <1>0 DEF Step
<1>11. mix' \in Mixes  BY <1>0 DEF FilesInv
<1>12. FilesInv'
  BY <1>0, <1>1, <1>3, <1>5, <1>6, <1>7, <1>8, <1>9, <1>10, <1>11 DEF FilesInv
<1>13. \A q \in Procs : /\ Views[q] = View(tables[q], host)
                        /\ Views'[q] = View(tables'[q], g)
  BY <1>0 DEF Views
<1>. QED  BY <1>3, <1>4, <1>12, <1>13

LEMMA FilesStay ==
  ASSUME FilesInv, UNCHANGED <<mix, live, tables, host>>
  PROVE  FilesInv' /\ Views' = Views
<1>1. HostNumbers' = HostNumbers  BY DEF HostNumbers
<1>2. Views' = Views  BY DEF Views
<1>3. FilesInv'  BY <1>1 DEF FilesInv, Bounded
<1>. QED  BY <1>2, <1>3

LEMMA SomeOf ==
  ASSUME NEW S, NEW T, NEW x \in S, \A y \in S : y \in T
  PROVE  S \in (SUBSET T) \ {{}}
<1>1. S # {}  OBVIOUS
<1>2. S \in SUBSET T  OBVIOUS
<1>. QED  BY <1>1, <1>2

LEMMA FilesInit ==
  ASSUME Init
  PROVE  FilesInv /\ DescriptorsOf!DInit
<1>0. /\ mix \in Mixes /\ live = {First}
      /\ tables = [q \in Procs |-> IF q = First THEN StartTable ELSE <<>>]
      /\ host = [r \in 0 .. mix.hostFds - 1 |-> IF r <= 2 THEN Std[r + 1] ELSE Free]
  BY DEF Init
<1>1. First \in Procs  BY OsAssumption DEF First
<1>2. mix.hostFds \in Nat /\ mix.hostFds >= 3 /\ MaxNumber \in Nat /\ MaxNumber >= 2
  BY <1>0, OsAssumption
<1>3. HostOK(HostNumbers, host) /\ \A r \in HostNumbers : ~PipeEnd(host[r])
  <2>1. \A r \in 0 .. 2 : r + 1 \in 1 .. 3 /\ r <= 2 /\ r \in HostNumbers
    BY <1>2 DEF HostNumbers
  <2>2. \A r \in HostNumbers : r <= 2 => r \in 0 .. 2  BY <1>2 DEF HostNumbers
  <2>3. host = [r \in HostNumbers |-> host[r]]  BY <1>0 DEF HostNumbers
  <2>4. \A r \in HostNumbers : host[r] = IF r <= 2 THEN Std[r + 1] ELSE Free
    BY <1>0 DEF HostNumbers
  <2>5. \A i \in 1 .. 3 : Std[i] \in Objects /\ ~PipeEnd(Std[i])  BY ObjectsAre
  <2>6. Free \notin Objects /\ ~PipeEnd(Free)  BY ObjectsAre
  <2>7. \A r \in HostNumbers : host[r] \in Objects \cup {Free} /\ ~PipeEnd(host[r])
    BY <2>1, <2>2, <2>4, <2>5, <2>6
  <2>8. \A r \in 0 .. 2 : host[r] # Free  BY <2>1, <2>4, <2>5, <2>6
  <2>9. host \in [HostNumbers -> Objects \cup {Free}]  BY <2>3, <2>7
  <2>. QED  BY <2>1, <2>7, <2>8, <2>9 DEF HostOK
<1>4. /\ StartTable \in Seq(Ents(HostNumbers)) /\ DOMAIN StartTable = 1 .. 3
      /\ \A i \in 1 .. 3 : /\ StartTable[i].sim = i - 1 /\ StartTable[i].real = i - 1
                           /\ StartTable[i].kind = "stdio" /\ StartTable[i].closeOnExec = FALSE
  <2>. DEFINE E(i) == Entry(i - 1, i - 1, "stdio", FALSE)
  <2>1. \A i \in 1 .. 3 : /\ E(i) \in Ents(HostNumbers) /\ E(i).sim = i - 1 /\ E(i).real = i - 1
                          /\ E(i).kind = "stdio" /\ E(i).closeOnExec = FALSE
    BY <1>2 DEF Entry, Ents, HostNumbers, Kinds
  <2>2. StartTable = [i \in 1 .. 3 |-> E(i)]  BY DEF StartTable
  <2>. HIDE DEF E
  <2>3. StartTable \in [1 .. 3 -> Ents(HostNumbers)]  BY <2>1, <2>2
  <2>4. StartTable \in Seq(Ents(HostNumbers))  BY <2>3, 3 \in Nat
  <2>. QED  BY <2>1, <2>2, <2>4
<1>5. Holds(HostNumbers, StartTable, host)
  <2>1. Distinct(StartTable)  BY <1>4 DEF Distinct
  <2>2. \A i \in 1 .. 3 : i - 1 \in 0 .. 2  OBVIOUS
  <2>3. \A i \in 1 .. 3 : host[i - 1] # Free /\ ~PipeEnd(host[i - 1])
    BY <1>3, <2>2 DEF HostOK
  <2>. QED  BY <1>4, <2>1, <2>3 DEF Holds
<1>6. Holds(HostNumbers, <<>>, host) /\ Bounded(<<>>) /\ Reals(<<>>) = {} /\ Numbers(<<>>) = {}
  <2>1. <<>> \in Seq(Ents(HostNumbers)) /\ DOMAIN <<>> = {}  OBVIOUS
  <2>. QED  BY <2>1 DEF Holds, Distinct, Bounded, Reals, Numbers
<1>7. Bounded(StartTable)  BY <1>2, <1>4 DEF Bounded, Numbers
<1>8. /\ tables = [q \in Procs |-> tables[q]] /\ tables[First] = StartTable
      /\ \A q \in Procs : q # First => tables[q] = <<>>
  BY <1>0, <1>1
<1>9. FilesInv
  <2>1. \A q \in Procs : Holds(HostNumbers, tables[q], host) /\ Bounded(tables[q])
    BY <1>5, <1>6, <1>7, <1>8
  <2>2. \A q \in Procs \ live : tables[q] = <<>>  BY <1>0, <1>8
  <2>3. \A q, r \in Procs : q # r => Reals(tables[q]) \cap Reals(tables[r]) = {}
    BY <1>6, <1>8
  <2>4. live \in (SUBSET Procs) \ {{}}
    <3>1. First \in live /\ \A q \in live : q \in Procs  BY <1>0, <1>1
    <3>. QED  BY <3>1, SomeOf
  <2>. QED  BY <1>0, <1>3, <1>8, <2>1, <2>2, <2>3, <2>4 DEF FilesInv
<1>10. \A q \in Procs : Views[q] = View(tables[q], host)  BY DEF Views
<1>11. Views[First] \in [0 .. MaxNumber -> Objects \cup {Closed}]
  <2>1. PICK v : v = View(StartTable, host)  OBVIOUS
  <2>2. v = [n \in 0 .. MaxNumber |-> v[n]]  BY <2>1 DEF View
  <2>3. ASSUME NEW n \in 0 .. MaxNumber PROVE v[n] \in Objects \cup {Closed}
    <3>1. CASE n \notin Numbers(StartTable)  BY <1>5, <2>1, <3>1, ViewIs
    <3>2. CASE n \in Numbers(StartTable)
      <4>1. PICK i \in 1 .. 3 : n = StartTable[i].sim /\ StartTable[i].real = i - 1
        BY <1>4, <3>2 DEF Numbers
      <4>2. v[n] = host[i - 1]
        <5>1. \A k \in DOMAIN StartTable : StartTable[k].sim \in 0 .. MaxNumber =>
                View(StartTable, host)[StartTable[k].sim] = host[StartTable[k].real]
          BY ONLY <1>5, ViewIs
        <5>. QED  BY <1>4, <2>1, <4>1, <5>1
      <4>3. i - 1 \in 0 .. 2  OBVIOUS
      <4>4. i - 1 \in HostNumbers /\ host[i - 1] # Free /\ host[i - 1] \in Objects \cup {Free}
        BY <1>3, <4>3 DEF HostOK
      <4>. QED  BY <4>2, <4>4
    <3>. QED  BY <3>1, <3>2
  <2>4. v \in [0 .. MaxNumber -> Objects \cup {Closed}]  BY <2>2, <2>3
  <2>. QED  BY <1>1, <1>8, <1>10, <2>1, <2>4
<1>12. \A q \in Procs \ {First} : DescriptorsOf!Open(Views[q]) = {}
  <2>1. \A n \in 0 .. MaxNumber : View(<<>>, host)[n] = Closed  BY <1>6 DEF View
  <2>. QED  BY <1>8, <1>10, <2>1 DEF DescriptorsOf!Open, DescriptorsOf!DNumbers
<1>13. DescriptorsOf!DInit
  BY <1>1, <1>11, <1>12 DEF DescriptorsOf!DInit, DescriptorsOf!DNumbers
<1>. QED  BY <1>9, <1>13

(***************************************************************************)
(* Every call keeps the invariant, and is a step of Descriptors or leaves  *)
(* the views alone.                                                        *)
(***************************************************************************)
FilesStepped == FilesInv' /\ (DescriptorsOf!DNext \/ Views' = Views)

LEMMA SteppedIs ==
  ASSUME FilesInv, NEW p \in Procs, NEW u, NEW g, Makes(p, u, g),
         NEW d, NEW e, d = View(tables[p], host), e = View(u, g),
         DescriptorsOf!Call(p, d, e) \/ DescriptorsOf!Inherits(p, e)
  PROVE  FilesStepped
<1>1. /\ FilesInv'
      /\ \A q \in Procs \ {p} : Views'[q] = Views[q]
      /\ Views[p] = d /\ Views'[p] = e
  BY FilesStep
<1>2. DescriptorsOf!Call(p, Views[p], Views'[p]) \/ DescriptorsOf!Inherits(p, Views'[p])
  BY <1>1
<1>3. DescriptorsOf!DNext  BY <1>1, <1>2 DEF DescriptorsOf!DNext
<1>. QED  BY <1>1, <1>3 DEF FilesStepped

LEMMA ViewFacts ==
  ASSUME FilesInv, NEW p \in Procs
  PROVE  /\ \A n \in Numbers(tables[p]) : /\ n \in 0 .. MaxNumber
                                          /\ View(tables[p], host)[n] \in Objects
         /\ \A n \in 0 .. MaxNumber :
              View(tables[p], host)[n] # Closed <=> n \in Numbers(tables[p])
<1>1. /\ Frame(HostNumbers, tables[p], host) /\ Bounded(tables[p])
      /\ Holds(HostNumbers, tables[p], host) /\ HostOK(HostNumbers, host)
  BY FilesFrame DEF FilesInv
<1>2. ASSUME NEW n \in Numbers(tables[p])
      PROVE  n \in 0 .. MaxNumber /\ View(tables[p], host)[n] \in Objects
  <2>1. PICK i \in DOMAIN tables[p] : n = tables[p][i].sim  BY DEF Numbers
  <2>2. n \in Nat /\ n <= MaxNumber  BY <1>1, <2>1, HoldsIs DEF Bounded
  <2>3. n \in 0 .. MaxNumber  BY <2>2, OsAssumption
  <2>4. \A k \in DOMAIN tables[p] : tables[p][k].sim \in 0 .. MaxNumber =>
          View(tables[p], host)[tables[p][k].sim] = host[tables[p][k].real]
    BY ONLY <1>1, ViewIs
  <2>5. tables[p][i].real \in HostNumbers /\ host[tables[p][i].real] # Free
    BY <1>1, HoldsIs DEF Holds
  <2>. QED  BY <1>1, <2>1, <2>3, <2>4, <2>5 DEF HostOK
<1>3. \A n \in 0 .. MaxNumber : n \notin Numbers(tables[p]) => View(tables[p], host)[n] = Closed
  BY <1>1, ViewIs
<1>. QED  BY <1>2, <1>3, ObjectsAre

(* SetFiles as a step.                                                     *)
LEMMA FilesSet ==
  ASSUME FilesInv, NEW p \in live, NEW r, SetFiles(p, r), mix' = mix,
         Step(HostNumbers, tables[p], host, r.table, r.host)
  PROVE  p \in Procs /\ Makes(p, r.table, r.host)
<1>1. p \in Procs /\ live \in (SUBSET Procs) \ {{}}  BY DEF FilesInv
<1>2. /\ Bounded(r.table) /\ tables' = [tables EXCEPT ![p] = r.table]
      /\ host' = r.host /\ live' = live
  BY DEF SetFiles
<1>3. \A q \in Procs \ live' : q = p \/ q \notin live  BY <1>2
<1>. QED  BY <1>1, <1>2, <1>3 DEF Makes

LEMMA OpenCallSteps ==
  ASSUME FilesInv, NEW p \in Procs, OpenCall(p)
  PROVE  FilesStepped
<1>1. p \in live /\ mix' = mix /\ Cardinality(Room(host)) >= 1
  BY DEF OpenCall, Does, HasRoom
<1>2. PICK f \in Files :
        SetFiles(p, Opener(tables[p], host, <<"file", f>>, LowestFree(tables[p])))
  BY DEF OpenCall
<1>3. PICK c : c = Opener(tables[p], host, <<"file", f>>, LowestFree(tables[p]))  OBVIOUS
<1>4. PICK n : n = LowestFree(tables[p])  OBVIOUS
<1>5. Frame(HostNumbers, tables[p], host)  BY FilesFrame
<1>6. /\ Step(HostNumbers, tables[p], host, c.table, c.host)
      /\ \A m \in 0 .. MaxNumber :
           View(c.table, c.host)[m] = IF m = n THEN <<"file", f>> ELSE View(tables[p], host)[m]
      /\ n \in Numbers(c.table)
  BY <1>1, <1>3, <1>4, <1>5, OpenerStep
<1>7. SetFiles(p, c)  BY <1>2, <1>3
<1>8. Makes(p, c.table, c.host)  BY <1>1, <1>6, <1>7, FilesSet
<1>9. n \in Nat \ Numbers(tables[p]) /\ \A m \in 0 .. n - 1 : m \in Numbers(tables[p])
  BY <1>4, <1>5, LowestIs DEF Frame
<1>10. n \in 0 .. MaxNumber
  <2>1. n <= MaxNumber  BY <1>6, <1>7 DEF SetFiles, Bounded
  <2>. QED  BY <1>9, <2>1, OsAssumption
<1>11. PICK d : d = View(tables[p], host)  OBVIOUS
<1>12. PICK e : e = View(c.table, c.host)  OBVIOUS
<1>13. /\ d[n] = Closed /\ \A m \in 0 .. n - 1 : d[m] # Closed
       /\ e[n] = <<"file", f>> /\ \A m \in 0 .. MaxNumber : m # n => e[m] = d[m]
  <2>1. \A m \in 0 .. n - 1 : m \in 0 .. MaxNumber  BY <1>10, OsAssumption
  <2>. QED  BY <1>6, <1>9, <1>10, <1>11, <1>12, <2>1, ViewFacts
<1>14. DescriptorsOf!Call(p, d, e)
  BY <1>10, <1>13, ObjectsAre
  DEF DescriptorsOf!Call, DescriptorsOf!OpensLowest, DescriptorsOf!IsLowest,
      DescriptorsOf!Others, DescriptorsOf!DNumbers
<1>. QED  BY <1>8, <1>11, <1>12, <1>14, SteppedIs

LEMMA DupCallSteps ==
  ASSUME FilesInv, NEW p \in Procs, DupCall(p)
  PROVE  FilesStepped
<1>1. p \in live /\ mix' = mix /\ Cardinality(Room(host)) >= 1
  BY DEF DupCall, Does, HasRoom
<1>2. PICK old \in Numbers(tables[p]) : SetFiles(p, Duper(tables[p], host, old))
  BY DEF DupCall, OpenNumbers
<1>3. PICK c : c = Duper(tables[p], host, old)  OBVIOUS
<1>4. PICK n : n = LowestFree(tables[p])  OBVIOUS
<1>5. Frame(HostNumbers, tables[p], host)  BY FilesFrame
<1>6. n \in Nat \ Numbers(tables[p]) /\ \A m \in 0 .. n - 1 : m \in Numbers(tables[p])
  BY <1>4, <1>5, LowestIs DEF Frame
<1>7. Copies(HostNumbers, tables[p], host, old, n, c)
  BY <1>1, <1>3, <1>4, <1>5, <1>6 DEF Copies, Duper
<1>8. /\ Step(HostNumbers, tables[p], host, c.table, c.host)
      /\ Numbers(c.table) = Numbers(tables[p]) \cup {n}
      /\ \E o \in Objects :
           /\ old \in 0 .. MaxNumber => o = View(tables[p], host)[old]
           /\ \A m \in 0 .. MaxNumber :
                View(c.table, c.host)[m] = IF m = n THEN o ELSE View(tables[p], host)[m]
  BY <1>7, CopiedStep
<1>9. SetFiles(p, c)  BY <1>2, <1>3
<1>10. Makes(p, c.table, c.host)  BY <1>1, <1>8, <1>9, FilesSet
<1>11. n \in 0 .. MaxNumber
  <2>1. n <= MaxNumber  BY <1>8, <1>9 DEF SetFiles, Bounded
  <2>. QED  BY <1>6, <2>1, OsAssumption
<1>12. PICK d : d = View(tables[p], host)  OBVIOUS
<1>13. PICK e : e = View(c.table, c.host)  OBVIOUS
<1>14. /\ d[n] = Closed /\ \A m \in 0 .. n - 1 : d[m] # Closed
       /\ e[n] \in Objects /\ \A m \in 0 .. MaxNumber : m # n => e[m] = d[m]
  <2>1. \A m \in 0 .. n - 1 : m \in 0 .. MaxNumber  BY <1>11, OsAssumption
  <2>. QED  BY <1>6, <1>8, <1>11, <1>12, <1>13, <2>1, ViewFacts
<1>15. DescriptorsOf!Call(p, d, e)
  BY <1>11, <1>14
  DEF DescriptorsOf!Call, DescriptorsOf!OpensLowest, DescriptorsOf!IsLowest,
      DescriptorsOf!Others, DescriptorsOf!DNumbers
<1>. QED  BY <1>10, <1>12, <1>13, <1>15, SteppedIs

LEMMA CloseCallSteps ==
  ASSUME FilesInv, NEW p \in Procs, CloseCall(p)
  PROVE  FilesStepped
<1>1. p \in live /\ mix' = mix  BY DEF CloseCall, Does
<1>2. PICK n \in Numbers(tables[p]) : SetFiles(p, Closer(tables[p], host, n))
  BY DEF CloseCall, OpenNumbers
<1>3. PICK c : c = Closer(tables[p], host, n)  OBVIOUS
<1>4. Frame(HostNumbers, tables[p], host)  BY FilesFrame
<1>5. /\ Step(HostNumbers, tables[p], host, c.table, c.host)
      /\ \A m \in 0 .. MaxNumber :
           View(c.table, c.host)[m] = IF m = n THEN Closed ELSE View(tables[p], host)[m]
  BY <1>3, <1>4, Dropped
<1>6. SetFiles(p, c)  BY <1>2, <1>3
<1>7. Makes(p, c.table, c.host)  BY <1>1, <1>5, <1>6, FilesSet
<1>8. PICK d : d = View(tables[p], host)  OBVIOUS
<1>9. PICK e : e = View(c.table, c.host)  OBVIOUS
<1>10. DescriptorsOf!Call(p, d, e)
  BY <1>5, <1>8, <1>9
  DEF DescriptorsOf!Call, DescriptorsOf!Closes, DescriptorsOf!DNumbers
<1>. QED  BY <1>7, <1>8, <1>9, <1>10, SteppedIs

LEMMA Dup2CallSteps ==
  ASSUME FilesInv, NEW p \in Procs, Dup2Call(p)
  PROVE  FilesStepped
<1>1. p \in live /\ mix' = mix /\ Cardinality(Room(host)) >= 1
  BY DEF Dup2Call, Does, HasRoom
<1>2. PICK old \in Numbers(tables[p]), new \in Numbers(tables[p]) :
        old # new /\ SetFiles(p, Dup2(tables[p], host, old, new))
  BY DEF Dup2Call, OpenNumbers
<1>3. PICK c : c = Dup2(tables[p], host, old, new)  OBVIOUS
<1>4. Frame(HostNumbers, tables[p], host)  BY FilesFrame
<1>5. old \in 0 .. MaxNumber /\ new \in 0 .. MaxNumber  BY ViewFacts
<1>6. /\ Step(HostNumbers, tables[p], host, c.table, c.host)
      /\ \A m \in 0 .. MaxNumber :
           View(c.table, c.host)[m] = IF m = new THEN View(tables[p], host)[old]
                                      ELSE View(tables[p], host)[m]
  BY <1>1, <1>2, <1>3, <1>4, <1>5, Dup2Step
<1>7. SetFiles(p, c)  BY <1>2, <1>3
<1>8. Makes(p, c.table, c.host)  BY <1>1, <1>6, <1>7, FilesSet
<1>9. PICK d : d = View(tables[p], host)  OBVIOUS
<1>10. PICK e : e = View(c.table, c.host)  OBVIOUS
<1>11. d[old] # Closed  BY <1>5, <1>9, ViewFacts
<1>12. e[new] = d[old] /\ \A m \in 0 .. MaxNumber : m # new => e[m] = d[m]
  BY <1>5, <1>6, <1>9, <1>10
<1>13. DescriptorsOf!Redirects(d, e)
  BY <1>5, <1>11, <1>12
  DEF DescriptorsOf!Redirects, DescriptorsOf!Others, DescriptorsOf!Open,
      DescriptorsOf!DNumbers
<1>14. DescriptorsOf!Call(p, d, e)  BY <1>13 DEF DescriptorsOf!Call
<1>. QED  BY <1>8, <1>9, <1>10, <1>14, SteppedIs

LEMMA SetFdCallSteps ==
  ASSUME FilesInv, NEW p \in Procs, SetFdCall(p)
  PROVE  FilesStepped
<1>1. p \in live /\ mix' = mix  BY DEF SetFdCall, Does
<1>2. PICK n \in Numbers(tables[p]) :
        /\ RealOf(tables[p], n) > 2
        /\ SetFiles(p, [table |-> SetCloseOnExec(tables[p], n), host |-> host])
  BY DEF SetFdCall, OpenNumbers, MayMark
<1>3. PICK u : u = SetCloseOnExec(tables[p], n)  OBVIOUS
<1>4. PICK r : r = [table |-> u, host |-> host]  OBVIOUS
<1>5. Frame(HostNumbers, tables[p], host)  BY FilesFrame
<1>6. /\ Step(HostNumbers, tables[p], host, u, host)
      /\ \A m \in 0 .. MaxNumber : View(u, host)[m] = View(tables[p], host)[m]
  BY <1>2, <1>3, <1>5, SetFdStep
<1>7. SetFiles(p, r) /\ r.table = u /\ r.host = host  BY <1>2, <1>3, <1>4
<1>8. Makes(p, u, host)  BY <1>1, <1>6, <1>7, FilesSet
<1>9. PICK d : d = View(tables[p], host)  OBVIOUS
<1>10. PICK e : e = View(u, host)  OBVIOUS
<1>11. DescriptorsOf!Call(p, d, e)
  BY <1>6, <1>9, <1>10
  DEF DescriptorsOf!Call, DescriptorsOf!Closes, DescriptorsOf!DNumbers
<1>. QED  BY <1>8, <1>9, <1>10, <1>11, SteppedIs

LEMMA PipeMadeSteps ==
  ASSUME FilesInv, NEW p \in Procs, PipeMade(p)
  PROVE  FilesStepped
<1>1. p \in live /\ mix' = mix /\ Cardinality(Room(host)) >= 2
  BY DEF PipeMade, Does, HasRoom
<1>2. PICK pipe \in Pipes :
        /\ \A r \in DOMAIN host : host[r] \notin {<<"read", pipe>>, <<"write", pipe>>}
        /\ SetFiles(p, PipeCall(tables[p], host, pipe))
  BY DEF PipeMade
<1>3. PICK c : c = PipeCall(tables[p], host, pipe)  OBVIOUS
<1>4. Frame(HostNumbers, tables[p], host)  BY FilesFrame
<1>5. PICK d : d = View(tables[p], host)  OBVIOUS
<1>6. PICK e : e = View(c.table, c.host)  OBVIOUS
<1>7. PICK o : o = <<"read", pipe>>  OBVIOUS
<1>8. PICK k : k = <<"write", pipe>>  OBVIOUS
<1>9. /\ Step(HostNumbers, tables[p], host, c.table, c.host)
      /\ \E m, n \in Numbers(c.table) \ Numbers(tables[p]) :
           /\ m # n
           /\ \A x \in 0 .. MaxNumber :
                View(c.table, c.host)[x] = IF x = m THEN <<"read", pipe>>
                                           ELSE IF x = n THEN <<"write", pipe>>
                                           ELSE View(tables[p], host)[x]
  BY <1>1, <1>3, <1>4, PipeStep
<1>10. PICK m \in Numbers(c.table) \ Numbers(tables[p]),
            n \in Numbers(c.table) \ Numbers(tables[p]) :
         /\ m # n
         /\ \A x \in 0 .. MaxNumber : e[x] = IF x = m THEN o ELSE IF x = n THEN k ELSE d[x]
  BY <1>5, <1>6, <1>7, <1>8, <1>9
<1>11. SetFiles(p, c)  BY <1>2, <1>3
<1>12. Makes(p, c.table, c.host)  BY <1>1, <1>9, <1>11, FilesSet
<1>13. m \in 0 .. MaxNumber /\ n \in 0 .. MaxNumber
  <2>1. Numbers(c.table) \in SUBSET Nat
    <3>1. Frame(HostNumbers, c.table, c.host)  BY <1>4, <1>9, FrameStep
    <3>. QED  BY <3>1, NumbersAre DEF Frame
  <2>2. \A x \in Numbers(c.table) : x <= MaxNumber  BY <1>11 DEF SetFiles, Bounded
  <2>. QED  BY <1>10, <2>1, <2>2, OsAssumption
<1>14. /\ o \in Objects /\ k \in Objects /\ o # k /\ o # Closed /\ k # Closed
  BY <1>7, <1>8, ObjectsAre
<1>15. d[m] = Closed /\ d[n] = Closed /\ e[m] = o /\ e[n] = k
       /\ \A x \in (0 .. MaxNumber) \ {m, n} : e[x] = d[x]
  BY <1>5, <1>10, <1>13, ViewFacts
<1>16. ASSUME NEW q \in Procs, NEW x \in 0 .. MaxNumber PROVE Views[q][x] \notin {o, k}
  <2>0. Views[q] = View(tables[q], host) /\ Holds(HostNumbers, tables[q], host)
    BY DEF Views, FilesInv
  <2>1. CASE x \notin Numbers(tables[q])  BY <1>14, <2>0, <2>1, ViewIs
  <2>2. CASE x \in Numbers(tables[q])
    <3>1. PICK i \in DOMAIN tables[q] : x = tables[q][i].sim  BY <2>2 DEF Numbers
    <3>2. \A j \in DOMAIN tables[q] : tables[q][j].sim \in 0 .. MaxNumber =>
            View(tables[q], host)[tables[q][j].sim] = host[tables[q][j].real]
      BY ONLY <2>0, ViewIs
    <3>3. tables[q][i].real \in DOMAIN host
      <4>1. DOMAIN host = HostNumbers  BY DEF FilesInv, HostOK
      <4>. QED  BY <2>0, <4>1, HoldsIs
    <3>. QED  BY <1>2, <1>7, <1>8, <2>0, <3>1, <3>2, <3>3
  <2>. QED  BY <2>1, <2>2
<1>17. PICK inUse : inUse = UNION {{Views[q][x] : x \in 0 .. MaxNumber} : q \in Procs}  OBVIOUS
<1>18. o \notin inUse /\ k \notin inUse  BY <1>16, <1>17
<1>19. DescriptorsOf!MakesPipe(d, e, inUse)
  BY <1>10, <1>13, <1>14, <1>15, <1>18
  DEF DescriptorsOf!MakesPipe, DescriptorsOf!Others, DescriptorsOf!Open,
      DescriptorsOf!DNumbers
<1>20. DescriptorsOf!Call(p, d, e)
  BY <1>17, <1>19 DEF DescriptorsOf!Call, DescriptorsOf!DNumbers
<1>. QED  BY <1>5, <1>6, <1>12, <1>20, SteppedIs

LEMMA ForkCallSteps ==
  ASSUME FilesInv, NEW p \in Procs, ForkCall(p)
  PROVE  FilesStepped
<1>1. PICK c : c = CopyFrom(tables[p], host)  OBVIOUS
<1>2. PICK child \in Procs \ live :
        /\ live' = live \cup {child}
        /\ tables' = [tables EXCEPT ![child] = c.table]
        /\ host' = c.host
  BY <1>1 DEF ForkCall
<1>3. mix' = mix /\ Cardinality(Room(host)) >= Len(tables[p])
  BY DEF ForkCall, Does, HasRoom
<1>4. Frame(HostNumbers, tables[p], host)  BY FilesFrame
<1>5. /\ Step(HostNumbers, <<>>, host, c.table, c.host)
      /\ Numbers(c.table) = Numbers(tables[p])
      /\ \A m \in 0 .. MaxNumber : View(c.table, c.host)[m] = View(tables[p], host)[m]
  BY <1>1, <1>3, <1>4, CopyFromStep
<1>6. tables[child] = <<>> /\ live \in (SUBSET Procs) \ {{}} /\ Bounded(tables[p])
  BY DEF FilesInv
<1>7. Makes(child, c.table, c.host)
  <2>1. Bounded(c.table)  BY <1>5, <1>6 DEF Bounded
  <2>2. live' \in (SUBSET Procs) \ {{}}
    <3>1. child \in live' /\ \A q \in live' : q \in Procs  BY <1>2, <1>6
    <3>. QED  BY <3>1, SomeOf
  <2>3. \A q \in Procs \ live' : q = child \/ q \notin live  BY <1>2
  <2>. QED  BY <1>2, <1>3, <1>5, <1>6, <2>1, <2>2, <2>3 DEF Makes
<1>8. PICK d : d = View(tables[child], host)  OBVIOUS
<1>9. PICK e : e = View(c.table, c.host)  OBVIOUS
<1>10. e = Views[p]
  <2>1. PICK v : v = View(tables[p], host)  OBVIOUS
  <2>2. v = [n \in 0 .. MaxNumber |-> v[n]] /\ e = [n \in 0 .. MaxNumber |-> e[n]]
    BY <1>9, <2>1 DEF View
  <2>3. \A n \in 0 .. MaxNumber : e[n] = v[n]  BY <1>5, <1>9, <2>1
  <2>4. e = v  BY <2>2, <2>3
  <2>. QED  BY <2>1, <2>4 DEF Views
<1>11. DescriptorsOf!Inherits(child, e)
  <2>1. Numbers(tables[child]) = {}  BY <1>6 DEF Numbers
  <2>2. \A n \in 0 .. MaxNumber : Views[child][n] = Closed
    BY <2>1 DEF Views, View
  <2>. QED  BY <1>10, <2>2
       DEF DescriptorsOf!Inherits, DescriptorsOf!Open, DescriptorsOf!DNumbers
<1>. QED  BY <1>7, <1>8, <1>9, <1>11, SteppedIs

LEMMA ExecCallSteps ==
  ASSUME FilesInv, NEW p \in Procs, ExecCall(p)
  PROVE  FilesStepped
<1>1. PICK c : c = HandleCloexec(tables[p], host)  OBVIOUS
<1>2. /\ p \in live /\ mix' = mix /\ live' = live
      /\ tables' = [tables EXCEPT ![p] = c.table] /\ host' = c.host
  BY <1>1 DEF ExecCall, Does
<1>3. Frame(HostNumbers, tables[p], host)  BY FilesFrame
<1>4. /\ Step(HostNumbers, tables[p], host, c.table, c.host)
      /\ Numbers(c.table) \in SUBSET Numbers(tables[p])
      /\ \A m \in 0 .. MaxNumber :
           View(c.table, c.host)[m] \in {View(tables[p], host)[m], Closed}
  BY <1>1, <1>3, CloexecStep
<1>5. Makes(p, c.table, c.host)
  <2>1. Bounded(tables[p]) /\ live \in (SUBSET Procs) \ {{}}  BY DEF FilesInv
  <2>2. Bounded(c.table)  BY <1>4, <2>1 DEF Bounded
  <2>3. \A q \in Procs \ live' : q = p \/ q \notin live  BY <1>2
  <2>. QED  BY <1>2, <1>4, <2>1, <2>2, <2>3 DEF Makes
<1>6. PICK d : d = View(tables[p], host)  OBVIOUS
<1>7. PICK e : e = View(c.table, c.host)  OBVIOUS
<1>8. DescriptorsOf!Call(p, d, e)
  BY <1>4, <1>6, <1>7
  DEF DescriptorsOf!Call, DescriptorsOf!Closes, DescriptorsOf!DNumbers
<1>. QED  BY <1>5, <1>6, <1>7, <1>8, SteppedIs

LEMMA ExitCallSteps ==
  ASSUME FilesInv, NEW p \in Procs, ExitCall(p)
  PROVE  FilesStepped
<1>1. PICK g : g = Closeall(tables[p], host)  OBVIOUS
<1>2. PICK u : u = <<>>  OBVIOUS
<1>3. /\ p \in live /\ live # {p} /\ mix' = mix /\ live' = live \ {p}
      /\ tables' = [tables EXCEPT ![p] = u] /\ host' = g
  BY <1>1, <1>2 DEF ExitCall, Does
<1>4. Frame(HostNumbers, tables[p], host)  BY FilesFrame
<1>5. Step(HostNumbers, tables[p], host, u, g)  BY <1>1, <1>2, <1>4, CloseallStep
<1>6. Numbers(u) = {}  BY <1>2 DEF Numbers
<1>7. Makes(p, u, g)
  <2>1. live \in (SUBSET Procs) \ {{}}  BY DEF FilesInv
  <2>2. live' \in (SUBSET Procs) \ {{}}
    <3>1. \A q \in live' : q \in Procs  BY <1>3, <2>1
    <3>2. \E q \in live' : TRUE  BY <1>3
    <3>. QED  BY <3>1, <3>2, SomeOf
  <2>3. Bounded(u)  BY <1>6 DEF Bounded
  <2>4. \A q \in Procs \ live' : q = p \/ q \notin live  BY <1>3
  <2>. QED  BY <1>2, <1>3, <1>5, <2>2, <2>3, <2>4 DEF Makes
<1>8. PICK d : d = View(tables[p], host)  OBVIOUS
<1>9. PICK e : e = View(u, g)  OBVIOUS
<1>10. \A n \in 0 .. MaxNumber : e[n] = Closed  BY <1>6, <1>9 DEF View
<1>11. DescriptorsOf!Call(p, d, e)
  BY <1>10 DEF DescriptorsOf!Call, DescriptorsOf!Closes, DescriptorsOf!DNumbers
<1>. QED  BY <1>7, <1>8, <1>9, <1>11, SteppedIs

LEMMA MemoryCallsStep ==
  ASSUME FilesInv, NEW p \in Procs,
         \/ Load(p) \/ Store(p) \/ MapFixed(p) \/ MapAtHint(p) \/ MapAnon(p)
         \/ MapAnonFails(p) \/ MapOnHost(p) \/ UnmapCall(p) \/ ExecFails(p)
  PROVE  FilesStepped
<1>1. UNCHANGED <<mix, live, tables, host>>
  BY DEF Load, Store, MapFixed, MapAtHint, MapAnon, MapAnonFails, MapOnHost, UnmapCall,
         ExecFails, Does, SetSpace, fileVars
<1>. QED  BY <1>1, FilesStay DEF FilesStepped

LEMMA FilesNext ==
  ASSUME FilesInv, [Next]_vars
  PROVE  FilesStepped
<1>1. CASE UNCHANGED vars  BY <1>1, FilesStay DEF FilesStepped, vars
<1>2. CASE Next
  <2>1. PICK p \in Procs :
          \/ OpenCall(p) \/ CloseCall(p) \/ DupCall(p) \/ Dup2Call(p)
          \/ PipeMade(p) \/ SetFdCall(p)
          \/ Load(p) \/ Store(p) \/ MapFixed(p) \/ MapAtHint(p) \/ MapAnon(p)
          \/ MapAnonFails(p) \/ MapOnHost(p) \/ UnmapCall(p)
          \/ ForkCall(p) \/ ExecCall(p) \/ ExecFails(p) \/ ExitCall(p)
    BY <1>2 DEF Next
  <2>. QED  BY <2>1, OpenCallSteps, CloseCallSteps, DupCallSteps, Dup2CallSteps,
                PipeMadeSteps, SetFdCallSteps, ForkCallSteps, ExecCallSteps, ExitCallSteps,
                MemoryCallsStep
<1>. QED  BY <1>1, <1>2

(* The tables and the host's descriptors implement what the calls promise: *)
(* for any programs, calls and numbers of descriptors.                     *)
THEOREM DescriptorsKept == Spec => ImplementsDescriptors
<1>1. Init => FilesInv /\ DescriptorsOf!DInit  BY FilesInit
<1>2. FilesInv /\ [Next]_vars => FilesInv' /\ [DescriptorsOf!DNext]_Views
  BY FilesNext DEF FilesStepped
<1>. QED  BY <1>1, <1>2, PTL DEF Spec, ImplementsDescriptors, DescriptorsOf!DSpec

-----------------------------------------------------------------------------
(***************************************************************************)
(* Pages and addresses.                                                    *)
(***************************************************************************)
LEMMA Division ==
  ASSUME NEW a \in Nat, NEW p \in Nat \ {0}
  PROVE  /\ a \div p \in Nat /\ a % p \in 0 .. p - 1
         /\ a = p * (a \div p) + (a % p)
OBVIOUS

LEMMA Grows ==
  ASSUME NEW p \in Nat \ {0}, NEW d \in Nat \ {0}
  PROVE  p * d \in Nat /\ p * d >= p
OBVIOUS

LEMMA OneQuotient ==
  ASSUME NEW p \in Nat \ {0}, NEW q \in Int, NEW k \in Int,
         NEW r \in 0 .. p - 1, NEW s \in 0 .. p - 1, p * q + r = p * k + s
  PROVE  q = k /\ r = s
<1>1. ASSUME q > k PROVE FALSE
  <2>1. q - k \in Nat \ {0}  BY <1>1
  <2>2. p * (q - k) \in Nat /\ p * (q - k) >= p  BY <2>1, Grows
  <2>3. p * (q - k) = p * q - p * k  OBVIOUS
  <2>. QED  BY <2>2, <2>3
<1>2. ASSUME q < k PROVE FALSE
  <2>1. k - q \in Nat \ {0}  BY <1>2
  <2>2. p * (k - q) \in Nat /\ p * (k - q) >= p  BY <2>1, Grows
  <2>3. p * (k - q) = p * k - p * q  OBVIOUS
  <2>. QED  BY <2>2, <2>3
<1>. QED  BY <1>1, <1>2

LEMMA QuotientIs ==
  ASSUME NEW p \in Nat \ {0}, NEW q \in Nat, NEW r \in 0 .. p - 1, NEW a, a = p * q + r
  PROVE  a \in Nat /\ a \div p = q /\ a % p = r
<1>1. p * q \in Nat /\ a \in Nat  OBVIOUS
<1>2. PICK k \in Nat : k = a \div p  BY <1>1, Division
<1>3. PICK s \in 0 .. p - 1 : s = a % p  BY <1>1, Division
<1>4. a = p * k + s  BY <1>1, <1>2, <1>3, Division
<1>5. q = k /\ r = s  BY <1>4, OneQuotient
<1>. QED  BY <1>1, <1>2, <1>3, <1>5

LEMMA AlignedIs ==
  ASSUME NEW a \in Nat
  PROVE  Aligned(a) <=> \E q \in Nat : a = PageWords * q
<1>1. ASSUME Aligned(a) PROVE \E q \in Nat : a = PageWords * q
  <2>1. a % PageWords = 0  BY <1>1 DEF Aligned, Offset
  <2>2. PICK q \in Nat : q = a \div PageWords  BY Division, PageAssumption
  <2>3. a = PageWords * q + 0  BY <2>1, <2>2, Division, PageAssumption
  <2>4. PageWords * q \in Nat  BY PageAssumption
  <2>. QED  BY <2>3, <2>4
<1>2. ASSUME NEW q \in Nat, a = PageWords * q PROVE Aligned(a)
  <2>1. 0 \in 0 .. PageWords - 1 /\ PageWords * q \in Nat  BY PageAssumption
  <2>2. a = PageWords * q + 0  BY <1>2, <2>1
  <2>3. a % PageWords = 0  BY <2>1, <2>2, QuotientIs, PageAssumption
  <2>. QED  BY <2>3 DEF Aligned, Offset
<1>. QED  BY <1>1, <1>2

LEMMA AlignedSums ==
  ASSUME NEW a \in Nat, Aligned(a)
  PROVE  /\ \A k \in Nat : a + k * PageWords \in Nat /\ Aligned(a + k * PageWords)
         /\ \A b \in Nat : Aligned(b) /\ b <= a => (a - b) % PageWords = 0
         /\ \A b \in Nat : Aligned(b) /\ b < a => b + PageWords <= a
         /\ \A b \in Nat : b >= a /\ (b - a) % PageWords = 0 => Aligned(b)
<1>0. PageWords \in Nat \ {0}  BY PageAssumption
<1>1. PICK q \in Nat : a = PageWords * q  BY AlignedIs
<1>2. ASSUME NEW k \in Nat PROVE a + k * PageWords \in Nat /\ Aligned(a + k * PageWords)
  <2>1. a + k * PageWords = PageWords * (q + k)  BY <1>0, <1>1
  <2>2. q + k \in Nat /\ PageWords * (q + k) \in Nat  BY <1>0
  <2>. QED  BY <2>1, <2>2, AlignedIs
<1>3. ASSUME NEW b \in Nat, Aligned(b), b <= a PROVE (a - b) % PageWords = 0
  <2>1. PICK k \in Nat : b = PageWords * k  BY <1>3, AlignedIs
  <2>2. q - k \in Nat
    <3>1. ~(q < k)
      <4>1. SUFFICES ASSUME q < k PROVE FALSE  OBVIOUS
      <4>2. k - q \in Nat \ {0}  BY <4>1
      <4>3. PageWords * (k - q) >= PageWords /\ PageWords * (k - q) \in Nat
        BY <1>0, <4>2, Grows
      <4>4. PageWords * (k - q) = PageWords * k - PageWords * q  BY <1>0
      <4>. QED  BY <1>0, <1>1, <1>3, <2>1, <4>3, <4>4
    <3>. QED  BY <3>1
  <2>3. a - b = PageWords * (q - k) + 0  BY <1>0, <1>1, <2>1
  <2>4. 0 \in 0 .. PageWords - 1  BY <1>0
  <2>. QED  BY <1>0, <2>2, <2>3, <2>4, QuotientIs
<1>4. ASSUME NEW b \in Nat, Aligned(b), b < a PROVE b + PageWords <= a
  <2>1. PICK k \in Nat : b = PageWords * k  BY <1>4, AlignedIs
  <2>2. q - k \in Nat \ {0}
    <3>1. ~(q < k)
      <4>1. SUFFICES ASSUME q < k PROVE FALSE  OBVIOUS
      <4>2. k - q \in Nat \ {0}  BY <4>1
      <4>3. PageWords * (k - q) >= PageWords /\ PageWords * (k - q) \in Nat
        BY <1>0, <4>2, Grows
      <4>4. PageWords * (k - q) = PageWords * k - PageWords * q  BY <1>0
      <4>. QED  BY <1>0, <1>1, <1>4, <2>1, <4>3, <4>4
    <3>2. q # k  BY <1>1, <1>4, <2>1
    <3>. QED  BY <3>1, <3>2
  <2>3. PageWords * (q - k) >= PageWords  BY <1>0, <2>2, Grows
  <2>4. PageWords * (q - k) = PageWords * q - PageWords * k  BY <1>0
  <2>. QED  BY <1>0, <1>1, <2>1, <2>3, <2>4
<1>5. ASSUME NEW b \in Nat, b >= a, (b - a) % PageWords = 0 PROVE Aligned(b)
  <2>1. b - a \in Nat  BY <1>5
  <2>2. PICK d \in Nat : d = b - a  BY <2>1
  <2>3. PICK k \in Nat : k = d \div PageWords  BY <1>0, Division
  <2>4. d = PageWords * k + 0  BY <1>0, <1>5, <2>2, <2>3, Division
  <2>5. PageWords * k \in Nat /\ PageWords * q \in Nat  BY <1>0
  <2>6. b = PageWords * (q + k)  BY <1>0, <1>1, <2>2, <2>4, <2>5
  <2>7. q + k \in Nat  OBVIOUS
  <2>. QED  BY <2>6, <2>7, AlignedIs
<1>. QED  BY <1>2, <1>3, <1>4, <1>5

LEMMA RoundedUpIs ==
  ASSUME NEW a \in Nat
  PROVE  /\ RoundedUp(a) \in Nat /\ Aligned(RoundedUp(a))
         /\ a <= RoundedUp(a) /\ RoundedUp(a) <= a + PageWords - 1
<1>0. PageWords \in Nat \ {0}  BY PageAssumption
<1>1. PICK n \in Nat : n = a + PageWords - 1  BY <1>0
<1>2. PICK q \in Nat : q = n \div PageWords  BY <1>0, Division
<1>3. PICK r \in 0 .. PageWords - 1 : r = n % PageWords  BY <1>0, Division
<1>4. n = PageWords * q + r  BY <1>0, <1>2, <1>3, Division
<1>5. RoundedUp(a) = q * PageWords  BY <1>1, <1>2 DEF RoundedUp
<1>6. q * PageWords = PageWords * q /\ PageWords * q \in Nat  BY <1>0
<1>7. Aligned(RoundedUp(a))  BY <1>5, <1>6, AlignedIs
<1>. QED  BY <1>0, <1>1, <1>3, <1>4, <1>5, <1>6, <1>7

(* The first word of the page of a word.                                   *)
PageStart(a) == a - (a % PageWords)

LEMMA PageStartIs ==
  ASSUME NEW a \in Nat
  PROVE  /\ PageStart(a) \in Nat /\ Aligned(PageStart(a)) /\ PageStart(a) <= a
         /\ \A b \in Nat : Aligned(b) /\ b <= a => b <= PageStart(a)
<1>0. PageWords \in Nat \ {0}  BY PageAssumption
<1>1. PICK q \in Nat : q = a \div PageWords  BY <1>0, Division
<1>2. PICK r \in 0 .. PageWords - 1 : r = a % PageWords  BY <1>0, Division
<1>3. a = PageWords * q + r /\ PageWords * q \in Nat  BY <1>0, <1>1, <1>2, Division
<1>4. PageStart(a) = PageWords * q  BY <1>0, <1>2, <1>3 DEF PageStart
<1>5. PageStart(a) \in Nat /\ Aligned(PageStart(a))  BY <1>3, <1>4, AlignedIs
<1>6. ASSUME NEW b \in Nat, Aligned(b), b <= a PROVE b <= PageStart(a)
  <2>1. SUFFICES ASSUME PageStart(a) < b PROVE FALSE  BY <1>5
  <2>2. PageStart(a) + PageWords <= b  BY <1>5, <1>6, <2>1, AlignedSums
  <2>. QED  BY <1>0, <1>2, <1>3, <1>4, <1>6, <2>2
<1>. QED  BY <1>0, <1>2, <1>3, <1>4, <1>5, <1>6

(* Bucket, tag and offset make up the address.                             *)
LEMMA AddressIs ==
  ASSUME NEW a \in Nat
  PROVE  /\ Bucket(a) \in BucketNumbers /\ Tag(a) \in Nat /\ Offset(a) \in 0 .. PageWords - 1
         /\ PageBase(Bucket(a), Tag(a)) = PageStart(a)
         /\ a = PageBase(Bucket(a), Tag(a)) + Offset(a)
<1>0. PageWords \in Nat \ {0} /\ Buckets \in Nat \ {0}  BY PageAssumption
<1>1. PICK q \in Nat : q = a \div PageWords  BY <1>0, Division
<1>2. PICK o \in 0 .. PageWords - 1 : o = a % PageWords  BY <1>0, Division
<1>3. a = PageWords * q + o /\ PageWords * q \in Nat  BY <1>0, <1>1, <1>2, Division
<1>4. PICK k \in Nat : k = q \div Buckets  BY <1>0, Division
<1>5. PICK b \in 0 .. Buckets - 1 : b = q % Buckets  BY <1>0, Division
<1>6. q = Buckets * k + b  BY <1>0, <1>4, <1>5, Division
<1>7. PICK n \in Nat \ {0} : n = PageWords * Buckets
  <2>1. PageWords * Buckets \in Nat /\ PageWords * Buckets >= PageWords  BY <1>0, Grows
  <2>. QED  BY <1>0, <2>1
<1>8. PageWords * b + o \in 0 .. n - 1
  <2>1. PageWords * b \in Nat  BY <1>0
  <2>2. Buckets - b \in Nat \ {0}  BY <1>0
  <2>3. PageWords * (Buckets - b) >= PageWords  BY <1>0, <2>2, Grows
  <2>4. PageWords * (Buckets - b) = n - PageWords * b  BY <1>0, <1>7
  <2>. QED  BY <1>0, <2>1, <2>3, <2>4
<1>9. a = n * k + (PageWords * b + o)
  <2>1. PageWords * (Buckets * k + b) = (PageWords * Buckets) * k + PageWords * b  BY <1>0
  <2>2. n * k \in Nat /\ PageWords * b \in Nat  BY <1>0
  <2>. QED  BY <1>3, <1>6, <1>7, <2>1, <2>2
<1>10. a \div n = k  BY <1>8, <1>9, QuotientIs
<1>11. Bucket(a) = b /\ Tag(a) = k /\ Offset(a) = o
  BY <1>1, <1>2, <1>5, <1>7, <1>10 DEF Bucket, Tag, Offset
<1>12. PageBase(b, k) = PageWords * q
  <2>1. (k * Buckets + b) * PageWords = PageWords * (Buckets * k + b)  BY <1>0
  <2>. QED  BY <1>6, <2>1 DEF PageBase
<1>13. PageStart(a) = PageWords * q  BY <1>0, <1>2, <1>3 DEF PageStart
<1>. QED  BY <1>0, <1>3, <1>11, <1>12, <1>13 DEF BucketNumbers

LEMMA SamePlace ==
  ASSUME NEW a \in Nat, NEW c \in Nat,
         Bucket(a) = Bucket(c), Tag(a) = Tag(c), Offset(a) = Offset(c)
  PROVE  a = c
<1>1. PICK b : b = Bucket(a) /\ b = Bucket(c)  OBVIOUS
<1>2. PICK t : t = Tag(a) /\ t = Tag(c)  OBVIOUS
<1>3. PICK o : o = Offset(a) /\ o = Offset(c)  OBVIOUS
<1>4. a = PageBase(b, t) + o  BY <1>1, <1>2, <1>3, AddressIs
<1>5. c = PageBase(b, t) + o  BY <1>1, <1>2, <1>3, AddressIs
<1>. QED  BY <1>4, <1>5

-----------------------------------------------------------------------------
(***************************************************************************)
(* The list of pages of a bucket.                                          *)
(***************************************************************************)
ListOK(l) == l \in Seq(Ptes) /\ TagsOnce(l)

Tags(l) == {l[i].tag : i \in DOMAIN l}

Offsets == 0 .. PageWords - 1

Lookup(l, t) == SelectInSeq(l, LAMBDA pte : pte.tag = t)

\* The word at an offset of the page with a tag
Paged(l, t, o) == IF Lookup(l, t) # 0 THEN l[Lookup(l, t)].page[o] ELSE Zero

LEMMA PteIs ==
  ASSUME NEW l, ListOK(l)
  PROVE  /\ Len(l) \in Nat /\ DOMAIN l = 1 .. Len(l)
         /\ \A i \in DOMAIN l : /\ l[i] \in Ptes /\ l[i].tag \in Nat /\ l[i].tag \in Tags(l)
                                /\ l[i] = [tag |-> l[i].tag, page |-> l[i].page]
                                /\ l[i].page \in [Offsets -> Word]
         /\ \A i, j \in DOMAIN l : l[i].tag = l[j].tag => i = j
         /\ \A t \in Tags(l) : \E i \in DOMAIN l : t = l[i].tag
<1>1. Len(l) \in Nat /\ DOMAIN l = 1 .. Len(l) /\ \A i \in DOMAIN l : l[i] \in Ptes
  BY SeqIs DEF ListOK
<1>. QED  BY <1>1 DEF Ptes, Offsets, Tags, ListOK, TagsOnce

LEMMA LookupIs ==
  ASSUME NEW l, ListOK(l), NEW t
  PROVE  /\ \A i \in DOMAIN l : l[i].tag = t => Lookup(l, t) = i
         /\ t \in Tags(l) => Lookup(l, t) \in DOMAIN l /\ l[Lookup(l, t)].tag = t
         /\ t \notin Tags(l) => Lookup(l, t) = 0
<1>. DEFINE I == {i \in 1 .. Len(l) : l[i].tag = t}
<1>1. Lookup(l, t) = IF I # {} THEN Min(I) ELSE 0  BY DEF Lookup, SelectInSeq
<1>2. Len(l) \in Nat /\ DOMAIN l = 1 .. Len(l)  BY PteIs
<1>3. ASSUME NEW i \in DOMAIN l, l[i].tag = t PROVE Lookup(l, t) = i
  <2>1. I = {i}  BY <1>2, <1>3, PteIs
  <2>2. {i} \in SUBSET Nat /\ {i} # {}  BY <1>2
  <2>3. Min({i}) = i  BY <2>2, MinIs
  <2>. QED  BY <1>1, <2>1, <2>2, <2>3
<1>4. ASSUME t \in Tags(l) PROVE Lookup(l, t) \in DOMAIN l /\ l[Lookup(l, t)].tag = t
  <2>1. PICK i \in DOMAIN l : t = l[i].tag  BY <1>4 DEF Tags
  <2>. QED  BY <1>3, <2>1
<1>5. ASSUME t \notin Tags(l) PROVE Lookup(l, t) = 0
  <2>1. I = {}  BY <1>2, <1>5 DEF Tags
  <2>. QED  BY <1>1, <2>1
<1>. QED  BY <1>3, <1>4, <1>5

LEMMA PagedIs ==
  ASSUME NEW l, ListOK(l), NEW t
  PROVE  /\ \A i \in DOMAIN l, o \in Offsets : l[i].tag = t => Paged(l, t, o) = l[i].page[o]
         /\ t \notin Tags(l) => \A o \in Offsets : Paged(l, t, o) = Zero
         /\ \A o \in Offsets : Paged(l, t, o) \in Word
<1>1. ASSUME NEW i \in DOMAIN l, NEW o \in Offsets, l[i].tag = t
      PROVE  Paged(l, t, o) = l[i].page[o] /\ Paged(l, t, o) \in Word
  <2>1. Lookup(l, t) = i  BY <1>1, LookupIs
  <2>2. i # 0 /\ l[i].page[o] \in Word  BY PteIs
  <2>. QED  BY <2>1, <2>2 DEF Paged
<1>2. ASSUME t \notin Tags(l), NEW o \in Offsets PROVE Paged(l, t, o) = Zero
  BY <1>2, LookupIs DEF Paged
<1>3. Zero \in Word  BY DEF Zero, Word
<1>4. \A o \in Offsets : Paged(l, t, o) \in Word
  <2>1. CASE t \in Tags(l)
    <3>1. PICK i \in DOMAIN l : l[i].tag = t  BY <2>1 DEF Tags
    <3>. QED  BY <1>1, <3>1
  <2>2. CASE t \notin Tags(l)  BY <1>2, <1>3, <2>2
  <2>. QED  BY <2>1, <2>2
<1>. QED  BY <1>1, <1>2, <1>4

(* The same pages in another order, or some of them.                       *)
LEMMA PartList ==
  ASSUME NEW l, ListOK(l), NEW S \in SUBSET DOMAIN l, NEW r \in Seq(Ptes), Part(r, l, S)
  PROVE  /\ ListOK(r)
         /\ Tags(r) = {l[i].tag : i \in S}
         /\ \A t \in Tags(r), o \in Offsets : Paged(r, t, o) = Paged(l, t, o)
<1>1. PICK f \in [DOMAIN r -> S] :
        /\ \A k \in DOMAIN r : r[k] = l[f[k]]
        /\ \A j, k \in DOMAIN r : f[j] = f[k] => j = k
        /\ \A i \in S : \E k \in DOMAIN r : f[k] = i
  BY DEF Part
<1>2. \A k \in DOMAIN r : f[k] \in S /\ f[k] \in DOMAIN l  BY <1>1
<1>3. ListOK(r)
  <2>1. \A j, k \in DOMAIN r : r[j].tag = r[k].tag => j = k
    <3>. SUFFICES ASSUME NEW j \in DOMAIN r, NEW k \in DOMAIN r, r[j].tag = r[k].tag
                  PROVE  j = k
      OBVIOUS
    <3>1. l[f[j]].tag = l[f[k]].tag  BY <1>1
    <3>2. f[j] = f[k]  BY <1>2, <3>1, PteIs
    <3>. QED  BY <1>1, <3>2
  <2>. QED  BY <2>1 DEF ListOK, TagsOnce
<1>4. Tags(r) = {l[i].tag : i \in S}
  <2>1. \A t \in Tags(r) : \E i \in S : t = l[i].tag  BY <1>1, <1>2 DEF Tags
  <2>2. \A i \in S : l[i].tag \in Tags(r)
    <3>. SUFFICES ASSUME NEW i \in S PROVE l[i].tag \in Tags(r)  OBVIOUS
    <3>1. PICK k \in DOMAIN r : f[k] = i  BY <1>1
    <3>2. r[k].tag = l[i].tag  BY <1>1, <3>1
    <3>. QED  BY <3>2 DEF Tags
  <2>. QED  BY <2>1, <2>2
<1>5. ASSUME NEW t \in Tags(r), NEW o \in Offsets PROVE Paged(r, t, o) = Paged(l, t, o)
  <2>1. PICK k \in DOMAIN r : r[k].tag = t  BY DEF Tags
  <2>2. r[k] = l[f[k]] /\ f[k] \in DOMAIN l  BY <1>1, <1>2
  <2>3. Paged(r, t, o) = r[k].page[o]  BY <1>3, <2>1, PagedIs
  <2>4. Paged(l, t, o) = l[f[k]].page[o]  BY <2>1, <2>2, PagedIs
  <2>. QED  BY <2>2, <2>3, <2>4
<1>. QED  BY <1>3, <1>4, <1>5

(* A page found further down moves to the front.                           *)
SamePages(l, r) == \A t, o : o \in Offsets => Paged(r, t, o) = Paged(l, t, o)

Fronts(l, i, r) == ListOK(l) /\ i \in DOMAIN l /\ r = <<l[i]>> \o RemoveAt(l, i)

LEMMA FrontList ==
  ASSUME NEW l, NEW i, NEW r, Fronts(l, i, r)
  PROVE  /\ ListOK(r) /\ Tags(r) = Tags(l) /\ SamePages(l, r)
         /\ 1 \in DOMAIN r /\ r[1] = l[i]
<1>. ListOK(l) /\ i \in DOMAIN l /\ r = <<l[i]>> \o RemoveAt(l, i)  BY DEF Fronts
<1>1. l \in Seq(Ptes)  BY DEF ListOK
<1>2. r \in Seq(Ptes) /\ Len(r) = Len(l) /\ r[1] = l[i] /\ Part(r, l, DOMAIN l)
  <2>1. \A j \in DOMAIN l : \A q : q = <<l[j]>> \o RemoveAt(l, j) =>
          q \in Seq(Ptes) /\ Len(q) = Len(l) /\ q[1] = l[j] /\ Part(q, l, DOMAIN l)
    BY ONLY <1>1, ToFrontIs
  <2>. QED  BY <2>1, Zenon
<1>3. /\ ListOK(r) /\ Tags(r) = Tags(l)
      /\ \A t \in Tags(r), o \in Offsets : Paged(r, t, o) = Paged(l, t, o)
  <2>1. PICK S : S = DOMAIN l  OBVIOUS
  <2>2. S \in SUBSET DOMAIN l /\ Part(r, l, S) /\ r \in Seq(Ptes)  BY <1>2, <2>1
  <2>3. /\ ListOK(r) /\ Tags(r) = {l[k].tag : k \in S}
        /\ \A t \in Tags(r), o \in Offsets : Paged(r, t, o) = Paged(l, t, o)
    BY <2>2, PartList
  <2>. QED  BY <2>1, <2>3 DEF Tags
<1>4. \A t, o : t \notin Tags(l) /\ o \in Offsets => Paged(r, t, o) = Paged(l, t, o)
  BY <1>3, PagedIs
<1>5. 1 \in DOMAIN r  BY <1>2, <1>3, PteIs
<1>. QED  BY <1>2, <1>3, <1>4, <1>5 DEF SamePages

(* A new page is put in front.                                             *)
PutsNew(l, t, r) ==
  /\ ListOK(l) /\ t \in Nat \ Tags(l)
  /\ r = <<[tag |-> t, page |-> [o \in 0 .. (PageWords - 1) |-> Zero]]>> \o l

LEMMA NewList ==
  ASSUME NEW l, NEW t, NEW r, PutsNew(l, t, r)
  PROVE  /\ ListOK(r) /\ Tags(r) = Tags(l) \cup {t} /\ SamePages(l, r)
         /\ 1 \in DOMAIN r /\ r[1].tag = t
<1>. /\ ListOK(l) /\ t \in Nat /\ t \notin Tags(l)
     /\ r = <<[tag |-> t, page |-> [o \in 0 .. (PageWords - 1) |-> Zero]]>> \o l
  BY DEF PutsNew
<1>1. PICK e : e = [tag |-> t, page |-> [o \in 0 .. (PageWords - 1) |-> Zero]]  OBVIOUS
<1>2. e \in Ptes /\ e.tag = t /\ \A o \in Offsets : e.page[o] = Zero
  BY <1>1 DEF Ptes, Zero, Word, Offsets
<1>3. r = <<e>> \o l  BY <1>1
<1>4. l \in Seq(Ptes) /\ Len(l) \in Nat /\ DOMAIN l = 1 .. Len(l)  BY PteIs DEF ListOK
<1>5. /\ r \in Seq(Ptes) /\ Len(r) = Len(l) + 1 /\ DOMAIN r = 1 .. Len(l) + 1
      /\ r[1] = e /\ \A k \in 1 .. Len(l) : r[k + 1] = l[k]
  <2>1. \A x \in Ptes : r = <<x>> \o l =>
          /\ r \in Seq(Ptes) /\ Len(r) = Len(l) + 1 /\ DOMAIN r = 1 .. Len(l) + 1
          /\ r[1] = x /\ \A k \in 1 .. Len(l) : r[k + 1] = l[k]
    BY ONLY <1>4, ConsIs
  <2>. QED  BY <1>2, <1>3, <2>1, Zenon
<1>6. ASSUME NEW k \in DOMAIN r
      PROVE  \/ k = 1 /\ r[k] = e
             \/ k # 1 /\ k - 1 \in DOMAIN l /\ r[k] = l[k - 1]
  <2>1. CASE k = 1  BY <1>5, <2>1
  <2>2. CASE k # 1
    <3>1. k - 1 \in 1 .. Len(l) /\ k - 1 + 1 = k  BY <1>4, <1>5, <2>2
    <3>2. r[k - 1 + 1] = l[k - 1]  BY <1>5, <3>1
    <3>. QED  BY <1>4, <2>2, <3>1, <3>2
  <2>. QED  BY <2>1, <2>2
<1>7. \A i \in DOMAIN l : i + 1 \in DOMAIN r /\ r[i + 1] = l[i]  BY <1>4, <1>5
<1>8. 1 \in DOMAIN r  BY <1>4, <1>5
<1>9. \A i \in DOMAIN l : l[i].tag # t  BY DEF Tags
<1>10. ListOK(r)
  <2>1. ASSUME NEW j \in DOMAIN r, NEW k \in DOMAIN r, r[j].tag = r[k].tag PROVE j = k
    <3>1. CASE j = 1 \/ k = 1  BY <1>2, <1>6, <1>9, <2>1, <3>1
    <3>2. CASE j # 1 /\ k # 1
      <4>1. /\ j - 1 \in DOMAIN l /\ k - 1 \in DOMAIN l
            /\ l[j - 1].tag = l[k - 1].tag
        BY <1>6, <2>1, <3>2
      <4>2. j - 1 = k - 1  BY <4>1, PteIs
      <4>. QED  BY <1>5, <4>2
    <3>. QED  BY <3>1, <3>2
  <2>. QED  BY <1>5, <2>1 DEF ListOK, TagsOnce
<1>11. Tags(r) = Tags(l) \cup {t}
  <2>1. \A u \in Tags(r) : u \in Tags(l) \cup {t}
    <3>. SUFFICES ASSUME NEW k \in DOMAIN r PROVE r[k].tag \in Tags(l) \cup {t}  BY DEF Tags
    <3>. QED  BY <1>2, <1>6 DEF Tags
  <2>2. t \in Tags(r)  BY <1>2, <1>5, <1>8 DEF Tags
  <2>3. \A i \in DOMAIN l : l[i].tag \in Tags(r)  BY <1>7 DEF Tags
  <2>4. \A u \in Tags(l) : u \in Tags(r)  BY <2>3 DEF Tags
  <2>. QED  BY <2>1, <2>2, <2>4
<1>12. ASSUME NEW u, NEW o \in Offsets PROVE Paged(r, u, o) = Paged(l, u, o)
  <2>1. CASE u = t
    <3>0. \A j \in DOMAIN r, m \in Offsets : r[j].tag = u => Paged(r, u, m) = r[j].page[m]
      BY ONLY <1>10, PagedIs
    <3>1. Paged(r, u, o) = e.page[o]  BY <1>2, <1>5, <1>8, <2>1, <3>0, ZenonT(60)
    <3>2. Paged(l, u, o) = Zero  BY <2>1, PagedIs
    <3>. QED  BY <1>2, <3>1, <3>2
  <2>2. CASE u # t /\ u \notin Tags(l)  BY <1>10, <1>11, <2>2, PagedIs
  <2>3. CASE u \in Tags(l)
    <3>1. PICK i \in DOMAIN l : l[i].tag = u  BY <2>3 DEF Tags
    <3>2. Paged(l, u, o) = l[i].page[o]  BY <3>1, PagedIs, ZenonT(60)
    <3>0. \A j \in DOMAIN r, m \in Offsets : r[j].tag = u => Paged(r, u, m) = r[j].page[m]
      BY ONLY <1>10, PagedIs
    <3>3. Paged(r, u, o) = r[i + 1].page[o]  BY <1>7, <3>0, <3>1
    <3>. QED  BY <1>7, <3>2, <3>3
  <2>. QED  BY <2>1, <2>2, <2>3
<1>. QED  BY <1>2, <1>5, <1>8, <1>10, <1>11, <1>12 DEF SamePages

(* A word of the page in front is written.                                 *)
PutsWord(l, o, v, r) ==
  /\ ListOK(l) /\ 1 \in DOMAIN l /\ o \in Offsets /\ v \in Word
  /\ r = [l EXCEPT ![1].page[o] = v]

LEMMA StoredList ==
  ASSUME NEW l, NEW o, NEW v, NEW r, PutsWord(l, o, v, r)
  PROVE  /\ ListOK(r) /\ Tags(r) = Tags(l)
         /\ \A u, n : n \in Offsets =>
              Paged(r, u, n) = IF u = l[1].tag /\ n = o THEN v ELSE Paged(l, u, n)
<1>. /\ ListOK(l) /\ 1 \in DOMAIN l /\ o \in Offsets /\ v \in Word
     /\ r = [l EXCEPT ![1].page[o] = v]
  BY DEF PutsWord
<1>1. /\ Len(l) \in Nat /\ DOMAIN l = 1 .. Len(l)
      /\ \A i \in DOMAIN l : l[i] \in Ptes
      /\ l[1] = [tag |-> l[1].tag, page |-> l[1].page]
      /\ l[1].tag \in Nat /\ l[1].page \in [Offsets -> Word]
  BY PteIs
<1>2. PICK g : g = [l[1].page EXCEPT ![o] = v]  OBVIOUS
<1>3. /\ g \in [Offsets -> Word] /\ g[o] = v
      /\ \A n \in Offsets : n # o => g[n] = l[1].page[n]
  BY <1>1, <1>2
<1>4. PICK e : e = [tag |-> l[1].tag, page |-> g]  OBVIOUS
<1>5. e \in Ptes /\ e.tag = l[1].tag /\ e.page = g  BY <1>1, <1>3, <1>4 DEF Ptes, Offsets
<1>6. r = [l EXCEPT ![1] = e]
  <2>1. [l[1] EXCEPT !.page[o] = v] = e  BY <1>1, <1>2, <1>4
  <2>. QED  BY <2>1
<1>7. /\ DOMAIN r = 1 .. Len(l) /\ r[1] = e /\ \A i \in DOMAIN l : i # 1 => r[i] = l[i]
      /\ r = [i \in 1 .. Len(l) |-> r[i]]
  BY <1>1, <1>6
<1>8. r \in Seq(Ptes)
  <2>1. \A i \in 1 .. Len(l) : r[i] \in Ptes  BY <1>1, <1>5, <1>7
  <2>2. r \in [1 .. Len(l) -> Ptes]  BY <1>7, <2>1
  <2>. QED  BY <1>1, <2>2
<1>9. \A i \in DOMAIN l : r[i].tag = l[i].tag  BY <1>5, <1>7
<1>10. ListOK(r)
  <2>1. \A i, j \in DOMAIN r : r[i].tag = r[j].tag => i = j  BY <1>1, <1>7, <1>9, PteIs
  <2>. QED  BY <1>8, <2>1 DEF ListOK, TagsOnce
<1>11. Tags(r) = Tags(l)  BY <1>1, <1>7, <1>9 DEF Tags
<1>12. ASSUME NEW u, NEW n \in Offsets
       PROVE  Paged(r, u, n) = IF u = l[1].tag /\ n = o THEN v ELSE Paged(l, u, n)
  <2>1. CASE u \notin Tags(l)
    <3>1. u # l[1].tag  BY <2>1, PteIs
    <3>. QED  BY <1>10, <1>11, <2>1, <3>1, PagedIs
  <2>2. CASE u \in Tags(l)
    <3>1. PICK i \in DOMAIN l : l[i].tag = u  BY <2>2 DEF Tags
    <3>2. Paged(l, u, n) = l[i].page[n]  BY <3>1, PagedIs
    <3>0. \A j \in DOMAIN r, m \in Offsets : r[j].tag = u => Paged(r, u, m) = r[j].page[m]
      BY ONLY <1>10, PagedIs
    <3>3. Paged(r, u, n) = r[i].page[n]  BY <1>1, <1>7, <1>9, <3>0, <3>1, ZenonT(60)
    <3>4. CASE i = 1  BY <1>3, <1>5, <1>7, <3>1, <3>2, <3>3, <3>4
    <3>5. CASE i # 1
      <4>1. u # l[1].tag  BY <3>1, <3>5, PteIs
      <4>. QED  BY <1>7, <3>2, <3>3, <3>5, <4>1
    <3>. QED  BY <3>4, <3>5
  <2>. QED  BY <2>1, <2>2
<1>. QED  BY <1>10, <1>11, <1>12

-----------------------------------------------------------------------------
(***************************************************************************)
(* The page table.                                                         *)
(***************************************************************************)
LEMMA PagesAre ==
  ASSUME NEW ptab \in [BucketNumbers -> Seq(Ptes)]
  PROVE  /\ DOMAIN ptab = BucketNumbers
         /\ \A b \in BucketNumbers : \A t : t \in Tags(ptab[b]) <=> <<b, t>> \in Pages(ptab)
         /\ \A g \in Pages(ptab) :
              \E b, t : b \in BucketNumbers /\ t \in Tags(ptab[b]) /\ g = <<b, t>>
<1>1. DOMAIN ptab = BucketNumbers  OBVIOUS
<1>2. ASSUME NEW g \in Pages(ptab)
      PROVE  \E b, t : b \in BucketNumbers /\ t \in Tags(ptab[b]) /\ g = <<b, t>>
  <2>1. PICK b \in BucketNumbers : g \in {<<b, pte.tag>> : pte \in ToSet(ptab[b])}
    BY <1>1 DEF Pages
  <2>2. PICK i \in DOMAIN ptab[b] : g = <<b, ptab[b][i].tag>>  BY <2>1 DEF ToSet
  <2>3. ptab[b][i].tag \in Tags(ptab[b])  BY DEF Tags
  <2>. QED  BY <2>2, <2>3
<1>3. ASSUME NEW b \in BucketNumbers, NEW t \in Tags(ptab[b]) PROVE <<b, t>> \in Pages(ptab)
  <2>1. PICK i \in DOMAIN ptab[b] : t = ptab[b][i].tag  BY DEF Tags
  <2>2. ptab[b][i] \in ToSet(ptab[b])  BY DEF ToSet
  <2>3. <<b, t>> \in {<<b, pte.tag>> : pte \in ToSet(ptab[b])}  BY <2>1, <2>2
  <2>. QED  BY <1>1, <2>3 DEF Pages
<1>4. \A b \in BucketNumbers : \A t : <<b, t>> \in Pages(ptab) => t \in Tags(ptab[b])
  <2>. SUFFICES ASSUME NEW b \in BucketNumbers, NEW t, <<b, t>> \in Pages(ptab)
                PROVE  t \in Tags(ptab[b])
    OBVIOUS
  <2>1. PICK c, u : c \in BucketNumbers /\ u \in Tags(ptab[c]) /\ <<b, t>> = <<c, u>>  BY <1>2
  <2>2. b = c /\ t = u  BY <2>1
  <2>. QED  BY <2>1, <2>2
<1>. QED  BY <1>1, <1>2, <1>3, <1>4

LEMMA TableIs ==
  ASSUME NEW ptab, NEW n, PagesOK(ptab, n)
  PROVE  /\ ptab \in [BucketNumbers -> Seq(Ptes)] /\ DOMAIN ptab = BucketNumbers
         /\ \A b \in BucketNumbers : ListOK(ptab[b])
         /\ IsFiniteSet(Pages(ptab)) /\ n = Cardinality(Pages(ptab))
BY DEF PagesOK, ListOK

(* One bucket changes.                                                     *)
LEMMA BucketSet ==
  ASSUME NEW ptab, NEW n, PagesOK(ptab, n), NEW b \in BucketNumbers, NEW r, ListOK(r),
         NEW q, q = [ptab EXCEPT ![b] = r]
  PROVE  /\ DOMAIN q = BucketNumbers /\ q[b] = r
         /\ \A c \in BucketNumbers : c # b => q[c] = ptab[c]
         /\ Tags(r) = Tags(ptab[b]) => PagesOK(q, n)
         /\ \A t : t \notin Tags(ptab[b]) /\ Tags(r) = Tags(ptab[b]) \cup {t} =>
              PagesOK(q, n + 1)
<1>1. /\ ptab \in [BucketNumbers -> Seq(Ptes)] /\ DOMAIN ptab = BucketNumbers
      /\ \A c \in BucketNumbers : ListOK(ptab[c])
      /\ IsFiniteSet(Pages(ptab)) /\ n = Cardinality(Pages(ptab))
  BY TableIs
<1>2. /\ DOMAIN q = BucketNumbers /\ q[b] = r
      /\ \A c \in BucketNumbers : c # b => q[c] = ptab[c]
  BY <1>1
<1>3. q \in [BucketNumbers -> Seq(Ptes)]  BY <1>1 DEF ListOK
<1>4. \A c \in BucketNumbers : TagsOnce(q[c])  BY <1>1, <1>2 DEF ListOK
<1>5. /\ \A c \in BucketNumbers : \A t : t \in Tags(ptab[c]) <=> <<c, t>> \in Pages(ptab)
      /\ \A g \in Pages(ptab) : \E c, t : c \in BucketNumbers /\ t \in Tags(ptab[c]) /\ g = <<c, t>>
  BY <1>1, PagesAre
<1>6. /\ \A c \in BucketNumbers : \A t : t \in Tags(q[c]) <=> <<c, t>> \in Pages(q)
      /\ \A g \in Pages(q) : \E c, t : c \in BucketNumbers /\ t \in Tags(q[c]) /\ g = <<c, t>>
  BY <1>3, PagesAre
<1>7. ASSUME Tags(r) = Tags(ptab[b]) PROVE PagesOK(q, n)
  <2>1. \A c \in BucketNumbers : Tags(q[c]) = Tags(ptab[c])  BY <1>2, <1>7
  <2>2. \A g \in Pages(q) : g \in Pages(ptab)
    <3>. SUFFICES ASSUME NEW g \in Pages(q) PROVE g \in Pages(ptab)  OBVIOUS
    <3>1. PICK c, t : c \in BucketNumbers /\ t \in Tags(q[c]) /\ g = <<c, t>>  BY <1>6
    <3>. QED  BY <1>5, <2>1, <3>1
  <2>3. \A g \in Pages(ptab) : g \in Pages(q)
    <3>. SUFFICES ASSUME NEW g \in Pages(ptab) PROVE g \in Pages(q)  OBVIOUS
    <3>1. PICK c, t : c \in BucketNumbers /\ t \in Tags(ptab[c]) /\ g = <<c, t>>  BY <1>5
    <3>. QED  BY <1>6, <2>1, <3>1
  <2>4. Pages(q) = Pages(ptab)  BY <2>2, <2>3
  <2>. QED  BY <1>1, <1>3, <1>4, <2>4 DEF PagesOK
<1>8. ASSUME NEW t, t \notin Tags(ptab[b]), Tags(r) = Tags(ptab[b]) \cup {t}
      PROVE  PagesOK(q, n + 1)
  <2>1. Tags(q[b]) = Tags(ptab[b]) \cup {t}  BY <1>2, <1>8
  <2>2. \A c \in BucketNumbers : c # b => Tags(q[c]) = Tags(ptab[c])  BY <1>2
  <2>3. PICK new : new = <<b, t>>  OBVIOUS
  <2>4. \A g \in Pages(q) : g \in Pages(ptab) \cup {new}
    <3>. SUFFICES ASSUME NEW g \in Pages(q) PROVE g \in Pages(ptab) \cup {new}  OBVIOUS
    <3>1. PICK c, u : c \in BucketNumbers /\ u \in Tags(q[c]) /\ g = <<c, u>>  BY <1>6
    <3>2. CASE c = b /\ u = t  BY <2>3, <3>1, <3>2
    <3>3. CASE ~(c = b /\ u = t)
      <4>1. u \in Tags(ptab[c])  BY <2>1, <2>2, <3>1, <3>3
      <4>. QED  BY <1>5, <3>1, <4>1
    <3>. QED  BY <3>2, <3>3
  <2>5. \A g \in Pages(ptab) : g \in Pages(q)
    <3>. SUFFICES ASSUME NEW g \in Pages(ptab) PROVE g \in Pages(q)  OBVIOUS
    <3>1. PICK c, u : c \in BucketNumbers /\ u \in Tags(ptab[c]) /\ g = <<c, u>>  BY <1>5
    <3>2. u \in Tags(q[c])  BY <2>1, <2>2, <3>1
    <3>. QED  BY <1>6, <3>1, <3>2
  <2>6. new \in Pages(q) /\ new \notin Pages(ptab)  BY <1>5, <1>6, <1>8, <2>1, <2>3
  <2>7. Pages(q) = Pages(ptab) \cup {new}  BY <2>4, <2>5, <2>6
  <2>8. IsFiniteSet(Pages(q)) /\ Cardinality(Pages(q)) = n + 1
    BY <1>1, <2>6, <2>7, FS_AddElement, ZenonT(60)
  <2>. QED  BY <1>3, <1>4, <2>8 DEF PagesOK
<1>. QED  BY <1>2, <1>7, <1>8

\* The word a page table holds for an address
Reads(ptab, a) == Paged(ptab[Bucket(a)], Tag(a), Offset(a))

SameWords(P, Q) == \A c \in Nat : Reads(Q, c) = Reads(P, c)

LEMMA BucketReads ==
  ASSUME NEW ptab, NEW n, PagesOK(ptab, n), NEW b \in BucketNumbers, NEW r, ListOK(r),
         NEW q, q = [ptab EXCEPT ![b] = r],
         SamePages(ptab[b], r)
  PROVE  SameWords(ptab, q)
<1>. SUFFICES ASSUME NEW c \in Nat PROVE Reads(q, c) = Reads(ptab, c)  BY DEF SameWords
<1>1. Bucket(c) \in BucketNumbers /\ Offset(c) \in Offsets  BY AddressIs DEF Offsets
<1>2. q[b] = r /\ \A k \in BucketNumbers : k # b => q[k] = ptab[k]  BY BucketSet
<1>. QED  BY <1>1, <1>2 DEF Reads, SamePages

(* The parts of a space that an access to memory may change.               *)
Touches(s, r) ==
  /\ SpaceOK(r) /\ r.memoryMap = s.memoryMap /\ r.internalMap = s.internalMap
  /\ SameWords(s.ptab, r.ptab)

InFront(s, a) ==
  1 \in DOMAIN s.ptab[Bucket(a)] /\ s.ptab[Bucket(a)][1].tag = Tag(a)

LEMMA SpaceIs ==
  ASSUME NEW s, SpaceOK(s)
  PROVE  /\ s = [ptab |-> s.ptab, count |-> s.count, memoryMap |-> s.memoryMap,
                 internalMap |-> s.internalMap]
         /\ PagesOK(s.ptab, s.count) /\ MapsOK(s.memoryMap, s.internalMap)
         /\ DOMAIN s.ptab = BucketNumbers
         /\ \A b \in BucketNumbers : ListOK(s.ptab[b])
         /\ \A a : PageAt(s, a) = Lookup(s.ptab[Bucket(a)], Tag(a))
<1>1. PagesOK(s.ptab, s.count) /\ MapsOK(s.memoryMap, s.internalMap)  BY DEF SpaceOK
<1>2. \A a : PageAt(s, a) = Lookup(s.ptab[Bucket(a)], Tag(a))  BY DEF PageAt, Lookup
<1>. QED  BY <1>1, <1>2, TableIs DEF SpaceOK

LEMMA WithPages ==
  ASSUME NEW s, SpaceOK(s), NEW P, NEW n, PagesOK(P, n), SameWords(s.ptab, P),
         NEW r, r = [ptab |-> P, count |-> n, memoryMap |-> s.memoryMap,
                     internalMap |-> s.internalMap]
  PROVE  Touches(s, r) /\ r.ptab = P
<1>1. /\ r.ptab = P /\ r.count = n /\ r.memoryMap = s.memoryMap
      /\ r.internalMap = s.internalMap
  OBVIOUS
<1>2. SpaceOK(r)
  <2>1. MapsOK(s.memoryMap, s.internalMap)  BY SpaceIs
  <2>. QED  BY <1>1, <2>1 DEF SpaceOK
<1>. QED  BY <1>1, <1>2 DEF Touches

LEMMA TranslatedIs ==
  ASSUME NEW s, SpaceOK(s), NEW a \in Nat, NEW r, r = Translated(s, a)
  PROVE  Touches(s, r) /\ (PageAt(s, a) # 0 => InFront(r, a))
<1>1. PICK b \in BucketNumbers : b = Bucket(a)  BY AddressIs
<1>2. PICK t : t = Tag(a)  OBVIOUS
<1>3. PICK l : l = s.ptab[b]  OBVIOUS
<1>4. PICK i : i = PageAt(s, a)  OBVIOUS
<1>5. /\ ListOK(l) /\ i = Lookup(l, t) /\ DOMAIN s.ptab = BucketNumbers
      /\ PagesOK(s.ptab, s.count)
  BY <1>1, <1>2, <1>3, <1>4, SpaceIs
<1>6. Len(l) \in Nat /\ DOMAIN l = 1 .. Len(l)  BY <1>5, PteIs
<1>7. i = 0 \/ (i \in DOMAIN l /\ l[i].tag = t)  BY <1>5, LookupIs
<1>8. r = IF i <= 1 THEN s ELSE [s EXCEPT !.ptab[b] = <<@[i]>> \o RemoveAt(@, i)]
  BY <1>1, <1>4 DEF Translated
<1>9. CASE i <= 1
  <2>1. r = s  BY <1>8, <1>9
  <2>2. Touches(s, r)  BY <2>1 DEF Touches, SameWords
  <2>3. i # 0 => i = 1  BY <1>6, <1>7, <1>9
  <2>. QED  BY <1>1, <1>2, <1>3, <1>4, <1>7, <2>1, <2>2, <2>3 DEF InFront
<1>10. CASE ~(i <= 1)
  <2>1. i \in DOMAIN l /\ l[i].tag = t  BY <1>7, <1>10
  <2>2. PICK m : m = <<l[i]>> \o RemoveAt(l, i)  OBVIOUS
  <2>3. /\ ListOK(m) /\ Tags(m) = Tags(l) /\ SamePages(l, m)
        /\ 1 \in DOMAIN m /\ m[1] = l[i]
    <3>1. Fronts(l, i, m)  BY <1>5, <2>1, <2>2 DEF Fronts
    <3>. QED  BY <3>1, FrontList
  <2>4. PICK P : P = [s.ptab EXCEPT ![b] = m]  OBVIOUS
  <2>5. PagesOK(P, s.count) /\ P[b] = m  BY <1>3, <1>5, <2>3, <2>4, BucketSet
  <2>6. SameWords(s.ptab, P)  BY <1>3, <1>5, <2>3, <2>4, BucketReads
  <2>7. r = [ptab |-> P, count |-> s.count, memoryMap |-> s.memoryMap,
             internalMap |-> s.internalMap]
    <3>1. r = [s EXCEPT !.ptab = P]  BY <1>3, <1>8, <1>10, <2>2, <2>4
    <3>2. s = [ptab |-> s.ptab, count |-> s.count, memoryMap |-> s.memoryMap,
               internalMap |-> s.internalMap]
      BY SpaceIs
    <3>. QED  BY <3>1, <3>2
  <2>8. Touches(s, r) /\ r.ptab = P  BY <2>5, <2>6, <2>7, WithPages
  <2>9. InFront(r, a)  BY <1>1, <1>2, <2>1, <2>3, <2>5, <2>8 DEF InFront
  <2>. QED  BY <2>8, <2>9
<1>. QED  BY <1>9, <1>10

LEMMA NewPageIs ==
  ASSUME NEW s, SpaceOK(s), NEW a \in Nat, PageAt(s, a) = 0, NEW r, r = NewPage(s, a)
  PROVE  Touches(s, r) /\ InFront(r, a)
<1>1. PICK b \in BucketNumbers : b = Bucket(a)  BY AddressIs
<1>2. PICK t \in Nat : t = Tag(a)  BY AddressIs
<1>3. PICK l : l = s.ptab[b]  OBVIOUS
<1>4. /\ ListOK(l) /\ Lookup(l, t) = 0 /\ DOMAIN s.ptab = BucketNumbers
      /\ PagesOK(s.ptab, s.count)
  BY <1>1, <1>2, <1>3, SpaceIs
<1>5. t \notin Tags(l)
  <2>1. 0 \notin DOMAIN l  BY <1>4, PteIs
  <2>. QED  BY <1>4, <2>1, LookupIs
<1>6. PICK m : m = <<[tag |-> t, page |-> [o \in 0 .. (PageWords - 1) |-> Zero]]>> \o l  OBVIOUS
<1>7. /\ ListOK(m) /\ Tags(m) = Tags(l) \cup {t} /\ SamePages(l, m)
      /\ 1 \in DOMAIN m /\ m[1].tag = t
  <2>1. PutsNew(l, t, m)  BY <1>4, <1>5, <1>6 DEF PutsNew
  <2>. QED  BY <2>1, NewList
<1>8. PICK P : P = [s.ptab EXCEPT ![b] = m]  OBVIOUS
<1>9. PagesOK(P, s.count + 1) /\ P[b] = m  BY <1>3, <1>4, <1>5, <1>7, <1>8, BucketSet
<1>10. SameWords(s.ptab, P)  BY <1>3, <1>4, <1>7, <1>8, BucketReads
<1>11. r = [ptab |-> P, count |-> s.count + 1, memoryMap |-> s.memoryMap,
            internalMap |-> s.internalMap]
  <2>1. r = [s EXCEPT !.ptab = P, !.count = s.count + 1]
    BY <1>1, <1>2, <1>3, <1>6, <1>8 DEF NewPage
  <2>2. s = [ptab |-> s.ptab, count |-> s.count, memoryMap |-> s.memoryMap,
             internalMap |-> s.internalMap]
    BY SpaceIs
  <2>. QED  BY <2>1, <2>2
<1>12. Touches(s, r) /\ r.ptab = P  BY <1>9, <1>10, <1>11, WithPages
<1>13. InFront(r, a)  BY <1>1, <1>2, <1>7, <1>9, <1>12 DEF InFront
<1>. QED  BY <1>12, <1>13

LEMMA TickledIs ==
  ASSUME NEW s, SpaceOK(s), NEW a \in Nat, NEW r, r = Tickled(s, a)
  PROVE  Touches(s, r) /\ InFront(r, a)
<1>1. CASE PageAt(s, a) = 0  BY <1>1, NewPageIs DEF Tickled
<1>2. CASE PageAt(s, a) # 0  BY <1>2, TranslatedIs DEF Tickled
<1>. QED  BY <1>1, <1>2

-----------------------------------------------------------------------------
(***************************************************************************)
(* The value of a word.                                                    *)
(***************************************************************************)
HostAt(H, a) == SelectInSeq(H, LAMBDA map : IsWithin(map, a))

LEMMA MapIs ==
  ASSUME NEW H, NEW I, MapsOK(H, I)
  PROVE  /\ Len(H) \in Nat /\ DOMAIN H = 1 .. Len(H) /\ H \in Seq(HostMaps)
         /\ Len(I) \in Nat /\ DOMAIN I = 1 .. Len(I) /\ I \in Seq(InnerMaps)
         /\ \A i \in DOMAIN H :
              /\ H[i] \in HostMaps /\ Placed(H[i])
              /\ H[i].base \in Nat /\ H[i].size \in Nat \ {0} /\ H[i].inherit \in BOOLEAN
              /\ H[i].data \in [0 .. H[i].size - 1 -> Word]
              /\ H[i] = [base |-> H[i].base, size |-> H[i].size, inherit |-> H[i].inherit,
                         data |-> H[i].data]
         /\ \A i \in DOMAIN I :
              /\ I[i] \in InnerMaps /\ Placed(I[i])
              /\ I[i].base \in Nat /\ I[i].size \in Nat \ {0} /\ I[i].inherit \in BOOLEAN
<1>0. H \in Seq(HostMaps) /\ I \in Seq(InnerMaps)  BY DEF MapsOK
<1>1. /\ Len(H) \in Nat /\ DOMAIN H = 1 .. Len(H) /\ \A i \in DOMAIN H : H[i] \in HostMaps
      /\ Len(I) \in Nat /\ DOMAIN I = 1 .. Len(I) /\ \A i \in DOMAIN I : I[i] \in InnerMaps
  BY <1>0, SeqIs
<1>2. ASSUME NEW i \in DOMAIN H
      PROVE  /\ Placed(H[i])
             /\ H[i].base \in Nat /\ H[i].size \in Nat \ {0} /\ H[i].inherit \in BOOLEAN
             /\ H[i].data \in [0 .. H[i].size - 1 -> Word]
             /\ H[i] = [base |-> H[i].base, size |-> H[i].size, inherit |-> H[i].inherit,
                        data |-> H[i].data]
  <2>1. Placed(H[i]) /\ DOMAIN H[i].data = 0 .. H[i].size - 1  BY DEF MapsOK
  <2>2. H[i].base \in Nat /\ H[i].size \in Nat \ {0}  BY <2>1 DEF Placed
  <2>3. /\ H[i].data \in UNION {[0 .. n - 1 -> Word] : n \in 0 .. Words}
        /\ H[i].inherit \in BOOLEAN
        /\ H[i] = [base |-> H[i].base, size |-> H[i].size, inherit |-> H[i].inherit,
                   data |-> H[i].data]
    BY <1>1 DEF HostMaps
  <2>4. PICK n \in 0 .. Words : H[i].data \in [0 .. n - 1 -> Word]  BY <2>3
  <2>5. 0 .. n - 1 = 0 .. H[i].size - 1  BY <2>1, <2>4
  <2>. QED  BY <2>1, <2>2, <2>3, <2>4, <2>5
<1>3. ASSUME NEW i \in DOMAIN I
      PROVE  /\ Placed(I[i])
             /\ I[i].base \in Nat /\ I[i].size \in Nat \ {0} /\ I[i].inherit \in BOOLEAN
  <2>1. Placed(I[i])  BY DEF MapsOK
  <2>2. I[i].inherit \in BOOLEAN  BY <1>1 DEF InnerMaps
  <2>. QED  BY <2>1, <2>2 DEF Placed
<1>. QED  BY <1>0, <1>1, <1>2, <1>3

LEMMA HostAtIs ==
  ASSUME NEW H, NEW I, MapsOK(H, I), NEW a \in Nat
  PROVE  /\ \A i \in DOMAIN H : IsWithin(H[i], a) => HostAt(H, a) = i /\ i # 0
         /\ HostAt(H, a) # 0 => HostAt(H, a) \in DOMAIN H /\ IsWithin(H[HostAt(H, a)], a)
<1>. DEFINE T == {i \in 1 .. Len(H) : IsWithin(H[i], a)}
<1>1. HostAt(H, a) = IF T # {} THEN Min(T) ELSE 0  BY DEF HostAt, SelectInSeq
<1>2. /\ Len(H) \in Nat /\ DOMAIN H = 1 .. Len(H)
      /\ \A i \in DOMAIN H : H[i].base \in Nat /\ H[i].size \in Nat \ {0}
  BY MapIs
<1>3. \A i, j \in DOMAIN H : IsWithin(H[i], a) /\ IsWithin(H[j], a) => i = j
  <2>. SUFFICES ASSUME NEW i \in DOMAIN H, NEW j \in DOMAIN H,
                       IsWithin(H[i], a), IsWithin(H[j], a), i # j
                PROVE  FALSE
    OBVIOUS
  <2>1. Apart(H[i], H[j])  BY DEF MapsOK
  <2>2. a >= H[i].base /\ a - H[i].base < H[i].size  BY DEF IsWithin
  <2>3. a >= H[j].base /\ a - H[j].base < H[j].size  BY DEF IsWithin
  <2>. QED  BY <1>2, <2>1, <2>2, <2>3, SMTT(30) DEF Apart
<1>4. T \in SUBSET Nat  BY <1>2
<1>5. ASSUME NEW i \in DOMAIN H, IsWithin(H[i], a) PROVE HostAt(H, a) = i /\ i # 0
  <2>1. i \in T  BY <1>2, <1>5
  <2>2. Min(T) \in T  BY <1>4, <2>1, MinIs
  <2>3. Min(T) = i  BY <1>2, <1>3, <1>5, <2>2
  <2>4. HostAt(H, a) = Min(T)  BY <1>1, <2>1
  <2>5. i # 0  BY <1>2
  <2>. QED  BY <2>3, <2>4, <2>5
<1>6. ASSUME HostAt(H, a) # 0
      PROVE  HostAt(H, a) \in DOMAIN H /\ IsWithin(H[HostAt(H, a)], a)
  <2>1. T # {}  BY <1>1, <1>6
  <2>2. Min(T) \in T  BY <1>4, <2>1, MinIs
  <2>. QED  BY <1>1, <1>2, <2>1, <2>2
<1>. QED  BY <1>5, <1>6

HostHas(s, a) == \E i \in DOMAIN s.memoryMap : IsWithin(s.memoryMap[i], a)

LEMMA ReadsIs ==
  ASSUME NEW ptab, NEW n, PagesOK(ptab, n), NEW a \in Nat
  PROVE  Reads(ptab, a) \in Word
<1>1. Bucket(a) \in BucketNumbers /\ Offset(a) \in Offsets  BY AddressIs DEF Offsets
<1>2. ListOK(ptab[Bucket(a)])  BY <1>1, TableIs
<1>. QED  BY <1>1, <1>2, PagedIs DEF Reads

LEMMA ValueIs ==
  ASSUME NEW s, SpaceOK(s), NEW a \in Nat
  PROVE  /\ \A i \in DOMAIN s.memoryMap : IsWithin(s.memoryMap[i], a) =>
              /\ ValueAt(s, a) = s.memoryMap[i].data[a - s.memoryMap[i].base]
              /\ a - s.memoryMap[i].base \in 0 .. s.memoryMap[i].size - 1
              /\ HostMapOf(s, a) = i /\ i # 0
         /\ ~HostHas(s, a) => ValueAt(s, a) = Reads(s.ptab, a) /\ HostMapOf(s, a) = 0
         /\ ValueAt(s, a) \in Word
<1>1. PICK H : H = s.memoryMap  OBVIOUS
<1>2. MapsOK(H, s.internalMap) /\ PagesOK(s.ptab, s.count)  BY <1>1, SpaceIs
<1>3. HostMapOf(s, a) = HostAt(H, a)  BY <1>1 DEF HostMapOf, HostAt
<1>4. PageAt(s, a) = Lookup(s.ptab[Bucket(a)], Tag(a))  BY SpaceIs
<1>5. /\ HostAt(H, a) # 0 => ValueAt(s, a) = H[HostAt(H, a)].data[a - H[HostAt(H, a)].base]
      /\ HostAt(H, a) = 0 => ValueAt(s, a) = Reads(s.ptab, a)
  BY <1>1, <1>3, <1>4 DEF ValueAt, Reads, Paged
<1>6. ASSUME NEW i \in DOMAIN H, IsWithin(H[i], a)
      PROVE  /\ ValueAt(s, a) = H[i].data[a - H[i].base]
             /\ a - H[i].base \in 0 .. H[i].size - 1
             /\ HostAt(H, a) = i /\ i # 0
             /\ ValueAt(s, a) \in Word
  <2>1. HostAt(H, a) = i /\ i # 0  BY <1>2, <1>6, HostAtIs
  <2>2. H[i].base \in Nat /\ H[i].size \in Nat \ {0} /\ H[i].data \in [0 .. H[i].size - 1 -> Word]
    BY <1>2, MapIs
  <2>3. a - H[i].base \in 0 .. H[i].size - 1  BY <1>6, <2>2 DEF IsWithin
  <2>. QED  BY <1>5, <2>1, <2>2, <2>3
<1>7. ASSUME ~HostHas(s, a)
      PROVE  /\ ValueAt(s, a) = Reads(s.ptab, a) /\ HostAt(H, a) = 0
             /\ ValueAt(s, a) \in Word
  <2>1. HostAt(H, a) = 0  BY <1>1, <1>2, <1>7, HostAtIs DEF HostHas
  <2>2. Reads(s.ptab, a) \in Word  BY <1>2, ReadsIs
  <2>. QED  BY <1>5, <2>1, <2>2
<1>8. ValueAt(s, a) \in Word  BY <1>1, <1>6, <1>7 DEF HostHas
<1>. QED  BY <1>1, <1>3, <1>6, <1>7, <1>8

(* The same mappings, whatever the simulator's own hold.                   *)
SameMaps(s, r) ==
  /\ r.internalMap = s.internalMap /\ DOMAIN r.memoryMap = DOMAIN s.memoryMap
  /\ \A i \in DOMAIN s.memoryMap : /\ r.memoryMap[i].base = s.memoryMap[i].base
                                   /\ r.memoryMap[i].size = s.memoryMap[i].size
                                   /\ r.memoryMap[i].inherit = s.memoryMap[i].inherit

Writes(s, r, a, v) ==
  /\ SpaceOK(r) /\ SameMaps(s, r)
  /\ \A c \in Nat : ValueAt(r, c) = IF c = a THEN v ELSE ValueAt(s, c)

SameValues(s, r) == \A c \in Nat : ValueAt(r, c) = ValueAt(s, c)

LEMMA TouchedIs ==
  ASSUME NEW s, SpaceOK(s), NEW r, Touches(s, r)
  PROVE  SpaceOK(r) /\ SameMaps(s, r) /\ SameValues(s, r)
<1>1. /\ SpaceOK(r) /\ r.memoryMap = s.memoryMap /\ r.internalMap = s.internalMap
      /\ SameWords(s.ptab, r.ptab)
  BY DEF Touches
<1>2. SameMaps(s, r)  BY <1>1 DEF SameMaps
<1>3. ASSUME NEW c \in Nat PROVE ValueAt(r, c) = ValueAt(s, c)
  <2>1. CASE HostHas(s, c)
    <3>1. PICK i \in DOMAIN s.memoryMap : IsWithin(s.memoryMap[i], c)  BY <2>1 DEF HostHas
    <3>2. i \in DOMAIN r.memoryMap /\ r.memoryMap[i] = s.memoryMap[i]  BY <1>1
    <3>3. ValueAt(s, c) = s.memoryMap[i].data[c - s.memoryMap[i].base]  BY <3>1, ValueIs
    <3>4. IsWithin(r.memoryMap[i], c)  BY <3>1, <3>2
    <3>5. ValueAt(r, c) = r.memoryMap[i].data[c - r.memoryMap[i].base]
      BY <1>1, <3>2, <3>4, ValueIs
    <3>. QED  BY <3>2, <3>3, <3>5
  <2>2. CASE ~HostHas(s, c)
    <3>1. ~HostHas(r, c)  BY <1>1, <2>2 DEF HostHas
    <3>2. ValueAt(s, c) = Reads(s.ptab, c) /\ ValueAt(r, c) = Reads(r.ptab, c)
      BY <1>1, <2>2, <3>1, ValueIs
    <3>. QED  BY <1>1, <3>2 DEF SameWords
  <2>. QED  BY <2>1, <2>2
<1>. QED  BY <1>1, <1>2, <1>3 DEF SameValues

(* A word of a mapping of the simulator's own is written.                  *)
LEMMA HostWritten ==
  ASSUME NEW s, SpaceOK(s), NEW a \in Nat, NEW v \in Word, HostHas(s, a),
         NEW r, r = Written(s, a, v)
  PROVE  Writes(s, r, a, v)
<1>1. PICK H : H = s.memoryMap  OBVIOUS
<1>2. PICK I : I = s.internalMap  OBVIOUS
<1>3. PICK h \in DOMAIN H : IsWithin(H[h], a)  BY <1>1 DEF HostHas
<1>4. PICK k : k = a - H[h].base  OBVIOUS
<1>5. HostMapOf(s, a) = h /\ h # 0 /\ k \in 0 .. H[h].size - 1
  BY <1>1, <1>3, <1>4, ValueIs
<1>6. MapsOK(H, I) /\ PagesOK(s.ptab, s.count)  BY <1>1, <1>2, SpaceIs
<1>7. /\ Len(H) \in Nat /\ DOMAIN H = 1 .. Len(H) /\ I \in Seq(InnerMaps)
      /\ \A i \in DOMAIN H : H[i] \in HostMaps
      /\ H[h].base \in Nat /\ H[h].size \in Nat \ {0} /\ H[h].inherit \in BOOLEAN
      /\ H[h].data \in [0 .. H[h].size - 1 -> Word] /\ Placed(H[h])
      /\ H[h] = [base |-> H[h].base, size |-> H[h].size, inherit |-> H[h].inherit,
                 data |-> H[h].data]
  BY <1>6, MapIs
<1>8. PICK d : d = [H[h].data EXCEPT ![k] = v]  OBVIOUS
<1>9. /\ d \in [0 .. H[h].size - 1 -> Word] /\ d[k] = v
      /\ \A n \in 0 .. H[h].size - 1 : n # k => d[n] = H[h].data[n]
  BY <1>5, <1>7, <1>8
<1>10. PICK e : e = [base |-> H[h].base, size |-> H[h].size, inherit |-> H[h].inherit,
                     data |-> d]
  OBVIOUS
<1>11. /\ e.base = H[h].base /\ e.size = H[h].size /\ e.inherit = H[h].inherit /\ e.data = d
       /\ e \in HostMaps
  <2>1. H[h].size \in 0 .. Words  BY <1>7, PageAssumption DEF Placed
  <2>2. d \in UNION {[0 .. n - 1 -> Word] : n \in 0 .. Words}  BY <1>9, <2>1
  <2>. QED  BY <1>7, <1>10, <2>2 DEF HostMaps
<1>12. PICK G : G = [H EXCEPT ![h] = e]  OBVIOUS
<1>13. /\ DOMAIN G = DOMAIN H /\ G[h] = e /\ \A i \in DOMAIN H : i # h => G[i] = H[i]
       /\ G = [i \in 1 .. Len(H) |-> G[i]]
  BY <1>7, <1>12
<1>14. G \in Seq(HostMaps)
  <2>1. \A i \in 1 .. Len(H) : G[i] \in HostMaps  BY <1>7, <1>11, <1>13
  <2>2. G \in [1 .. Len(H) -> HostMaps]  BY <1>13, <2>1
  <2>. QED  BY <1>7, <2>2, SMTT(30)
<1>15. \A i \in DOMAIN H : /\ G[i].base = H[i].base /\ G[i].size = H[i].size
                           /\ G[i].inherit = H[i].inherit
  BY <1>11, <1>13
<1>16. MapsOK(G, I)
  <2>1. ASSUME NEW i \in DOMAIN G PROVE Placed(G[i]) /\ DOMAIN G[i].data = 0 .. G[i].size - 1
    <3>1. Placed(H[i]) /\ DOMAIN H[i].data = 0 .. H[i].size - 1
      BY <1>6, <1>13 DEF MapsOK
    <3>2. Placed(G[i])  BY <1>13, <1>15, <3>1 DEF Placed
    <3>3. CASE i = h  BY <1>9, <1>11, <1>13, <3>2, <3>3
    <3>4. CASE i # h  BY <1>13, <3>1, <3>2, <3>4
    <3>. QED  BY <3>3, <3>4
  <2>2. /\ \A i \in DOMAIN I : Placed(I[i])
        /\ \A i, j \in DOMAIN I : i # j => Apart(I[i], I[j])
    BY <1>6 DEF MapsOK
  <2>3. \A i, j \in DOMAIN G : i # j => Apart(G[i], G[j])
    <3>. SUFFICES ASSUME NEW i \in DOMAIN G, NEW j \in DOMAIN G, i # j
                  PROVE  Apart(G[i], G[j])
      OBVIOUS
    <3>1. Apart(H[i], H[j])  BY <1>6, <1>13 DEF MapsOK
    <3>. QED  BY <1>13, <1>15, <3>1 DEF Apart
  <2>4. \A i \in DOMAIN G, j \in DOMAIN I : Apart(G[i], I[j])
    <3>. SUFFICES ASSUME NEW i \in DOMAIN G, NEW j \in DOMAIN I PROVE Apart(G[i], I[j])
      OBVIOUS
    <3>1. Apart(H[i], I[j])  BY <1>6, <1>13 DEF MapsOK
    <3>. QED  BY <1>13, <1>15, <3>1 DEF Apart
  <2>. QED  BY <1>7, <1>14, <2>1, <2>2, <2>3, <2>4 DEF MapsOK
<1>17. r = [ptab |-> s.ptab, count |-> s.count, memoryMap |-> G, internalMap |-> I]
  <2>1. r = [s EXCEPT !.memoryMap[h].data[k] = v]
    BY <1>1, <1>4, <1>5 DEF Written
  <2>2. [H[h] EXCEPT !.data[k] = v] = e
    <3>1. PICK x : x = H[h]  OBVIOUS
    <3>2. x = [base |-> x.base, size |-> x.size, inherit |-> x.inherit, data |-> x.data]
      BY <1>7, <3>1
    <3>3. [x EXCEPT !.data[k] = v] = [x EXCEPT !.data = d]  BY <1>8, <3>1
    <3>4. [x EXCEPT !.data = d] = e  BY <1>10, <3>1, <3>2
    <3>. QED  BY <3>1, <3>3, <3>4
  <2>3. [H EXCEPT ![h].data[k] = v] = G  BY <1>12, <2>2
  <2>4. s = [ptab |-> s.ptab, count |-> s.count, memoryMap |-> H, internalMap |-> I]
    BY <1>1, <1>2, SpaceIs
  <2>. QED  BY <1>1, <2>1, <2>3, <2>4
<1>18. r.ptab = s.ptab /\ r.count = s.count /\ r.memoryMap = G /\ r.internalMap = I
  BY <1>17
<1>19. SpaceOK(r)  BY <1>6, <1>16, <1>17, <1>18 DEF SpaceOK
<1>20. SameMaps(s, r)  BY <1>1, <1>2, <1>13, <1>15, <1>18 DEF SameMaps
<1>21. ASSUME NEW c \in Nat PROVE ValueAt(r, c) = IF c = a THEN v ELSE ValueAt(s, c)
  <2>1. \A i \in DOMAIN H : IsWithin(G[i], c) <=> IsWithin(H[i], c)
    BY <1>15 DEF IsWithin
  <2>2. CASE HostHas(s, c)
    <3>1. PICK i \in DOMAIN H : IsWithin(H[i], c)  BY <1>1, <2>2 DEF HostHas
    <3>2. /\ ValueAt(s, c) = H[i].data[c - H[i].base] /\ c - H[i].base \in 0 .. H[i].size - 1
          /\ HostMapOf(s, c) = i
      BY <1>1, <3>1, ValueIs
    <3>3. i \in DOMAIN r.memoryMap /\ IsWithin(r.memoryMap[i], c)
      BY <1>13, <1>18, <2>1, <3>1
    <3>4. ValueAt(r, c) = G[i].data[c - H[i].base]
      <4>1. ValueAt(r, c) = r.memoryMap[i].data[c - r.memoryMap[i].base]
        BY <1>19, <3>3, ValueIs
      <4>. QED  BY <1>15, <1>18, <3>1, <4>1
    <3>5. CASE i # h
      <4>1. c # a  BY <1>5, <3>2, <3>5
      <4>. QED  BY <1>13, <3>2, <3>4, <3>5, <4>1
    <3>6. CASE i = h
      <4>1. c - H[h].base = k <=> c = a  BY <1>4, <1>7
      <4>. QED  BY <1>9, <1>11, <1>13, <3>2, <3>4, <3>6, <4>1
    <3>. QED  BY <3>5, <3>6
  <2>3. CASE ~HostHas(s, c)
    <3>1. ~HostHas(r, c)  BY <1>1, <1>13, <1>18, <2>1, <2>3 DEF HostHas
    <3>2. ValueAt(s, c) = Reads(s.ptab, c) /\ ValueAt(r, c) = Reads(r.ptab, c)
      BY <1>19, <2>3, <3>1, ValueIs
    <3>3. c # a  BY <2>3
    <3>. QED  BY <1>18, <3>2, <3>3
  <2>. QED  BY <2>2, <2>3
<1>. QED  BY <1>19, <1>20, <1>21 DEF Writes

(* A word of a page is written.                                            *)
LEMMA PageWritten ==
  ASSUME NEW s, SpaceOK(s), NEW a \in Nat, NEW v \in Word, ~HostHas(s, a),
         NEW r, r = Written(s, a, v)
  PROVE  Writes(s, r, a, v)
<1>1. PICK b \in BucketNumbers : b = Bucket(a)  BY AddressIs
<1>2. PICK o \in Offsets : o = Offset(a)  BY AddressIs DEF Offsets
<1>3. PICK f : f = Tickled(s, a)  OBVIOUS
<1>4. Touches(s, f) /\ InFront(f, a)  BY <1>3, TickledIs
<1>5. SpaceOK(f) /\ SameMaps(s, f) /\ SameValues(s, f)  BY <1>4, TouchedIs
<1>6. PICK l : l = f.ptab[b]  OBVIOUS
<1>7. /\ ListOK(l) /\ 1 \in DOMAIN l /\ l[1].tag = Tag(a) /\ DOMAIN f.ptab = BucketNumbers
      /\ PagesOK(f.ptab, f.count) /\ MapsOK(f.memoryMap, f.internalMap)
  BY <1>1, <1>4, <1>5, <1>6, SpaceIs DEF InFront
<1>8. PICK m : m = [l EXCEPT ![1].page[o] = v]  OBVIOUS
<1>9. /\ ListOK(m) /\ Tags(m) = Tags(l)
      /\ \A u, n : n \in Offsets =>
           Paged(m, u, n) = IF u = l[1].tag /\ n = o THEN v ELSE Paged(l, u, n)
  <2>1. PutsWord(l, o, v, m)  BY <1>7, <1>8 DEF PutsWord
  <2>. QED  BY <2>1, StoredList
<1>10. PICK P : P = [f.ptab EXCEPT ![b] = m]  OBVIOUS
<1>11. /\ P[b] = m /\ \A c \in BucketNumbers : c # b => P[c] = f.ptab[c]
       /\ PagesOK(P, f.count)
  BY <1>6, <1>7, <1>9, <1>10, BucketSet
<1>12. r = [ptab |-> P, count |-> f.count, memoryMap |-> f.memoryMap,
            internalMap |-> f.internalMap]
  <2>1. HostMapOf(s, a) = 0  BY ValueIs
  <2>2. r = [f EXCEPT !.ptab[b][1].page[o] = v]
    BY <1>1, <1>2, <1>3, <2>1 DEF Written
  <2>3. [f.ptab EXCEPT ![b][1].page[o] = v] = P  BY <1>6, <1>8, <1>10
  <2>4. f = [ptab |-> f.ptab, count |-> f.count, memoryMap |-> f.memoryMap,
             internalMap |-> f.internalMap]
    BY <1>5, SpaceIs
  <2>. QED  BY <2>2, <2>3, <2>4
<1>13. /\ r.ptab = P /\ r.count = f.count /\ r.memoryMap = f.memoryMap
       /\ r.internalMap = f.internalMap
  BY <1>12
<1>14. SpaceOK(r)  BY <1>7, <1>11, <1>12, <1>13 DEF SpaceOK
<1>15. SameMaps(s, r)  BY <1>5, <1>13 DEF SameMaps
<1>16. ASSUME NEW c \in Nat PROVE Reads(P, c) = IF c = a THEN v ELSE Reads(f.ptab, c)
  <2>1. Bucket(c) \in BucketNumbers /\ Offset(c) \in Offsets  BY AddressIs DEF Offsets
  <2>2. Bucket(c) = b /\ Tag(c) = l[1].tag /\ Offset(c) = o => c = a
    BY <1>1, <1>2, <1>7, SamePlace
  <2>3. CASE Bucket(c) # b
    <3>1. c # a  BY <1>1, <2>3
    <3>. QED  BY <1>11, <2>1, <2>3, <3>1 DEF Reads
  <2>4. CASE Bucket(c) = b
    <3>1. Reads(P, c) = Paged(m, Tag(c), Offset(c))  BY <1>11, <2>4 DEF Reads
    <3>2. Reads(f.ptab, c) = Paged(l, Tag(c), Offset(c))  BY <1>6, <2>4 DEF Reads
    <3>3. c = a => Tag(c) = l[1].tag /\ Offset(c) = o  BY <1>2, <1>7
    <3>. QED  BY <1>9, <2>1, <2>2, <2>4, <3>1, <3>2, <3>3
  <2>. QED  BY <2>3, <2>4
<1>17. ASSUME NEW c \in Nat PROVE ValueAt(r, c) = IF c = a THEN v ELSE ValueAt(s, c)
  <2>0. ValueAt(f, c) = ValueAt(s, c)  BY <1>5 DEF SameValues
  <2>1. CASE HostHas(f, c)
    <3>1. PICK i \in DOMAIN f.memoryMap : IsWithin(f.memoryMap[i], c)  BY <2>1 DEF HostHas
    <3>2. ValueAt(f, c) = f.memoryMap[i].data[c - f.memoryMap[i].base]
      BY <1>5, <3>1, ValueIs
    <3>3. i \in DOMAIN r.memoryMap /\ IsWithin(r.memoryMap[i], c)  BY <1>13, <3>1
    <3>4. ValueAt(r, c) = r.memoryMap[i].data[c - r.memoryMap[i].base]
      BY <1>14, <3>3, ValueIs
    <3>5. c # a
      <4>1. f.memoryMap = s.memoryMap  BY <1>4 DEF Touches
      <4>. QED  BY <2>1, <4>1 DEF HostHas
    <3>. QED  BY <1>13, <2>0, <3>2, <3>4, <3>5
  <2>2. CASE ~HostHas(f, c)
    <3>1. ~HostHas(r, c)  BY <1>13, <2>2 DEF HostHas
    <3>2. ValueAt(f, c) = Reads(f.ptab, c) /\ ValueAt(r, c) = Reads(r.ptab, c)
      BY <1>5, <1>14, <2>2, <3>1, ValueIs
    <3>. QED  BY <1>13, <1>16, <2>0, <3>2
  <2>. QED  BY <2>1, <2>2
<1>. QED  BY <1>14, <1>15, <1>17 DEF Writes

LEMMA WrittenIs ==
  ASSUME NEW s, SpaceOK(s), NEW a \in Nat, NEW v \in Word, NEW r, r = Written(s, a, v)
  PROVE  Writes(s, r, a, v)
BY HostWritten, PageWritten

-----------------------------------------------------------------------------
(***************************************************************************)
(* Word after word: the recursive function of CopiedIn exists, and each    *)
(* step of it writes one word.                                             *)
(***************************************************************************)
CopyMade(s, a, data, r) ==
  SpaceOK(s) /\ a \in Nat /\ data \in Seq(Word) /\ r = CopiedIn(s, a, data)

LEMMA CopiedIs ==
  ASSUME NEW s, NEW a, NEW data, NEW r, CopyMade(s, a, data, r)
  PROVE  /\ SpaceOK(r) /\ SameMaps(s, r)
         /\ \A c \in Nat : ValueAt(r, c) = IF c \in a .. a + Len(data) - 1 THEN data[c - a + 1]
                                           ELSE ValueAt(s, c)
<1>. SpaceOK(s) /\ a \in Nat /\ data \in Seq(Word) /\ r = CopiedIn(s, a, data)
  BY DEF CopyMade
<1>. DEFINE W(x, k) == Written(x, a + k - 1, data[k])
            Run(g, n) == g = [k \in 0 .. n |-> IF k = 0 THEN s ELSE W(g[k - 1], k)]
            P(g) == Run(g, Len(data))
            after == CHOOSE g : P(g)
<1>1. PICK N \in Nat : N = Len(data)  BY SeqIs
<1>2. \A k \in 1 .. N : data[k] \in Word  BY <1>1, SeqIs
<1>3. r = after[N]  BY <1>1 DEF CopiedIn
<1>4. ASSUME NEW x, SpaceOK(x), NEW k \in 1 .. N PROVE Writes(x, W(x, k), a + k - 1, data[k])
  <2>1. a + k - 1 \in Nat /\ data[k] \in Word  BY <1>2
  <2>. QED  BY <1>4, <2>1, WrittenIs
<1>. HIDE DEF W
<1>5. 0 .. N \subseteq {n \in 0 .. N : \E g : Run(g, n)}
  <2>. DEFINE T == {n \in 0 .. N : \E g : Run(g, n)}
  <2>1. 0 \in T
    <3>1. PICK g : g = [k \in 0 .. 0 |-> s]  OBVIOUS
    <3>2. \A k \in 0 .. 0 : k = 0  OBVIOUS
    <3>3. Run(g, 0)  BY <3>1, <3>2
    <3>. HIDE DEF Run
    <3>4. 0 \in 0 .. N  OBVIOUS
    <3>. QED  BY <3>3, <3>4
  <2>2. ASSUME NEW n \in 1 .. N, n - 1 \in T PROVE n \in T
    <3>1. PICK g : Run(g, n - 1)  BY <2>2
    <3>2. \A k \in 0 .. n - 1 : g[k] = IF k = 0 THEN s ELSE W(g[k - 1], k)  BY <3>1
    <3>3. PICK h : h = [k \in 0 .. n |-> IF k = n THEN W(g[n - 1], n) ELSE g[k]]  OBVIOUS
    <3>4. /\ h = [k \in 0 .. n |-> h[k]] /\ h[n] = W(g[n - 1], n)
          /\ \A k \in 0 .. n - 1 : h[k] = g[k]
      BY <3>3
    <3>5. ASSUME NEW k \in 0 .. n PROVE h[k] = IF k = 0 THEN s ELSE W(h[k - 1], k)
      <4>1. CASE k = n
        <5>1. k # 0 /\ k - 1 = n - 1 /\ n - 1 \in 0 .. n - 1  BY <4>1
        <5>. QED  BY <3>4, <4>1, <5>1
      <4>2. CASE k # n /\ k = 0
        <5>1. 0 \in 0 .. n - 1  OBVIOUS
        <5>. QED  BY <3>2, <3>4, <4>2, <5>1
      <4>3. CASE k # n /\ k # 0
        <5>1. k \in 0 .. n - 1 /\ k - 1 \in 0 .. n - 1  BY <4>3
        <5>2. h[k] = g[k] /\ h[k - 1] = g[k - 1]  BY <3>4, <5>1
        <5>3. g[k] = W(g[k - 1], k)  BY <3>2, <4>3, <5>1
        <5>. QED  BY <4>3, <5>2, <5>3
      <4>. QED  BY <4>1, <4>2, <4>3
    <3>6. Run(h, n)  BY <3>4, <3>5
    <3>. HIDE DEF Run
    <3>. QED  BY <3>6
  <2>. HIDE DEF T
  <2>3. 0 .. N \subseteq T  BY <2>1, <2>2, CountingUp, Zenon
  <2>. QED  BY <2>3 DEF T
<1>6. P(after)
  <2>1. \E g : Run(g, N)
    <3>. HIDE DEF Run
    <3>1. N \in 0 .. N  OBVIOUS
    <3>. QED  BY <1>5, <3>1
  <2>2. \E g : P(g)  BY <1>1, <2>1
  <2>. HIDE DEF P
  <2>. QED  BY <2>2
<1>7. PICK f : f = after  OBVIOUS
<1>8. \A k \in 0 .. N : f[k] = IF k = 0 THEN s ELSE W(f[k - 1], k)
  <2>1. P(f)  BY <1>6, <1>7
  <2>2. f = [k \in 0 .. N |-> IF k = 0 THEN s ELSE W(f[k - 1], k)]  BY <1>1, <2>1
  <2>. QED  BY <2>2
<1>9. r = f[N]  BY <1>3, <1>7
<1>. HIDE DEF P, Run, after
<1>. DEFINE Good(k) == /\ SpaceOK(f[k]) /\ SameMaps(s, f[k])
                       /\ \A c \in Nat : ValueAt(f[k], c) =
                            IF c \in a .. a + k - 1 THEN data[c - a + 1] ELSE ValueAt(s, c)
            T == {k \in 0 .. N : Good(k)}
<1>10. 0 \in T
  <2>1. 0 \in 0 .. N /\ f[0] = s  BY <1>8
  <2>2. \A c \in Nat : c \notin a .. a + 0 - 1  OBVIOUS
  <2>3. SameMaps(s, s)  BY DEF SameMaps
  <2>. QED  BY <2>1, <2>2, <2>3
<1>11. ASSUME NEW k \in 1 .. N, k - 1 \in T PROVE k \in T
  <2>1. k \in 0 .. N /\ k # 0 /\ k - 1 \in 0 .. N  OBVIOUS
  <2>2. f[k] = W(f[k - 1], k)  BY <1>8, <2>1
  <2>3. Good(k - 1)  BY <1>11
  <2>4. Writes(f[k - 1], f[k], a + k - 1, data[k])  BY <1>4, <2>2, <2>3
  <2>5. SpaceOK(f[k]) /\ SameMaps(s, f[k])  BY <2>3, <2>4 DEF Writes, SameMaps
  <2>6. ASSUME NEW c \in Nat
        PROVE  ValueAt(f[k], c) = IF c \in a .. a + k - 1 THEN data[c - a + 1]
                                  ELSE ValueAt(s, c)
    <3>1. ValueAt(f[k], c) = IF c = a + k - 1 THEN data[k] ELSE ValueAt(f[k - 1], c)
      BY <2>4 DEF Writes
    <3>2. ValueAt(f[k - 1], c) = IF c \in a .. a + (k - 1) - 1 THEN data[c - a + 1]
                                 ELSE ValueAt(s, c)
      BY <2>3
    <3>3. CASE c = a + k - 1
      <4>1. c \in a .. a + k - 1 /\ c - a + 1 = k  BY <3>3
      <4>. QED  BY <3>1, <3>3, <4>1
    <3>4. CASE c # a + k - 1
      <4>1. c \in a .. a + k - 1 <=> c \in a .. a + (k - 1) - 1  BY <3>4
      <4>. QED  BY <3>1, <3>2, <3>4, <4>1
    <3>. QED  BY <3>3, <3>4
  <2>. QED  BY <2>1, <2>5, <2>6
<1>. HIDE DEF T
<1>12. 0 .. N \subseteq T  BY <1>10, <1>11, CountingUp, Zenon
<1>13. N \in T  BY <1>12
<1>. QED  BY <1>1, <1>9, <1>13 DEF T

-----------------------------------------------------------------------------
(***************************************************************************)
(* Mappings.                                                               *)
(***************************************************************************)
LEMMA CheckIs ==
  ASSUME NEW m, Placed(m)
  PROVE  \A x : x \in Checks(m) <=> /\ x \in Nat /\ Aligned(x)
                                    /\ m.base <= x /\ x < m.base + m.size
<1>1. m.base \in Nat /\ m.size \in Nat \ {0} /\ Aligned(m.base) /\ PageWords \in Nat \ {0}
  BY PageAssumption DEF Placed
<1>2. PICK e \in Nat : e = m.base + m.size  BY <1>1
<1>3. PICK u \in Nat : u = RoundedUp(e)  BY RoundedUpIs
<1>4. Aligned(u) /\ e <= u /\ u <= e + PageWords - 1  BY <1>3, RoundedUpIs
<1>5. Checks(m) = {x \in m.base .. (u - 1) : (x - m.base) % PageWords = 0}
  BY <1>2, <1>3 DEF Checks
<1>6. ASSUME NEW x \in Checks(m)
      PROVE  x \in Nat /\ Aligned(x) /\ m.base <= x /\ x < m.base + m.size
  <2>1. x \in Nat /\ m.base <= x /\ x < u /\ (x - m.base) % PageWords = 0  BY <1>1, <1>3, <1>5
  <2>2. Aligned(x)  BY <1>1, <2>1, AlignedSums
  <2>3. x + PageWords <= u  BY <1>3, <1>4, <2>1, <2>2, AlignedSums
  <2>. QED  BY <1>1, <1>2, <1>3, <1>4, <2>1, <2>2, <2>3
<1>7. ASSUME NEW x \in Nat, Aligned(x), m.base <= x, x < m.base + m.size
      PROVE  x \in Checks(m)
  <2>1. (x - m.base) % PageWords = 0  BY <1>1, <1>7, AlignedSums
  <2>2. x \in m.base .. (u - 1)  BY <1>1, <1>2, <1>3, <1>4, <1>7
  <2>. QED  BY <1>5, <2>1, <2>2
<1>. QED  BY <1>6, <1>7

\* No mapping is found where len words at a are asked for.
Missed(m, a, len) == \A x \in Checks(m) : ~(x >= a /\ x - a < len)

LEMMA FitsIs ==
  ASSUME NEW s, NEW a, NEW len
  PROVE  Fits(s, a, len) <=> /\ \A i \in DOMAIN s.memoryMap : Missed(s.memoryMap[i], a, len)
                             /\ \A i \in DOMAIN s.internalMap : Missed(s.internalMap[i], a, len)
BY DEF Fits, BoundsVerify, Missed, ToSet

LEMMA MissedApart ==
  ASSUME NEW m, NEW n, Placed(m), Placed(n), Missed(m, n.base, n.size)
  PROVE  Apart(m, n)
<1>1. /\ m.base \in Nat /\ m.size \in Nat \ {0} /\ Aligned(m.base)
      /\ n.base \in Nat /\ n.size \in Nat \ {0} /\ Aligned(n.base)
  BY DEF Placed
<1>2. SUFFICES ASSUME ~Apart(m, n) PROVE FALSE  OBVIOUS
<1>3. n.base < m.base + m.size /\ m.base < n.base + n.size  BY <1>1, <1>2 DEF Apart
<1>4. CASE m.base >= n.base
  <2>1. m.base \in Checks(m)  BY <1>1, CheckIs
  <2>. QED  BY <1>1, <1>3, <1>4, <2>1 DEF Missed
<1>5. CASE m.base < n.base
  <2>1. n.base \in Checks(m)  BY <1>1, <1>3, <1>5, CheckIs
  <2>. QED  BY <1>1, <2>1 DEF Missed
<1>. QED  BY <1>1, <1>4, <1>5

LEMMA FitsApart ==
  ASSUME NEW s, SpaceOK(s), NEW m, Placed(m), Fits(s, m.base, m.size)
  PROVE  /\ \A i \in DOMAIN s.memoryMap : Apart(s.memoryMap[i], m)
         /\ \A i \in DOMAIN s.internalMap : Apart(s.internalMap[i], m)
<1>1. MapsOK(s.memoryMap, s.internalMap)  BY SpaceIs
<1>2. /\ \A i \in DOMAIN s.memoryMap : Placed(s.memoryMap[i])
      /\ \A i \in DOMAIN s.internalMap : Placed(s.internalMap[i])
  BY <1>1, MapIs
<1>3. /\ \A i \in DOMAIN s.memoryMap : Missed(s.memoryMap[i], m.base, m.size)
      /\ \A i \in DOMAIN s.internalMap : Missed(s.internalMap[i], m.base, m.size)
  BY FitsIs
<1>. QED  BY <1>2, <1>3, MissedApart

LEMMA FitsAbove ==
  ASSUME NEW s, SpaceOK(s), NEW a \in Nat, a >= Words, NEW len
  PROVE  Fits(s, a, len)
<1>1. MapsOK(s.memoryMap, s.internalMap)  BY SpaceIs
<1>2. ASSUME NEW m, Placed(m) PROVE Missed(m, a, len)
  <2>1. \A x \in Checks(m) : x \in Nat /\ x < m.base + m.size  BY <1>2, CheckIs
  <2>2. m.base + m.size <= Words /\ m.base \in Nat /\ m.size \in Nat  BY <1>2 DEF Placed
  <2>3. \A x \in Checks(m) : ~(x >= a)  BY <2>1, <2>2, PageAssumption
  <2>. QED  BY <2>3 DEF Missed
<1>. QED  BY <1>1, <1>2, FitsIs, MapIs

(* An address is found, at the start of a page, and there is room.         *)
LEMMA AcquiredIs ==
  ASSUME NEW s, SpaceOK(s), NEW hint \in Nat, Aligned(hint), NEW base \in Nat, Aligned(base),
         NEW len
  PROVE  /\ Acquired(s, hint, base, len) \in Nat /\ Aligned(Acquired(s, hint, base, len))
         /\ Fits(s, Acquired(s, hint, base, len), len)
<1>1. PICK start \in Nat : start = (IF hint = 0 THEN base ELSE hint) /\ Aligned(start)
  OBVIOUS
<1>2. Words \in Nat /\ PageWords \in Nat \ {0}  BY PageAssumption
<1>. DEFINE Free1(k) == Fits(s, start + k * PageWords, len)
            T == {k \in 0 .. Words : Free1(k)}
            first == CHOOSE k \in 0 .. Words : Free1(k) /\ \A j \in 0 .. (k - 1) : ~Free1(j)
<1>3. Acquired(s, hint, base, len) = start + first * PageWords  BY <1>1 DEF Acquired
<1>4. Words \in T
  <2>1. PICK d \in Nat : d = PageWords - 1  BY <1>2
  <2>2. Words * d \in Nat  BY <1>2
  <2>3. Words * PageWords = Words * d + Words  BY <1>2, <2>1
  <2>4. start + Words * PageWords \in Nat /\ start + Words * PageWords >= Words
    BY <1>2, <2>2, <2>3
  <2>. QED  BY <1>2, <2>4, FitsAbove
<1>5. \E k \in 0 .. Words : Free1(k) /\ \A j \in 0 .. (k - 1) : ~Free1(j)
  <2>. HIDE DEF Free1
  <2>1. T \in SUBSET Nat /\ T # {}  BY <1>2, <1>4
  <2>2. PICK k \in T : \A j \in T : k <= j  BY <2>1, LeastNumber
  <2>3. ASSUME NEW j \in 0 .. (k - 1) PROVE ~Free1(j)
    <3>1. j \in 0 .. Words /\ j < k  BY <1>2, <2>1
    <3>2. j \notin T  BY <2>1, <2>2, <3>1
    <3>. QED  BY <3>1, <3>2
  <2>. QED  BY <2>2, <2>3
<1>6. first \in 0 .. Words /\ Free1(first)
  <2>. HIDE DEF Free1
  <2>. QED  BY <1>5
<1>7. PICK k \in Nat : k = first  BY <1>2, <1>6
<1>8. Fits(s, start + k * PageWords, len)  BY <1>6, <1>7
<1>9. start + k * PageWords \in Nat /\ Aligned(start + k * PageWords)  BY <1>1, AlignedSums
<1>. QED  BY <1>3, <1>7, <1>8, <1>9

(***************************************************************************)
(* A mapping joins a list of them, in front or at the end.                 *)
(***************************************************************************)
Joins(X, l, m, q) ==
  /\ q \in Seq(X)
  /\ \E n \in DOMAIN q : q[n] = m /\ Part(l, q, DOMAIN q \ {n})

LEMMA ConsJoins ==
  ASSUME NEW X, NEW l \in Seq(X), NEW m \in X, NEW q, q = <<m>> \o l
  PROVE  Joins(X, l, m, q)
<1>1. Len(l) \in Nat /\ DOMAIN l = 1 .. Len(l)  BY SeqIs
<1>2. /\ q \in Seq(X) /\ DOMAIN q = 1 .. Len(l) + 1
      /\ q[1] = m /\ \A k \in 1 .. Len(l) : q[k + 1] = l[k]
  <2>1. \A x \in X : q = <<x>> \o l =>
          /\ q \in Seq(X) /\ Len(q) = Len(l) + 1 /\ DOMAIN q = 1 .. Len(l) + 1
          /\ q[1] = x /\ \A k \in 1 .. Len(l) : q[k + 1] = l[k]
    BY ONLY l \in Seq(X), ConsIs
  <2>. QED  BY <2>1, Zenon
<1>. DEFINE f == [k \in 1 .. Len(l) |-> k + 1]
<1>3. f \in [DOMAIN l -> DOMAIN q \ {1}] /\ \A k \in DOMAIN l : f[k] = k + 1  BY <1>1, <1>2
<1>4. \A i \in DOMAIN q \ {1} : \E k \in DOMAIN l : f[k] = i
  <2>. SUFFICES ASSUME NEW i \in DOMAIN q \ {1} PROVE \E k \in DOMAIN l : f[k] = i  OBVIOUS
  <2>1. i - 1 \in 1 .. Len(l) /\ i - 1 + 1 = i  BY <1>1, <1>2
  <2>. QED  BY <1>1, <1>3, <2>1
<1>. HIDE DEF f
<1>5. \A k \in DOMAIN l : l[k] = q[f[k]]  BY <1>1, <1>2, <1>3
<1>6. \A j, k \in DOMAIN l : f[j] = f[k] => j = k  BY <1>1, <1>3
<1>7. Part(l, q, DOMAIN q \ {1})  BY <1>3, <1>4, <1>5, <1>6 DEF Part
<1>8. 1 \in DOMAIN q  BY <1>1, <1>2
<1>. QED  BY <1>2, <1>7, <1>8 DEF Joins

LEMMA AppendJoins ==
  ASSUME NEW X, NEW l \in Seq(X), NEW m \in X, NEW q, q = Append(l, m)
  PROVE  Joins(X, l, m, q)
<1>1. Len(l) \in Nat /\ DOMAIN l = 1 .. Len(l)  BY SeqIs
<1>2. /\ q \in Seq(X) /\ Len(q) = Len(l) + 1
      /\ q[Len(l) + 1] = m /\ \A k \in 1 .. Len(l) : q[k] = l[k]
  BY AppendProperties
<1>3. DOMAIN q = 1 .. Len(l) + 1  BY <1>2, SeqIs
<1>4. PICK n : n = Len(l) + 1  OBVIOUS
<1>. DEFINE f == [k \in 1 .. Len(l) |-> k]
<1>5. f \in [DOMAIN l -> DOMAIN q \ {n}] /\ \A k \in DOMAIN l : f[k] = k
  BY <1>1, <1>3, <1>4
<1>6. \A i \in DOMAIN q \ {n} : i \in DOMAIN l  BY <1>1, <1>3, <1>4
<1>. HIDE DEF f
<1>7. \A i \in DOMAIN q \ {n} : \E k \in DOMAIN l : f[k] = i  BY <1>5, <1>6
<1>8. \A k \in DOMAIN l : l[k] = q[f[k]]  BY <1>1, <1>2, <1>5
<1>9. \A j, k \in DOMAIN l : f[j] = f[k] => j = k  BY <1>5
<1>10. Part(l, q, DOMAIN q \ {n})  BY <1>5, <1>7, <1>8, <1>9 DEF Part
<1>11. n \in DOMAIN q /\ q[n] = m  BY <1>1, <1>2, <1>3, <1>4
<1>. QED  BY <1>2, <1>10, <1>11 DEF Joins

(* What holds of any two of a list.                                        *)
AllApart(l) == \A i, j \in DOMAIN l : i # j => Apart(l[i], l[j])

LEMMA JoinsIs ==
  ASSUME NEW X, NEW l, NEW m, NEW q, Joins(X, l, m, q), AllApart(l),
         \A i \in DOMAIN l : Apart(l[i], m)
  PROVE  /\ q \in Seq(X) /\ AllApart(q)
         /\ \A i \in DOMAIN q : q[i] = m \/ \E k \in DOMAIN l : q[i] = l[k]
         /\ ToSet(q) = ToSet(l) \cup {m}
<1>1. q \in Seq(X)  BY DEF Joins
<1>2. PICK n \in DOMAIN q : q[n] = m /\ Part(l, q, DOMAIN q \ {n})  BY DEF Joins
<1>3. PICK f \in [DOMAIN l -> DOMAIN q \ {n}] :
        /\ \A k \in DOMAIN l : l[k] = q[f[k]]
        /\ \A j, k \in DOMAIN l : f[j] = f[k] => j = k
        /\ \A i \in DOMAIN q \ {n} : \E k \in DOMAIN l : f[k] = i
  BY <1>2 DEF Part
<1>4. \A i \in DOMAIN q \ {n} : \E k \in DOMAIN l : f[k] = i /\ q[i] = l[k]  BY <1>3
<1>5. \A i \in DOMAIN q : q[i] = m \/ \E k \in DOMAIN l : q[i] = l[k]  BY <1>2, <1>4
<1>6. ASSUME NEW i \in DOMAIN q, NEW j \in DOMAIN q, i # j PROVE Apart(q[i], q[j])
  <2>1. CASE i = n
    <3>1. PICK k \in DOMAIN l : q[j] = l[k]  BY <1>4, <1>6, <2>1
    <3>2. Apart(l[k], m)  OBVIOUS
    <3>. QED  BY <1>2, <2>1, <3>1, <3>2 DEF Apart
  <2>2. CASE j = n
    <3>1. PICK k \in DOMAIN l : q[i] = l[k]  BY <1>4, <1>6, <2>2
    <3>2. Apart(l[k], m)  OBVIOUS
    <3>. QED  BY <1>2, <2>2, <3>1, <3>2
  <2>3. CASE i # n /\ j # n
    <3>1. PICK k \in DOMAIN l : f[k] = i /\ q[i] = l[k]  BY <1>4, <2>3
    <3>2. PICK o \in DOMAIN l : f[o] = j /\ q[j] = l[o]  BY <1>4, <2>3
    <3>3. k # o  BY <1>6, <3>1, <3>2
    <3>. QED  BY <3>1, <3>2, <3>3 DEF AllApart
  <2>. QED  BY <2>1, <2>2, <2>3
<1>7. ToSet(q) = ToSet(l) \cup {m}
  <2>1. \A x \in ToSet(q) : x \in ToSet(l) \cup {m}  BY <1>5 DEF ToSet
  <2>2. \A k \in DOMAIN l : f[k] \in DOMAIN q /\ l[k] = q[f[k]]  BY <1>3
  <2>3. \A x \in ToSet(l) : x \in ToSet(q)  BY <2>2 DEF ToSet
  <2>4. m \in ToSet(q)  BY <1>2 DEF ToSet
  <2>. QED  BY <2>1, <2>3, <2>4
<1>. QED  BY <1>1, <1>5, <1>6, <1>7 DEF AllApart

(* Some of a list, in their order.                                         *)
LEMMA SomeApart ==
  ASSUME NEW r, NEW l, NEW S \in SUBSET DOMAIN l, Part(r, l, S), AllApart(l)
  PROVE  /\ AllApart(r)
         /\ \A k \in DOMAIN r : \E i \in S : r[k] = l[i]
         /\ ToSet(r) = {l[i] : i \in S}
<1>1. PICK f \in [DOMAIN r -> S] :
        /\ \A k \in DOMAIN r : r[k] = l[f[k]]
        /\ \A j, k \in DOMAIN r : f[j] = f[k] => j = k
        /\ \A i \in S : \E k \in DOMAIN r : f[k] = i
  BY DEF Part
<1>2. \A k \in DOMAIN r : f[k] \in S /\ f[k] \in DOMAIN l  BY <1>1
<1>3. AllApart(r)  BY <1>1, <1>2 DEF AllApart
<1>4. \A k \in DOMAIN r : \E i \in S : r[k] = l[i]  BY <1>1, <1>2
<1>5. \A i \in S : \E k \in DOMAIN r : r[k] = l[i]
  <2>. SUFFICES ASSUME NEW i \in S PROVE \E k \in DOMAIN r : r[k] = l[i]  OBVIOUS
  <2>1. PICK k \in DOMAIN r : f[k] = i  BY <1>1
  <2>. QED  BY <1>1, <2>1
<1>6. ToSet(r) = {l[i] : i \in S}
  <2>1. \A x \in ToSet(r) : x \in {l[i] : i \in S}  BY <1>4 DEF ToSet
  <2>2. \A x \in {l[i] : i \in S} : x \in ToSet(r)
    <3>. SUFFICES ASSUME NEW i \in S PROVE l[i] \in ToSet(r)  OBVIOUS
    <3>1. PICK k \in DOMAIN r : r[k] = l[i]  BY <1>5
    <3>. QED  BY <3>1 DEF ToSet
  <2>. QED  BY <2>1, <2>2
<1>. QED  BY <1>3, <1>4, <1>6

-----------------------------------------------------------------------------
(***************************************************************************)
(* A new mapping.                                                          *)
(***************************************************************************)
Region(m) == [base |-> m.base, size |-> m.size]

RoomFor(s, m) ==
  /\ \A i \in DOMAIN s.memoryMap : Apart(s.memoryMap[i], m)
  /\ \A i \in DOMAIN s.internalMap : Apart(s.internalMap[i], m)

WordsOf(m) == m.base .. m.base + m.size - 1

LEMMA RegionsAre ==
  ASSUME NEW s
  PROVE  /\ RegionsOf(s) = {Region(m) : m \in ToSet(s.memoryMap)}
                             \cup {Region(m) : m \in ToSet(s.internalMap)}
         /\ \A i \in DOMAIN s.memoryMap : Region(s.memoryMap[i]) \in RegionsOf(s)
         /\ \A i \in DOMAIN s.internalMap : Region(s.internalMap[i]) \in RegionsOf(s)
         /\ \A g \in RegionsOf(s) : \/ \E i \in DOMAIN s.memoryMap : g = Region(s.memoryMap[i])
                                    \/ \E i \in DOMAIN s.internalMap : g = Region(s.internalMap[i])
<1>1. RegionsOf(s) = {Region(m) : m \in ToSet(s.memoryMap)}
                       \cup {Region(m) : m \in ToSet(s.internalMap)}
  BY DEF RegionsOf, MapsIn, Region
<1>2. /\ \A i \in DOMAIN s.memoryMap : s.memoryMap[i] \in ToSet(s.memoryMap)
      /\ \A i \in DOMAIN s.internalMap : s.internalMap[i] \in ToSet(s.internalMap)
  BY DEF ToSet
<1>3. \A g \in RegionsOf(s) : \/ \E i \in DOMAIN s.memoryMap : g = Region(s.memoryMap[i])
                              \/ \E i \in DOMAIN s.internalMap : g = Region(s.internalMap[i])
  BY <1>1 DEF ToSet
<1>. QED  BY <1>1, <1>2, <1>3

LEMMA SameRegions ==
  ASSUME NEW s, NEW r, SameMaps(s, r)
  PROVE  RegionsOf(r) = RegionsOf(s) /\ \A m : RoomFor(s, m) => RoomFor(r, m)
<1>1. /\ r.internalMap = s.internalMap /\ DOMAIN r.memoryMap = DOMAIN s.memoryMap
      /\ \A i \in DOMAIN s.memoryMap : /\ r.memoryMap[i].base = s.memoryMap[i].base
                                       /\ r.memoryMap[i].size = s.memoryMap[i].size
  BY DEF SameMaps
<1>2. \A i \in DOMAIN s.memoryMap : Region(r.memoryMap[i]) = Region(s.memoryMap[i])
  BY <1>1 DEF Region
<1>3. RegionsOf(r) = RegionsOf(s)
  <2>1. \A g \in RegionsOf(r) : g \in RegionsOf(s)  BY <1>1, <1>2, RegionsAre
  <2>2. \A g \in RegionsOf(s) : g \in RegionsOf(r)  BY <1>1, <1>2, RegionsAre
  <2>. QED  BY <2>1, <2>2
<1>4. \A m : RoomFor(s, m) => RoomFor(r, m)  BY <1>1 DEF RoomFor, Apart
<1>. QED  BY <1>3, <1>4

(* A mapping that lives in the pages.                                      *)
WithInner(s, m, q, r) ==
  /\ SpaceOK(s) /\ m \in InnerMaps /\ Placed(m) /\ RoomFor(s, m)
  /\ Joins(InnerMaps, s.internalMap, m, q)
  /\ r = [s EXCEPT !.internalMap = q]

LEMMA WithInnerIs ==
  ASSUME NEW s, NEW m, NEW q, NEW r, WithInner(s, m, q, r)
  PROVE  /\ SpaceOK(r) /\ SameValues(s, r)
         /\ RegionsOf(r) = RegionsOf(s) \cup {Region(m)}
<1>. /\ SpaceOK(s) /\ m \in InnerMaps /\ Placed(m) /\ RoomFor(s, m)
     /\ Joins(InnerMaps, s.internalMap, m, q)
     /\ r = [s EXCEPT !.internalMap = q]
  BY DEF WithInner
<1>1. PICK H : H = s.memoryMap  OBVIOUS
<1>2. PICK I : I = s.internalMap  OBVIOUS
<1>3. MapsOK(H, I) /\ PagesOK(s.ptab, s.count)  BY <1>1, <1>2, SpaceIs
<1>4. AllApart(I) /\ AllApart(H)  BY <1>3 DEF MapsOK, AllApart
<1>5. /\ \A i \in DOMAIN H : Apart(H[i], m)
      /\ \A i \in DOMAIN I : Apart(I[i], m)
  BY <1>1, <1>2 DEF RoomFor
<1>6. Joins(InnerMaps, I, m, q)  BY <1>2
<1>7. /\ q \in Seq(InnerMaps) /\ AllApart(q)
      /\ \A i \in DOMAIN q : q[i] = m \/ \E k \in DOMAIN I : q[i] = I[k]
      /\ ToSet(q) = ToSet(I) \cup {m}
  BY <1>4, <1>5, <1>6, JoinsIs
<1>8. MapsOK(H, q)
  <2>1. \A i \in DOMAIN q : Placed(q[i])  BY <1>3, <1>7 DEF MapsOK
  <2>2. \A i \in DOMAIN H, j \in DOMAIN q : Apart(H[i], q[j])
    <3>. SUFFICES ASSUME NEW i \in DOMAIN H, NEW j \in DOMAIN q PROVE Apart(H[i], q[j])
      OBVIOUS
    <3>1. CASE q[j] = m  BY <1>5, <3>1
    <3>2. CASE q[j] # m
      <4>1. PICK k \in DOMAIN I : q[j] = I[k]  BY <1>7, <3>2
      <4>2. Apart(H[i], I[k])  BY <1>3 DEF MapsOK
      <4>. QED  BY <4>1, <4>2
    <3>. QED  BY <3>1, <3>2
  <2>. QED  BY <1>3, <1>7, <2>1, <2>2 DEF MapsOK, AllApart
<1>9. r = [ptab |-> s.ptab, count |-> s.count, memoryMap |-> H, internalMap |-> q]
  <2>1. s = [ptab |-> s.ptab, count |-> s.count, memoryMap |-> s.memoryMap,
             internalMap |-> s.internalMap]
    BY SpaceIs
  <2>. QED  BY <1>1, <2>1
<1>10. r.ptab = s.ptab /\ r.count = s.count /\ r.memoryMap = H /\ r.internalMap = q
  BY <1>9
<1>11. SpaceOK(r)  BY <1>3, <1>8, <1>9, <1>10 DEF SpaceOK
<1>12. SameValues(s, r)
  <2>1. \A c : HostMapOf(r, c) = HostMapOf(s, c)  BY <1>1, <1>10 DEF HostMapOf
  <2>2. \A c : PageAt(r, c) = PageAt(s, c)  BY <1>10 DEF PageAt
  <2>. QED  BY <1>1, <1>10, <2>1, <2>2 DEF SameValues, ValueAt
<1>13. RegionsOf(r) = RegionsOf(s) \cup {Region(m)}
  <2>1. RegionsOf(r) = {Region(n) : n \in ToSet(H)} \cup {Region(n) : n \in ToSet(q)}
    BY <1>10, RegionsAre
  <2>2. RegionsOf(s) = {Region(n) : n \in ToSet(H)} \cup {Region(n) : n \in ToSet(I)}
    BY <1>1, <1>2, RegionsAre
  <2>. QED  BY <1>7, <2>1, <2>2
<1>. QED  BY <1>11, <1>12, <1>13

(* What becomes of a space that gets the mapping m with the words d.        *)
Gets(s, r, m, d) ==
  /\ SpaceOK(r)
  /\ RegionsOf(r) = RegionsOf(s) \cup {Region(m)}
  /\ \A c \in Nat : ValueAt(r, c) = IF c \in WordsOf(m) THEN d[c - m.base + 1]
                                    ELSE ValueAt(s, c)

Asked(s, m, d) ==
  /\ SpaceOK(s) /\ m \in InnerMaps /\ Placed(m) /\ RoomFor(s, m)
  /\ d \in Seq(Word) /\ Len(d) = m.size

LEMMA InsideIs ==
  ASSUME NEW s, NEW m, NEW d, Asked(s, m, d), NEW r, r = MappedInside(s, m, d)
  PROVE  Gets(s, r, m, d)
<1>1. /\ SpaceOK(s) /\ m \in InnerMaps /\ Placed(m) /\ RoomFor(s, m)
      /\ d \in Seq(Word) /\ Len(d) = m.size /\ m.base \in Nat
  BY DEF Asked, Placed
<1>2. PICK t : t = CopiedIn(s, m.base, d)  OBVIOUS
<1>3. CopyMade(s, m.base, d, t)  BY <1>1, <1>2 DEF CopyMade
<1>4. /\ SpaceOK(t) /\ SameMaps(s, t)
      /\ \A c \in Nat : ValueAt(t, c) = IF c \in m.base .. m.base + Len(d) - 1
                                        THEN d[c - m.base + 1] ELSE ValueAt(s, c)
  BY <1>3, CopiedIs
<1>5. PICK q : q = Append(t.internalMap, m)  OBVIOUS
<1>6. t.internalMap \in Seq(InnerMaps)  BY <1>4, SpaceIs, MapIs
<1>7. Joins(InnerMaps, t.internalMap, m, q)  BY <1>1, <1>5, <1>6, AppendJoins
<1>8. WithInner(t, m, q, r)
  <2>1. r = [t EXCEPT !.internalMap = q]  BY <1>2, <1>5 DEF MappedInside
  <2>2. RoomFor(t, m)  BY <1>1, <1>4, SameRegions
  <2>. QED  BY <1>1, <1>4, <1>7, <2>1, <2>2 DEF WithInner
<1>9. SpaceOK(r) /\ SameValues(t, r) /\ RegionsOf(r) = RegionsOf(t) \cup {Region(m)}
  BY <1>8, WithInnerIs
<1>10. RegionsOf(t) = RegionsOf(s)  BY <1>4, SameRegions
<1>. QED  BY <1>1, <1>4, <1>9, <1>10 DEF Gets, SameValues, WordsOf

LEMMA FixedIs ==
  ASSUME NEW s, NEW m, NEW d, Asked(s, m, d), NEW r, r = MappedFixed(s, m, d)
  PROVE  Gets(s, r, m, d)
<1>1. /\ SpaceOK(s) /\ m \in InnerMaps /\ Placed(m) /\ RoomFor(s, m)
      /\ d \in Seq(Word) /\ Len(d) = m.size /\ m.base \in Nat
  BY DEF Asked, Placed
<1>2. PICK q : q = <<m>> \o s.internalMap  OBVIOUS
<1>3. PICK t : t = [s EXCEPT !.internalMap = q]  OBVIOUS
<1>4. s.internalMap \in Seq(InnerMaps)  BY <1>1, SpaceIs, MapIs
<1>5. Joins(InnerMaps, s.internalMap, m, q)  BY <1>1, <1>2, <1>4, ConsJoins
<1>6. WithInner(s, m, q, t)  BY <1>1, <1>3, <1>5 DEF WithInner
<1>7. SpaceOK(t) /\ SameValues(s, t) /\ RegionsOf(t) = RegionsOf(s) \cup {Region(m)}
  BY <1>6, WithInnerIs
<1>8. r = CopiedIn(t, m.base, d)  BY <1>2, <1>3 DEF MappedFixed
<1>9. CopyMade(t, m.base, d, r)  BY <1>1, <1>7, <1>8 DEF CopyMade
<1>10. /\ SpaceOK(r) /\ SameMaps(t, r)
       /\ \A c \in Nat : ValueAt(r, c) = IF c \in m.base .. m.base + Len(d) - 1
                                         THEN d[c - m.base + 1] ELSE ValueAt(t, c)
  BY <1>9, CopiedIs
<1>11. RegionsOf(r) = RegionsOf(t)  BY <1>10, SameRegions
<1>. QED  BY <1>1, <1>7, <1>10, <1>11 DEF Gets, SameValues, WordsOf

(* A mapping of the simulator's own.                                       *)
LEMMA OnHostIs ==
  ASSUME NEW s, NEW m, NEW d, Asked(s, m, d), NEW r, r = MappedOnHost(s, m, d)
  PROVE  Gets(s, r, m, d)
<1>1. /\ SpaceOK(s) /\ m \in InnerMaps /\ Placed(m) /\ RoomFor(s, m)
      /\ d \in Seq(Word) /\ Len(d) = m.size
      /\ m.base \in Nat /\ m.size \in Nat \ {0} /\ m.inherit \in BOOLEAN
  BY DEF Asked, Placed, InnerMaps
<1>2. DOMAIN d = 1 .. m.size /\ \A k \in 1 .. m.size : d[k] \in Word  BY <1>1, SeqIs
<1>3. PICK f : f = [o \in 0 .. (m.size - 1) |-> d[o + 1]]  OBVIOUS
<1>4. /\ f \in [0 .. m.size - 1 -> Word] /\ DOMAIN f = 0 .. m.size - 1
      /\ \A o \in 0 .. m.size - 1 : f[o] = d[o + 1]
  <2>1. \A o \in 0 .. m.size - 1 : o + 1 \in 1 .. m.size  BY <1>1
  <2>. QED  BY <1>2, <1>3, <2>1
<1>5. PICK e : e = [base |-> m.base, size |-> m.size, inherit |-> m.inherit, data |-> f]
  OBVIOUS
<1>6. /\ e \in HostMaps /\ e.base = m.base /\ e.size = m.size /\ e.data = f
      /\ Placed(e) /\ Region(e) = Region(m)
  <2>1. m.size \in 0 .. Words  BY <1>1, PageAssumption DEF Placed
  <2>2. f \in UNION {[0 .. n - 1 -> Word] : n \in 0 .. Words}  BY <1>4, <2>1
  <2>3. e \in HostMaps  BY <1>1, <1>5, <2>2 DEF HostMaps
  <2>4. e.base = m.base /\ e.size = m.size /\ e.data = f  BY <1>5
  <2>. QED  BY <1>1, <2>3, <2>4 DEF Placed, Region
<1>7. PICK H : H = s.memoryMap  OBVIOUS
<1>8. PICK I : I = s.internalMap  OBVIOUS
<1>9. MapsOK(H, I) /\ PagesOK(s.ptab, s.count) /\ H \in Seq(HostMaps)
  BY <1>1, <1>7, <1>8, SpaceIs, MapIs
<1>10. AllApart(I) /\ AllApart(H)  BY <1>9 DEF MapsOK, AllApart
<1>11. /\ \A i \in DOMAIN H : Apart(H[i], e)
       /\ \A i \in DOMAIN I : Apart(I[i], e)
  BY <1>1, <1>6, <1>7, <1>8 DEF RoomFor, Apart
<1>12. PICK G : G = Append(H, e)  OBVIOUS
<1>13. Joins(HostMaps, H, e, G)  BY <1>6, <1>9, <1>12, AppendJoins
<1>14. /\ G \in Seq(HostMaps) /\ AllApart(G)
       /\ \A i \in DOMAIN G : G[i] = e \/ \E k \in DOMAIN H : G[i] = H[k]
       /\ ToSet(G) = ToSet(H) \cup {e}
  BY <1>10, <1>11, <1>13, JoinsIs
<1>15. MapsOK(G, I)
  <2>1. \A i \in DOMAIN G : Placed(G[i]) /\ DOMAIN G[i].data = 0 .. G[i].size - 1
    BY <1>4, <1>6, <1>9, <1>14 DEF MapsOK
  <2>2. \A i \in DOMAIN G, j \in DOMAIN I : Apart(G[i], I[j])
    <3>. SUFFICES ASSUME NEW i \in DOMAIN G, NEW j \in DOMAIN I PROVE Apart(G[i], I[j])
      OBVIOUS
    <3>1. CASE G[i] = e
      <4>1. Apart(I[j], e)  BY <1>11
      <4>. QED  BY <3>1, <4>1 DEF Apart
    <3>2. CASE G[i] # e
      <4>1. PICK k \in DOMAIN H : G[i] = H[k]  BY <1>14, <3>2
      <4>2. Apart(H[k], I[j])  BY <1>9 DEF MapsOK
      <4>. QED  BY <4>1, <4>2
    <3>. QED  BY <3>1, <3>2
  <2>. QED  BY <1>9, <1>14, <2>1, <2>2 DEF MapsOK, AllApart
<1>16. r = [ptab |-> s.ptab, count |-> s.count, memoryMap |-> G, internalMap |-> I]
  <2>1. s = [ptab |-> s.ptab, count |-> s.count, memoryMap |-> s.memoryMap,
             internalMap |-> s.internalMap]
    BY <1>1, SpaceIs
  <2>2. r = [s EXCEPT !.memoryMap = G]  BY <1>3, <1>5, <1>7, <1>12 DEF MappedOnHost
  <2>. QED  BY <1>8, <2>1, <2>2
<1>17. r.ptab = s.ptab /\ r.count = s.count /\ r.memoryMap = G /\ r.internalMap = I
  BY <1>16
<1>18. SpaceOK(r)  BY <1>9, <1>15, <1>16, <1>17 DEF SpaceOK
<1>19. RegionsOf(r) = RegionsOf(s) \cup {Region(m)}
  <2>1. RegionsOf(r) = {Region(n) : n \in ToSet(G)} \cup {Region(n) : n \in ToSet(I)}
    BY <1>17, RegionsAre
  <2>2. RegionsOf(s) = {Region(n) : n \in ToSet(H)} \cup {Region(n) : n \in ToSet(I)}
    BY <1>7, <1>8, RegionsAre
  <2>. QED  BY <1>6, <1>14, <2>1, <2>2
<1>20. \A k \in DOMAIN H : \E i \in DOMAIN G : G[i] = H[k]
  <2>1. \A k \in DOMAIN H : H[k] \in ToSet(G)  BY <1>14 DEF ToSet
  <2>. QED  BY <2>1 DEF ToSet
<1>21. \E i \in DOMAIN G : G[i] = e
  <2>1. e \in ToSet(G)  BY <1>14
  <2>. QED  BY <2>1 DEF ToSet
<1>22. ASSUME NEW c \in Nat
       PROVE  ValueAt(r, c) = IF c \in WordsOf(m) THEN d[c - m.base + 1] ELSE ValueAt(s, c)
  <2>0. IsWithin(e, c) <=> c \in WordsOf(m)  BY <1>1, <1>6 DEF IsWithin, WordsOf
  <2>1. CASE c \in WordsOf(m)
    <3>1. PICK i \in DOMAIN G : G[i] = e  BY <1>21
    <3>2. i \in DOMAIN r.memoryMap /\ r.memoryMap[i] = e /\ IsWithin(r.memoryMap[i], c)
      BY <1>17, <2>0, <2>1, <3>1
    <3>3. ValueAt(r, c) = r.memoryMap[i].data[c - r.memoryMap[i].base]
      BY <1>18, <3>2, ValueIs
    <3>4. c - m.base \in 0 .. m.size - 1  BY <1>1, <2>1 DEF WordsOf
    <3>. QED  BY <1>4, <1>6, <2>1, <3>2, <3>3, <3>4
  <2>2. CASE c \notin WordsOf(m) /\ HostHas(s, c)
    <3>1. PICK k \in DOMAIN H : IsWithin(H[k], c)  BY <1>7, <2>2 DEF HostHas
    <3>2. PICK i \in DOMAIN G : G[i] = H[k]  BY <1>20
    <3>3. i \in DOMAIN r.memoryMap /\ r.memoryMap[i] = H[k] /\ IsWithin(r.memoryMap[i], c)
      BY <1>17, <3>1, <3>2
    <3>4. ValueAt(r, c) = H[k].data[c - H[k].base]  BY <1>18, <3>3, ValueIs
    <3>5. ValueAt(s, c) = H[k].data[c - H[k].base]  BY <1>1, <1>7, <3>1, ValueIs
    <3>. QED  BY <2>2, <3>4, <3>5
  <2>3. CASE c \notin WordsOf(m) /\ ~HostHas(s, c)
    <3>1. ~HostHas(r, c)
      <4>1. \A i \in DOMAIN G : ~IsWithin(G[i], c)
        BY <1>7, <1>14, <2>0, <2>3 DEF HostHas
      <4>. QED  BY <1>17, <4>1 DEF HostHas
    <3>2. ValueAt(r, c) = Reads(s.ptab, c)  BY <1>17, <1>18, <3>1, ValueIs
    <3>3. ValueAt(s, c) = Reads(s.ptab, c)  BY <1>1, <2>3, ValueIs
    <3>. QED  BY <2>3, <3>2, <3>3
  <2>. QED  BY <2>1, <2>2, <2>3
<1>. QED  BY <1>18, <1>19, <1>22 DEF Gets

-----------------------------------------------------------------------------
(***************************************************************************)
(* Fewer mappings, and fewer pages.                                        *)
(***************************************************************************)
LEMMA SelfPart ==
  ASSUME NEW l
  PROVE  Part(l, l, DOMAIN l)
<1>1. PICK f : f = [i \in DOMAIN l |-> i]  OBVIOUS
<1>2. f \in [DOMAIN l -> DOMAIN l] /\ \A i \in DOMAIN l : f[i] = i  BY <1>1
<1>. QED  BY <1>2 DEF Part

Lessened(H, I, S, T, G, J) ==
  /\ MapsOK(H, I) /\ S \in SUBSET DOMAIN H /\ T \in SUBSET DOMAIN I
  /\ G \in Seq(HostMaps) /\ J \in Seq(InnerMaps)
  /\ Part(G, H, S) /\ Part(J, I, T)

LEMMA LessenedIs ==
  ASSUME NEW H, NEW I, NEW S, NEW T, NEW G, NEW J, Lessened(H, I, S, T, G, J)
  PROVE  /\ MapsOK(G, J)
         /\ ToSet(G) = {H[i] : i \in S} /\ ToSet(J) = {I[i] : i \in T}
<1>1. /\ MapsOK(H, I) /\ S \in SUBSET DOMAIN H /\ T \in SUBSET DOMAIN I
      /\ G \in Seq(HostMaps) /\ J \in Seq(InnerMaps)
      /\ Part(G, H, S) /\ Part(J, I, T)
  BY DEF Lessened
<1>2. AllApart(H) /\ AllApart(I)  BY <1>1 DEF MapsOK, AllApart
<1>3. AllApart(G) /\ (\A k \in DOMAIN G : \E i \in S : G[k] = H[i]) /\ ToSet(G) = {H[i] : i \in S}
  BY <1>1, <1>2, SomeApart
<1>4. AllApart(J) /\ (\A k \in DOMAIN J : \E i \in T : J[k] = I[i]) /\ ToSet(J) = {I[i] : i \in T}
  BY <1>1, <1>2, SomeApart
<1>5. ASSUME NEW k \in DOMAIN G PROVE Placed(G[k]) /\ DOMAIN G[k].data = 0 .. G[k].size - 1
  <2>1. PICK i \in DOMAIN H : G[k] = H[i]  BY <1>1, <1>3
  <2>. QED  BY <1>1, <2>1 DEF MapsOK
<1>6. ASSUME NEW k \in DOMAIN J PROVE Placed(J[k])
  <2>1. PICK i \in DOMAIN I : J[k] = I[i]  BY <1>1, <1>4
  <2>. QED  BY <1>1, <2>1 DEF MapsOK
<1>7. ASSUME NEW k \in DOMAIN G, NEW j \in DOMAIN J PROVE Apart(G[k], J[j])
  <2>1. PICK i \in DOMAIN H : G[k] = H[i]  BY <1>1, <1>3
  <2>2. PICK n \in DOMAIN I : J[j] = I[n]  BY <1>1, <1>4
  <2>3. Apart(H[i], I[n])  BY <1>1 DEF MapsOK
  <2>. QED  BY <2>1, <2>2, <2>3
<1>. QED  BY <1>1, <1>3, <1>4, <1>5, <1>6, <1>7 DEF MapsOK, AllApart

(* Only the pages in K stay.                                               *)
PagesLeft(ptab, n, K, q) ==
  /\ PagesOK(ptab, n) /\ K \in SUBSET Pages(ptab)
  /\ q = [b \in BucketNumbers |-> q[b]]
  /\ \A b \in BucketNumbers :
       /\ q[b] \in Seq(Ptes)
       /\ Part(q[b], ptab[b], {i \in DOMAIN ptab[b] : <<b, ptab[b][i].tag>> \in K})

LEMMA PagesLeftIs ==
  ASSUME NEW ptab, NEW n, NEW K, NEW q, PagesLeft(ptab, n, K, q)
  PROVE  /\ PagesOK(q, n - Cardinality(Pages(ptab) \ K))
         /\ \A a \in Nat : Reads(q, a) = IF <<Bucket(a), Tag(a)>> \in K THEN Reads(ptab, a)
                                         ELSE Zero
         /\ \A a \in Nat : <<Bucket(a), Tag(a)>> \notin Pages(ptab) => Reads(ptab, a) = Zero
<1>1. /\ PagesOK(ptab, n) /\ K \in SUBSET Pages(ptab)
      /\ q = [b \in BucketNumbers |-> q[b]]
      /\ \A b \in BucketNumbers : q[b] \in Seq(Ptes)
  BY DEF PagesLeft
<1>2. /\ ptab \in [BucketNumbers -> Seq(Ptes)]
      /\ \A b \in BucketNumbers : ListOK(ptab[b])
      /\ IsFiniteSet(Pages(ptab)) /\ n = Cardinality(Pages(ptab))
  BY <1>1, TableIs
<1>3. /\ \A b \in BucketNumbers : \A t : t \in Tags(ptab[b]) <=> <<b, t>> \in Pages(ptab)
      /\ \A g \in Pages(ptab) : \E b, t : b \in BucketNumbers /\ t \in Tags(ptab[b]) /\ g = <<b, t>>
  BY <1>2, PagesAre
<1>4. ASSUME NEW b \in BucketNumbers
      PROVE  /\ ListOK(q[b])
             /\ \A t : t \in Tags(q[b]) <=> <<b, t>> \in K
             /\ \A t \in Tags(q[b]), o \in Offsets : Paged(q[b], t, o) = Paged(ptab[b], t, o)
  <2>1. PICK S : S = {i \in DOMAIN ptab[b] : <<b, ptab[b][i].tag>> \in K}  OBVIOUS
  <2>2. PICK l : l = ptab[b]  OBVIOUS
  <2>3. PICK r : r = q[b]  OBVIOUS
  <2>4. ListOK(l) /\ S \in SUBSET DOMAIN l /\ r \in Seq(Ptes) /\ Part(r, l, S)
    BY <1>1, <1>2, <2>1, <2>2, <2>3 DEF PagesLeft
  <2>5. /\ ListOK(r) /\ Tags(r) = {l[i].tag : i \in S}
        /\ \A t \in Tags(r), o \in Offsets : Paged(r, t, o) = Paged(l, t, o)
    BY <2>4, PartList
  <2>6. ASSUME NEW t PROVE t \in Tags(r) <=> <<b, t>> \in K
    <3>1. ASSUME t \in Tags(r) PROVE <<b, t>> \in K  BY <2>1, <2>2, <2>5, <3>1
    <3>2. ASSUME <<b, t>> \in K PROVE t \in Tags(r)
      <4>1. t \in Tags(l)  BY <1>1, <1>3, <2>2, <3>2
      <4>2. PICK i \in DOMAIN l : t = l[i].tag  BY <4>1 DEF Tags
      <4>3. i \in S  BY <2>1, <2>2, <3>2, <4>2
      <4>. QED  BY <2>5, <4>2, <4>3
    <3>. QED  BY <3>1, <3>2
  <2>. QED  BY <2>2, <2>3, <2>5, <2>6
<1>5. q \in [BucketNumbers -> Seq(Ptes)]  BY <1>1
<1>6. /\ \A b \in BucketNumbers : \A t : t \in Tags(q[b]) <=> <<b, t>> \in Pages(q)
      /\ \A g \in Pages(q) : \E b, t : b \in BucketNumbers /\ t \in Tags(q[b]) /\ g = <<b, t>>
  BY <1>5, PagesAre
<1>7. Pages(q) = K
  <2>1. ASSUME NEW g \in Pages(q) PROVE g \in K
    <3>1. PICK b, t : b \in BucketNumbers /\ t \in Tags(q[b]) /\ g = <<b, t>>  BY <1>6
    <3>. QED  BY <1>4, <3>1
  <2>2. ASSUME NEW g \in K PROVE g \in Pages(q)
    <3>1. PICK b, t : b \in BucketNumbers /\ t \in Tags(ptab[b]) /\ g = <<b, t>>
      BY <1>1, <1>3
    <3>2. t \in Tags(q[b])  BY <1>4, <3>1
    <3>. QED  BY <1>6, <3>1, <3>2
  <2>. QED  BY <2>1, <2>2
<1>8. IsFiniteSet(K) /\ Cardinality(K) = n - Cardinality(Pages(ptab) \ K)
  <2>1. PICK A : A = Pages(ptab)  OBVIOUS
  <2>2. PICK D : D = A \ K  OBVIOUS
  <2>3. IsFiniteSet(A) /\ IsFiniteSet(D)  BY <1>2, <2>1, <2>2, FS_Subset
  <2>4. /\ IsFiniteSet(A \ D)
        /\ Cardinality(A \ D) = Cardinality(A) - Cardinality(A \cap D)
    BY <2>3, FS_Difference
  <2>5. A \ D = K /\ A \cap D = D  BY <1>1, <2>1, <2>2
  <2>. QED  BY <1>2, <2>1, <2>2, <2>4, <2>5
<1>9. PagesOK(q, n - Cardinality(Pages(ptab) \ K))
  BY <1>4, <1>5, <1>7, <1>8 DEF PagesOK, ListOK
<1>10. ASSUME NEW a \in Nat
       PROVE  /\ Reads(q, a) = IF <<Bucket(a), Tag(a)>> \in K THEN Reads(ptab, a) ELSE Zero
              /\ <<Bucket(a), Tag(a)>> \notin Pages(ptab) => Reads(ptab, a) = Zero
  <2>1. PICK b \in BucketNumbers : b = Bucket(a)  BY AddressIs
  <2>2. PICK t : t = Tag(a)  OBVIOUS
  <2>3. PICK o \in Offsets : o = Offset(a)  BY AddressIs DEF Offsets
  <2>4. Reads(q, a) = Paged(q[b], t, o) /\ Reads(ptab, a) = Paged(ptab[b], t, o)
    BY <2>1, <2>2, <2>3 DEF Reads
  <2>5. t \notin Tags(ptab[b]) => Paged(ptab[b], t, o) = Zero  BY <1>2, PagedIs
  <2>6. t \notin Tags(q[b]) => Paged(q[b], t, o) = Zero  BY <1>4, PagedIs
  <2>. QED  BY <1>3, <1>4, <2>1, <2>2, <2>4, <2>5, <2>6
<1>. QED  BY <1>9, <1>10

(***************************************************************************)
(* A space with fewer mappings and other pages: a word of the mappings of  *)
(* the simulator's own that stay is as it was.                             *)
(***************************************************************************)
Reduced(s, r, S, T) ==
  /\ SpaceOK(s)
  /\ Lessened(s.memoryMap, s.internalMap, S, T, r.memoryMap, r.internalMap)
  /\ r = [ptab |-> r.ptab, count |-> r.count, memoryMap |-> r.memoryMap,
          internalMap |-> r.internalMap]
  /\ PagesOK(r.ptab, r.count)

LEMMA ReducedIs ==
  ASSUME NEW s, NEW r, NEW S, NEW T, Reduced(s, r, S, T)
  PROVE  /\ SpaceOK(r)
         /\ RegionsOf(r) = {Region(s.memoryMap[i]) : i \in S}
                             \cup {Region(s.internalMap[i]) : i \in T}
         /\ \A c \in Nat : HostHas(r, c) <=> \E i \in S : IsWithin(s.memoryMap[i], c)
         /\ \A c \in Nat : HostHas(r, c) => ValueAt(r, c) = ValueAt(s, c)
         /\ \A c \in Nat : ~HostHas(r, c) => ValueAt(r, c) = Reads(r.ptab, c)
<1>1. PICK H : H = s.memoryMap  OBVIOUS
<1>2. PICK I : I = s.internalMap  OBVIOUS
<1>3. PICK G : G = r.memoryMap  OBVIOUS
<1>4. PICK J : J = r.internalMap  OBVIOUS
<1>5. /\ SpaceOK(s) /\ Lessened(H, I, S, T, G, J)
      /\ r = [ptab |-> r.ptab, count |-> r.count, memoryMap |-> r.memoryMap,
              internalMap |-> r.internalMap]
      /\ PagesOK(r.ptab, r.count)
  BY <1>1, <1>2, <1>3, <1>4 DEF Reduced
<1>6. /\ MapsOK(G, J)
      /\ ToSet(G) = {H[i] : i \in S} /\ ToSet(J) = {I[i] : i \in T}
  BY <1>5, LessenedIs
<1>7. SpaceOK(r)  BY <1>3, <1>4, <1>5, <1>6 DEF SpaceOK
<1>8. RegionsOf(r) = {Region(H[i]) : i \in S} \cup {Region(I[i]) : i \in T}
  <2>1. RegionsOf(r) = {Region(m) : m \in ToSet(G)} \cup {Region(m) : m \in ToSet(J)}
    BY <1>3, <1>4, RegionsAre
  <2>. QED  BY <1>6, <2>1
<1>9. /\ \A k \in DOMAIN G : \E i \in S : G[k] = H[i]
      /\ \A i \in S : \E k \in DOMAIN G : G[k] = H[i]
  <2>1. \A k \in DOMAIN G : G[k] \in ToSet(G)  BY DEF ToSet
  <2>2. \A x \in ToSet(G) : \E k \in DOMAIN G : G[k] = x  BY DEF ToSet
  <2>. QED  BY <1>6, <2>1, <2>2
<1>10. \A c \in Nat : HostHas(r, c) <=> \E i \in S : IsWithin(H[i], c)
  BY <1>3, <1>9 DEF HostHas
<1>11. ASSUME NEW c \in Nat, HostHas(r, c) PROVE ValueAt(r, c) = ValueAt(s, c)
  <2>1. PICK k \in DOMAIN G : IsWithin(G[k], c)  BY <1>3, <1>11 DEF HostHas
  <2>2. PICK i \in S : G[k] = H[i]  BY <1>9
  <2>3. i \in DOMAIN H /\ IsWithin(H[i], c)  BY <1>5, <2>1, <2>2 DEF Lessened
  <2>4. ValueAt(s, c) = H[i].data[c - H[i].base]  BY <1>1, <1>5, <2>3, ValueIs
  <2>5. ValueAt(r, c) = G[k].data[c - G[k].base]  BY <1>3, <1>7, <2>1, ValueIs
  <2>. QED  BY <2>2, <2>4, <2>5
<1>12. \A c \in Nat : ~HostHas(r, c) => ValueAt(r, c) = Reads(r.ptab, c)  BY <1>7, ValueIs
<1>. QED  BY <1>1, <1>2, <1>7, <1>8, <1>10, <1>11, <1>12

-----------------------------------------------------------------------------
(***************************************************************************)
(* munmap.                                                                 *)
(***************************************************************************)
BaseAt(l, a) == SelectInSeq(l, LAMBDA map : map.base = a)

LEMMA BaseAtIs ==
  ASSUME NEW X, NEW l \in Seq(X), NEW a
  PROVE  /\ BaseAt(l, a) # 0 => BaseAt(l, a) \in DOMAIN l /\ l[BaseAt(l, a)].base = a
         /\ (\E i \in DOMAIN l : l[i].base = a) => BaseAt(l, a) # 0
<1>. DEFINE T == {i \in 1 .. Len(l) : l[i].base = a}
<1>1. BaseAt(l, a) = IF T # {} THEN Min(T) ELSE 0  BY DEF BaseAt, SelectInSeq
<1>2. Len(l) \in Nat /\ DOMAIN l = 1 .. Len(l)  BY SeqIs
<1>3. T \in SUBSET Nat  BY <1>2
<1>4. T # {} => Min(T) \in T /\ Min(T) # 0
  <2>1. T # {} => Min(T) \in T  BY <1>3, MinIs
  <2>. QED  BY <1>2, <2>1
<1>5. BaseAt(l, a) # 0 => T # {} /\ BaseAt(l, a) \in T  BY <1>1, <1>4
<1>6. (\E i \in DOMAIN l : l[i].base = a) => T # {}  BY <1>2
<1>. QED  BY <1>1, <1>2, <1>4, <1>5, <1>6

(* A region is there once.                                                 *)
LEMMA RegionsApart ==
  ASSUME NEW m, NEW n, Apart(m, n), m.base \in Nat, n.base \in Nat,
         m.size \in Nat \ {0}, n.size \in Nat \ {0}
  PROVE  Region(m) # Region(n) /\ WordsOf(m) \cap WordsOf(n) = {}
<1>1. Region(m).base = m.base /\ Region(n).base = n.base  BY DEF Region
<1>2. m.base # n.base  BY DEF Apart
<1>3. ASSUME NEW c \in WordsOf(m), c \in WordsOf(n) PROVE FALSE
  BY <1>3 DEF WordsOf, Apart
<1>. QED  BY <1>1, <1>2, <1>3

LEMMA UnmappedIs ==
  ASSUME NEW s, SpaceOK(s), NEW m \in MapsIn(s), NEW r, r = Unmapped(s, m.base)
  PROVE  /\ SpaceOK(r)
         /\ \E g \in RegionsOf(s) :
              /\ RegionsOf(r) = RegionsOf(s) \ {g}
              /\ \A c \in Nat \ WordsOf(g) : ValueAt(r, c) = ValueAt(s, c)
<1>1. PICK H : H = s.memoryMap  OBVIOUS
<1>2. PICK I : I = s.internalMap  OBVIOUS
<1>3. /\ MapsOK(H, I) /\ PagesOK(s.ptab, s.count) /\ H \in Seq(HostMaps) /\ I \in Seq(InnerMaps)
      /\ s = [ptab |-> s.ptab, count |-> s.count, memoryMap |-> H, internalMap |-> I]
      /\ \A i \in DOMAIN H : H[i].base \in Nat /\ H[i].size \in Nat \ {0}
      /\ \A i \in DOMAIN I : I[i].base \in Nat /\ I[i].size \in Nat \ {0}
  BY <1>1, <1>2, SpaceIs, MapIs
<1>4. PICK a : a = m.base  OBVIOUS
<1>5. PICK h : h = BaseAt(H, a)  OBVIOUS
<1>6. PICK i : i = BaseAt(I, a)  OBVIOUS
<1>7. r = IF h # 0 THEN [s EXCEPT !.memoryMap = RemoveAt(H, h)]
          ELSE [s EXCEPT !.internalMap = RemoveAt(I, i)]
  BY <1>1, <1>2, <1>4, <1>5, <1>6 DEF Unmapped, BaseAt
<1>8. RegionsOf(s) = {Region(H[k]) : k \in DOMAIN H} \cup {Region(I[k]) : k \in DOMAIN I}
  BY <1>1, <1>2, RegionsAre DEF ToSet
<1>9. Part(H, H, DOMAIN H) /\ Part(I, I, DOMAIN I)  BY SelfPart
<1>10. CASE h # 0
  <2>1. h \in DOMAIN H  BY <1>3, <1>5, <1>10, BaseAtIs
  <2>2. PICK G : G = RemoveAt(H, h)  OBVIOUS
  <2>3. PICK S : S = DOMAIN H \ {h}  OBVIOUS
  <2>4. G \in Seq(HostMaps) /\ Part(G, H, S)
    <3>1. RemoveAt(H, h) \in Seq(HostMaps)  BY <1>3, <2>1, RemoveAtIs
    <3>2. Part(RemoveAt(H, h), H, DOMAIN H \ {h})  BY <1>3, <2>1, RemovedPart
    <3>. QED  BY <2>2, <2>3, <3>1, <3>2
  <2>5. r = [ptab |-> s.ptab, count |-> s.count, memoryMap |-> G, internalMap |-> I]
    BY <1>3, <1>7, <1>10, <2>2
  <2>6. r.ptab = s.ptab /\ r.count = s.count /\ r.memoryMap = G /\ r.internalMap = I
    BY <2>5
  <2>7. Lessened(H, I, S, DOMAIN I, G, I)
    BY <1>3, <1>9, <2>3, <2>4 DEF Lessened
  <2>8. Reduced(s, r, S, DOMAIN I)
    BY <1>1, <1>2, <1>3, <2>5, <2>6, <2>7 DEF Reduced
  <2>9. /\ SpaceOK(r)
        /\ RegionsOf(r) = {Region(H[k]) : k \in S} \cup {Region(I[k]) : k \in DOMAIN I}
        /\ \A c \in Nat : HostHas(r, c) <=> \E k \in S : IsWithin(H[k], c)
        /\ \A c \in Nat : HostHas(r, c) => ValueAt(r, c) = ValueAt(s, c)
        /\ \A c \in Nat : ~HostHas(r, c) => ValueAt(r, c) = Reads(r.ptab, c)
    BY <1>1, <1>2, <2>8, ReducedIs
  <2>10. PICK g : g = Region(H[h])  OBVIOUS
  <2>11. /\ \A k \in DOMAIN H : k # h => Region(H[k]) # g
         /\ \A k \in DOMAIN I : Region(I[k]) # g
    <3>1. \A k \in DOMAIN H : k # h => Apart(H[k], H[h])  BY <1>3, <2>1 DEF MapsOK
    <3>2. \A k \in DOMAIN I : Apart(H[h], I[k])  BY <1>3, <2>1 DEF MapsOK
    <3>. QED  BY <1>3, <2>1, <2>10, <3>1, <3>2, RegionsApart
  <2>12. g \in RegionsOf(s) /\ RegionsOf(r) = RegionsOf(s) \ {g}
    BY <1>8, <2>1, <2>3, <2>9, <2>10, <2>11
  <2>13. ASSUME NEW c \in Nat \ WordsOf(g) PROVE ValueAt(r, c) = ValueAt(s, c)
    <3>1. CASE HostHas(r, c)  BY <2>9, <3>1
    <3>2. CASE ~HostHas(r, c)
      <4>1. ~IsWithin(H[h], c)
        <5>1. WordsOf(g) = WordsOf(H[h])  BY <2>10 DEF WordsOf, Region
        <5>2. c \in Nat /\ c \notin WordsOf(H[h])  BY <2>13, <5>1
        <5>3. PICK x \in Nat : x = H[h].base  BY <1>3, <2>1
        <5>4. PICK z \in Nat : z = H[h].size  BY <1>3, <2>1
        <5>5. c \notin x .. x + z - 1  BY <5>2, <5>3, <5>4 DEF WordsOf
        <5>6. ~(c >= x /\ c - x < z)  BY <5>2, <5>5
        <5>. QED  BY <5>3, <5>4, <5>6 DEF IsWithin
      <4>2. ~HostHas(s, c)  BY <1>1, <2>3, <2>9, <3>2, <4>1 DEF HostHas
      <4>3. ValueAt(s, c) = Reads(s.ptab, c)  BY <4>2, ValueIs
      <4>. QED  BY <2>6, <2>9, <3>2, <4>3
    <3>. QED  BY <3>1, <3>2
  <2>. QED  BY <2>9, <2>12, <2>13
<1>11. CASE ~(h # 0)
  <2>1. i \in DOMAIN I
    <3>1. ~\E k \in DOMAIN H : H[k].base = a  BY <1>3, <1>5, <1>11, BaseAtIs
    <3>2. m \in ToSet(I)
      <4>1. m \in ToSet(H) \/ m \in ToSet(I)  BY <1>1, <1>2 DEF MapsIn
      <4>2. m \notin ToSet(H)  BY <1>4, <3>1 DEF ToSet
      <4>. QED  BY <4>1, <4>2
    <3>3. \E k \in DOMAIN I : I[k].base = a  BY <1>4, <3>2 DEF ToSet
    <3>. QED  BY <1>3, <1>6, <3>3, BaseAtIs
  <2>2. PICK J : J = RemoveAt(I, i)  OBVIOUS
  <2>3. PICK T : T = DOMAIN I \ {i}  OBVIOUS
  <2>4. J \in Seq(InnerMaps) /\ Part(J, I, T)
    <3>1. RemoveAt(I, i) \in Seq(InnerMaps)  BY <1>3, <2>1, RemoveAtIs
    <3>2. Part(RemoveAt(I, i), I, DOMAIN I \ {i})  BY <1>3, <2>1, RemovedPart
    <3>. QED  BY <2>2, <2>3, <3>1, <3>2
  <2>5. r = [ptab |-> s.ptab, count |-> s.count, memoryMap |-> H, internalMap |-> J]
    BY <1>3, <1>7, <1>11, <2>2
  <2>6. r.ptab = s.ptab /\ r.count = s.count /\ r.memoryMap = H /\ r.internalMap = J
    BY <2>5
  <2>7. Lessened(H, I, DOMAIN H, T, H, J)
    BY <1>3, <1>9, <2>3, <2>4 DEF Lessened
  <2>8. Reduced(s, r, DOMAIN H, T)
    BY <1>1, <1>2, <1>3, <2>5, <2>6, <2>7 DEF Reduced
  <2>9. /\ SpaceOK(r)
        /\ RegionsOf(r) = {Region(H[k]) : k \in DOMAIN H} \cup {Region(I[k]) : k \in T}
        /\ \A c \in Nat : HostHas(r, c) <=> \E k \in DOMAIN H : IsWithin(H[k], c)
        /\ \A c \in Nat : HostHas(r, c) => ValueAt(r, c) = ValueAt(s, c)
        /\ \A c \in Nat : ~HostHas(r, c) => ValueAt(r, c) = Reads(r.ptab, c)
    BY <1>1, <1>2, <2>8, ReducedIs
  <2>10. PICK g : g = Region(I[i])  OBVIOUS
  <2>11. /\ \A k \in DOMAIN I : k # i => Region(I[k]) # g
         /\ \A k \in DOMAIN H : Region(H[k]) # g
    <3>1. \A k \in DOMAIN I : k # i => Apart(I[k], I[i])  BY <1>3, <2>1 DEF MapsOK
    <3>2. \A k \in DOMAIN H : Apart(H[k], I[i])  BY <1>3, <2>1 DEF MapsOK
    <3>. QED  BY <1>3, <2>1, <2>10, <3>1, <3>2, RegionsApart
  <2>12. g \in RegionsOf(s) /\ RegionsOf(r) = RegionsOf(s) \ {g}
    BY <1>8, <2>1, <2>3, <2>9, <2>10, <2>11
  <2>13. ASSUME NEW c \in Nat PROVE ValueAt(r, c) = ValueAt(s, c)
    <3>1. CASE HostHas(r, c)  BY <2>9, <3>1
    <3>2. CASE ~HostHas(r, c)
      <4>1. ~HostHas(s, c)  BY <1>1, <2>9, <3>2 DEF HostHas
      <4>2. ValueAt(s, c) = Reads(s.ptab, c)  BY <4>1, ValueIs
      <4>. QED  BY <2>6, <2>9, <3>2, <4>2
    <3>. QED  BY <3>1, <3>2
  <2>. QED  BY <2>9, <2>12, <2>13
<1>. QED  BY <1>10, <1>11

-----------------------------------------------------------------------------
(***************************************************************************)
(* exec, fork and exit.                                                    *)
(***************************************************************************)
\* The page of c is in a mapping of r.
PageKept(r, c) == \E g \in RegionsOf(r) : PageStart(c) \in WordsOf(g)

Flushes(s, r) ==
  /\ SpaceOK(r) /\ RegionsOf(r) \in SUBSET RegionsOf(s)
  /\ \A c \in Nat : ValueAt(r, c) = IF PageKept(r, c) THEN ValueAt(s, c) ELSE Zero

LEMMA MissedOne ==
  ASSUME NEW m, Placed(m), NEW x \in Nat, Aligned(x)
  PROVE  Missed(m, x, 1) <=> x \notin WordsOf(m)
<1>1. m.base \in Nat /\ m.size \in Nat  BY DEF Placed
<1>2. \A y \in Checks(m) : y \in Nat  BY CheckIs
<1>3. \A y \in Nat : (y >= x /\ y - x < 1) <=> y = x  OBVIOUS
<1>4. Missed(m, x, 1) <=> x \notin Checks(m)  BY <1>2, <1>3 DEF Missed
<1>5. x \in Checks(m) <=> x \in WordsOf(m)  BY <1>1, CheckIs DEF WordsOf
<1>. QED  BY <1>4, <1>5

LEMMA FlushedIs ==
  ASSUME NEW s, SpaceOK(s), NEW r, r = ExecFlushed(s)
  PROVE  Flushes(s, r)
<1>1. PICK H : H = s.memoryMap  OBVIOUS
<1>2. PICK I : I = s.internalMap  OBVIOUS
<1>3. PICK P : P = s.ptab  OBVIOUS
<1>4. PICK S : S = {i \in DOMAIN H : H[i].inherit}  OBVIOUS
<1>5. PICK T : T = {i \in DOMAIN I : I[i].inherit}  OBVIOUS
<1>6. PICK G : G = Picked(H, S)  OBVIOUS
<1>7. PICK J : J = Picked(I, T)  OBVIOUS
<1>8. PICK left : left = [s EXCEPT !.memoryMap = G, !.internalMap = J]  OBVIOUS
<1>9. PICK K : K = {pg \in Pages(P) : ~Fits(left, PageBase(pg[1], pg[2]), 1)}  OBVIOUS
<1>10. PICK Q : Q = [b \in DOMAIN P |->
                       Picked(P[b], {i \in DOMAIN P[b] :
                                       ~Fits(left, PageBase(b, P[b][i].tag), 1)})]
  OBVIOUS
<1>11. PICK n : n = s.count - Cardinality(Pages(P) \ K)  OBVIOUS
<1>12. /\ MapsOK(H, I) /\ PagesOK(P, s.count) /\ H \in Seq(HostMaps) /\ I \in Seq(InnerMaps)
       /\ s = [ptab |-> P, count |-> s.count, memoryMap |-> H, internalMap |-> I]
       /\ DOMAIN P = BucketNumbers /\ \A b \in BucketNumbers : ListOK(P[b])
       /\ \A i \in DOMAIN H : H[i].base \in Nat /\ H[i].size \in Nat \ {0} /\ Placed(H[i])
       /\ \A i \in DOMAIN I : I[i].base \in Nat /\ I[i].size \in Nat \ {0} /\ Placed(I[i])
  BY <1>1, <1>2, <1>3, SpaceIs, MapIs
<1>13. left = [ptab |-> P, count |-> s.count, memoryMap |-> G, internalMap |-> J]
  <2>1. PICK k : k = s.count  OBVIOUS
  <2>2. s = [ptab |-> P, count |-> k, memoryMap |-> H, internalMap |-> I]  BY <1>12, <2>1
  <2>3. PICK u : u = [s EXCEPT !.memoryMap = G]  OBVIOUS
  <2>4. u = [ptab |-> P, count |-> k, memoryMap |-> G, internalMap |-> I]
    BY ONLY <2>2, <2>3
  <2>5. [u EXCEPT !.internalMap = J] = [ptab |-> P, count |-> k, memoryMap |-> G, internalMap |-> J]
    BY ONLY <2>4
  <2>6. left = [u EXCEPT !.internalMap = J]  BY <1>8, <2>3
  <2>. QED  BY <2>1, <2>5, <2>6
<1>14. left.memoryMap = G /\ left.internalMap = J /\ left.ptab = P /\ left.count = s.count
  BY <1>13
<1>15. r = [left EXCEPT !.ptab = Q, !.count = n]
  <2>1. Pages(P) \ K = {pg \in Pages(P) : ~~Fits(left, PageBase(pg[1], pg[2]), 1)}  BY <1>9
  <2>. QED
    BY <1>1, <1>2, <1>3, <1>4, <1>5, <1>6, <1>7, <1>8, <1>10, <1>11, <2>1 DEF ExecFlushed
<1>16. r = [ptab |-> Q, count |-> n, memoryMap |-> G, internalMap |-> J]
  BY <1>13, <1>15
<1>17. r.ptab = Q /\ r.count = n /\ r.memoryMap = G /\ r.internalMap = J  BY <1>16
<1>18. Lessened(H, I, S, T, G, J)
  <2>1. S \in SUBSET DOMAIN H /\ T \in SUBSET DOMAIN I  BY <1>4, <1>5
  <2>2. G \in Seq(HostMaps) /\ Part(G, H, S)  BY <1>6, <1>12, <2>1, PickedIs
  <2>3. J \in Seq(InnerMaps) /\ Part(J, I, T)  BY <1>7, <1>12, <2>1, PickedIs
  <2>. QED  BY <1>12, <2>1, <2>2, <2>3 DEF Lessened
<1>19. P \in [BucketNumbers -> Seq(Ptes)]  BY <1>12, TableIs
<1>20. \A b \in BucketNumbers : \A t : t \in Tags(P[b]) <=> <<b, t>> \in Pages(P)
  BY <1>19, PagesAre
<1>21. PagesLeft(P, s.count, K, Q)
  <2>1. Q = [b \in BucketNumbers |-> Q[b]]  BY <1>10, <1>12
  <2>2. ASSUME NEW b \in BucketNumbers
        PROVE  /\ Q[b] \in Seq(Ptes)
               /\ Part(Q[b], P[b], {i \in DOMAIN P[b] : <<b, P[b][i].tag>> \in K})
    <3>1. PICK A : A = {i \in DOMAIN P[b] : ~Fits(left, PageBase(b, P[b][i].tag), 1)}  OBVIOUS
    <3>2. A \in SUBSET DOMAIN P[b] /\ P[b] \in Seq(Ptes)  BY <1>12, <3>1 DEF ListOK
    <3>3. Q[b] = Picked(P[b], A)  BY <1>10, <1>12, <3>1
    <3>4. Q[b] \in Seq(Ptes) /\ Part(Q[b], P[b], A)  BY <3>2, <3>3, PickedIs
    <3>5. A = {i \in DOMAIN P[b] : <<b, P[b][i].tag>> \in K}
      <4>1. \A i \in DOMAIN P[b] : <<b, P[b][i].tag>> \in Pages(P)
        BY <1>20 DEF Tags
      <4>2. \A i \in DOMAIN P[b] : <<b, P[b][i].tag>> \in K <=> i \in A
        BY <1>9, <3>1, <4>1
      <4>. QED  BY <3>2, <4>2
    <3>. QED  BY <3>4, <3>5
  <2>3. K \in SUBSET Pages(P)  BY <1>9
  <2>. QED  BY <1>12, <2>1, <2>2, <2>3 DEF PagesLeft
<1>22. /\ PagesOK(Q, n)
       /\ \A a \in Nat : Reads(Q, a) = IF <<Bucket(a), Tag(a)>> \in K THEN Reads(P, a)
                                       ELSE Zero
       /\ \A a \in Nat : <<Bucket(a), Tag(a)>> \notin Pages(P) => Reads(P, a) = Zero
  <2>1. PICK k : k = s.count  OBVIOUS
  <2>2. PagesLeft(P, k, K, Q)  BY <1>21, <2>1
  <2>3. /\ PagesOK(Q, k - Cardinality(Pages(P) \ K))
        /\ \A a \in Nat : Reads(Q, a) = IF <<Bucket(a), Tag(a)>> \in K THEN Reads(P, a)
                                          ELSE Zero
        /\ \A a \in Nat : <<Bucket(a), Tag(a)>> \notin Pages(P) => Reads(P, a) = Zero
    BY ONLY <2>2, PagesLeftIs
  <2>. QED  BY <1>11, <2>1, <2>3
<1>23. Reduced(s, r, S, T)
  BY <1>1, <1>2, <1>16, <1>17, <1>18, <1>22 DEF Reduced
<1>24. /\ SpaceOK(r)
       /\ RegionsOf(r) = {Region(H[k]) : k \in S} \cup {Region(I[k]) : k \in T}
       /\ \A c \in Nat : HostHas(r, c) <=> \E k \in S : IsWithin(H[k], c)
       /\ \A c \in Nat : HostHas(r, c) => ValueAt(r, c) = ValueAt(s, c)
       /\ \A c \in Nat : ~HostHas(r, c) => ValueAt(r, c) = Reads(r.ptab, c)
  BY <1>1, <1>2, <1>23, ReducedIs
<1>25. RegionsOf(r) \in SUBSET RegionsOf(s)
  <2>1. RegionsOf(s) = {Region(H[k]) : k \in DOMAIN H} \cup {Region(I[k]) : k \in DOMAIN I}
    BY <1>1, <1>2, RegionsAre DEF ToSet
  <2>. QED  BY <1>4, <1>5, <1>24, <2>1
<1>26. \A c : PageKept(r, c) <=> \/ \E k \in S : PageStart(c) \in WordsOf(H[k])
                                 \/ \E k \in T : PageStart(c) \in WordsOf(I[k])
  <2>1. \A m : WordsOf(Region(m)) = WordsOf(m)  BY DEF WordsOf, Region
  <2>. QED  BY <1>24, <2>1 DEF PageKept
<1>27. /\ \A k \in DOMAIN G : \E i \in S : G[k] = H[i]
       /\ \A i \in S : \E k \in DOMAIN G : G[k] = H[i]
       /\ \A k \in DOMAIN J : \E i \in T : J[k] = I[i]
       /\ \A i \in T : \E k \in DOMAIN J : J[k] = I[i]
  <2>1. ToSet(G) = {H[i] : i \in S} /\ ToSet(J) = {I[i] : i \in T}  BY <1>18, LessenedIs
  <2>2. /\ \A k \in DOMAIN G : G[k] \in ToSet(G)
        /\ \A x \in ToSet(G) : \E k \in DOMAIN G : G[k] = x
        /\ \A k \in DOMAIN J : J[k] \in ToSet(J)
        /\ \A x \in ToSet(J) : \E k \in DOMAIN J : J[k] = x
    BY DEF ToSet
  <2>. QED  BY <2>1, <2>2
<1>28. ASSUME NEW c \in Nat
       PROVE  <<Bucket(c), Tag(c)>> \in Pages(P) => (<<Bucket(c), Tag(c)>> \in K <=> PageKept(r, c))
  <2>1. PICK x \in Nat : x = PageStart(c) /\ Aligned(x) /\ x = PageBase(Bucket(c), Tag(c))
    BY AddressIs, PageStartIs
  <2>2. /\ \A i \in S : Missed(H[i], x, 1) <=> x \notin WordsOf(H[i])
        /\ \A i \in T : Missed(I[i], x, 1) <=> x \notin WordsOf(I[i])
    BY <1>4, <1>5, <1>12, <2>1, MissedOne
  <2>3. Fits(left, x, 1) <=> /\ \A k \in DOMAIN G : Missed(G[k], x, 1)
                             /\ \A k \in DOMAIN J : Missed(J[k], x, 1)
    BY <1>14, FitsIs
  <2>4. Fits(left, x, 1) <=> /\ \A i \in S : x \notin WordsOf(H[i])
                             /\ \A i \in T : x \notin WordsOf(I[i])
    BY <1>27, <2>2, <2>3
  <2>5. PageKept(r, c) <=> ~Fits(left, x, 1)  BY <1>26, <2>1, <2>4
  <2>6. PICK pg : pg = <<Bucket(c), Tag(c)>>  OBVIOUS
  <2>7. pg[1] = Bucket(c) /\ pg[2] = Tag(c)  BY <2>6
  <2>8. pg \in Pages(P) => (pg \in K <=> ~Fits(left, x, 1))  BY <1>9, <2>1, <2>7
  <2>. QED  BY <2>5, <2>6, <2>8
<1>29. ASSUME NEW c \in Nat
       PROVE  ValueAt(r, c) = IF PageKept(r, c) THEN ValueAt(s, c) ELSE Zero
  <2>1. ASSUME NEW i \in DOMAIN H, IsWithin(H[i], c) PROVE PageStart(c) \in WordsOf(H[i])
    <3>1. H[i].base \in Nat /\ H[i].size \in Nat /\ Aligned(H[i].base)  BY <1>12 DEF Placed
    <3>2. H[i].base <= c /\ c < H[i].base + H[i].size  BY <2>1, <3>1 DEF IsWithin
    <3>3. PageStart(c) \in Nat /\ PageStart(c) <= c /\ H[i].base <= PageStart(c)
      BY <3>1, <3>2, PageStartIs
    <3>. QED  BY <3>1, <3>2, <3>3 DEF WordsOf
  <2>2. CASE HostHas(r, c)
    <3>1. PICK i \in S : IsWithin(H[i], c)  BY <1>24, <2>2
    <3>2. PageKept(r, c)  BY <1>4, <1>26, <2>1, <3>1
    <3>. QED  BY <1>24, <2>2, <3>2
  <2>3. CASE ~HostHas(r, c) /\ PageKept(r, c)
    <3>1. ~HostHas(s, c)
      <4>1. SUFFICES ASSUME HostHas(s, c) PROVE FALSE  OBVIOUS
      <4>2. PICK i \in DOMAIN H : IsWithin(H[i], c)  BY <1>1, <4>1 DEF HostHas
      <4>3. i \notin S /\ PageStart(c) \in WordsOf(H[i])  BY <1>24, <2>1, <2>3, <4>2
      <4>4. CASE \E k \in S : PageStart(c) \in WordsOf(H[k])
        <5>1. PICK k \in S : PageStart(c) \in WordsOf(H[k])  BY <4>4
        <5>2. k \in DOMAIN H /\ k # i  BY <1>4, <4>3, <5>1
        <5>3. Apart(H[k], H[i])  BY <1>12, <5>2 DEF MapsOK
        <5>4. WordsOf(H[k]) \cap WordsOf(H[i]) = {}  BY <1>12, <5>2, <5>3, RegionsApart
        <5>. QED  BY <4>3, <5>1, <5>4
      <4>5. CASE \E k \in T : PageStart(c) \in WordsOf(I[k])
        <5>1. PICK k \in T : PageStart(c) \in WordsOf(I[k])  BY <4>5
        <5>2. k \in DOMAIN I  BY <1>5
        <5>3. Apart(H[i], I[k])  BY <1>12, <5>2 DEF MapsOK
        <5>4. WordsOf(H[i]) \cap WordsOf(I[k]) = {}  BY <1>12, <5>2, <5>3, RegionsApart
        <5>. QED  BY <4>3, <5>1, <5>4
      <4>. QED  BY <1>26, <2>3, <4>4, <4>5
    <3>2. ValueAt(s, c) = Reads(P, c)  BY <1>3, <3>1, ValueIs
    <3>3. ValueAt(r, c) = Reads(Q, c)  BY <1>17, <1>24, <2>3
    <3>4. CASE <<Bucket(c), Tag(c)>> \in Pages(P)
      BY <1>22, <1>28, <2>3, <3>2, <3>3, <3>4
    <3>5. CASE <<Bucket(c), Tag(c)>> \notin Pages(P)
      <4>1. Reads(P, c) = Zero  BY <1>22, <3>5
      <4>2. Reads(Q, c) = Reads(P, c) \/ Reads(Q, c) = Zero  BY <1>22
      <4>. QED  BY <2>3, <3>2, <3>3, <4>1, <4>2
    <3>. QED  BY <3>4, <3>5
  <2>4. CASE ~HostHas(r, c) /\ ~PageKept(r, c)
    <3>1. ValueAt(r, c) = Reads(Q, c)  BY <1>17, <1>24, <2>4
    <3>2. <<Bucket(c), Tag(c)>> \notin K  BY <1>9, <1>28, <2>4
    <3>. QED  BY <1>22, <2>4, <3>1, <3>2
  <2>. QED  BY <2>2, <2>3, <2>4
<1>. QED  BY <1>24, <1>25, <1>29 DEF Flushes

(* The copy holds what the original does.                                  *)
LEMMA SpaceCopyIs ==
  ASSUME NEW s, SpaceOK(s), NEW r, r = SpaceCopy(s)
  PROVE  SpaceOK(r) /\ RegionsOf(r) = RegionsOf(s) /\ SameValues(s, r)
<1>1. PICK P : P = s.ptab  OBVIOUS
<1>2. PICK Q : Q = [b \in DOMAIN P |-> Reverse(P[b])]  OBVIOUS
<1>3. PICK K : K = Pages(P)  OBVIOUS
<1>4. /\ PagesOK(P, s.count) /\ DOMAIN P = BucketNumbers
      /\ \A b \in BucketNumbers : ListOK(P[b])
      /\ MapsOK(s.memoryMap, s.internalMap)
      /\ s = [ptab |-> s.ptab, count |-> s.count, memoryMap |-> s.memoryMap,
              internalMap |-> s.internalMap]
  BY <1>1, SpaceIs
<1>5. r = [s EXCEPT !.ptab = Q]  BY <1>1, <1>2 DEF SpaceCopy
<1>6. r = [ptab |-> Q, count |-> s.count, memoryMap |-> s.memoryMap,
           internalMap |-> s.internalMap]
  BY <1>4, <1>5
<1>7. /\ r.ptab = Q /\ r.count = s.count /\ r.memoryMap = s.memoryMap
      /\ r.internalMap = s.internalMap
  BY <1>6
<1>8. P \in [BucketNumbers -> Seq(Ptes)]  BY <1>4, TableIs
<1>9. \A b \in BucketNumbers : \A t : t \in Tags(P[b]) <=> <<b, t>> \in Pages(P)
  BY <1>8, PagesAre
<1>10. PagesLeft(P, s.count, K, Q)
  <2>1. Q = [b \in BucketNumbers |-> Q[b]]  BY <1>2, <1>4
  <2>2. ASSUME NEW b \in BucketNumbers
        PROVE  /\ Q[b] \in Seq(Ptes)
               /\ Part(Q[b], P[b], {i \in DOMAIN P[b] : <<b, P[b][i].tag>> \in K})
    <3>1. P[b] \in Seq(Ptes)  BY <1>4 DEF ListOK
    <3>2. Q[b] = Reverse(P[b])  BY <1>2, <1>4
    <3>3. Q[b] \in Seq(Ptes) /\ Part(Q[b], P[b], DOMAIN P[b])  BY <3>1, <3>2, ReverseIs
    <3>4. \A i \in DOMAIN P[b] : <<b, P[b][i].tag>> \in K  BY <1>3, <1>9 DEF Tags
    <3>5. {i \in DOMAIN P[b] : <<b, P[b][i].tag>> \in K} = DOMAIN P[b]  BY <3>4
    <3>. QED  BY <3>3, <3>5
  <2>. QED  BY <1>3, <1>4, <2>1, <2>2 DEF PagesLeft
<1>11. /\ PagesOK(Q, s.count - Cardinality(Pages(P) \ K))
       /\ \A a \in Nat : Reads(Q, a) = IF <<Bucket(a), Tag(a)>> \in K THEN Reads(P, a)
                                       ELSE Zero
       /\ \A a \in Nat : <<Bucket(a), Tag(a)>> \notin Pages(P) => Reads(P, a) = Zero
  BY <1>10, PagesLeftIs
<1>12. PagesOK(Q, s.count)
  <2>1. Pages(P) \ K = {} /\ Cardinality({}) = 0  BY <1>3, FS_EmptySet
  <2>2. s.count \in Nat  BY <1>4, FS_CardinalityType DEF PagesOK
  <2>3. s.count - Cardinality(Pages(P) \ K) = s.count  BY <2>1, <2>2
  <2>. QED  BY <1>11, <2>3
<1>13. SameWords(s.ptab, Q)
  <2>1. \A a \in Nat : Reads(Q, a) = Reads(P, a)  BY <1>3, <1>11
  <2>. QED  BY <1>1, <2>1 DEF SameWords
<1>14. Touches(s, r)  BY <1>6, <1>12, <1>13, WithPages
<1>15. SpaceOK(r) /\ SameMaps(s, r) /\ SameValues(s, r)  BY <1>14, TouchedIs
<1>. QED  BY <1>15, SameRegions

(* A context without a program.                                            *)
LEMMA EmptyIs ==
  ASSUME NEW r, r = EmptySpace
  PROVE  SpaceOK(r) /\ RegionsOf(r) = {} /\ \A c \in Nat : ValueAt(r, c) = Zero
<1>1. PICK P : P = [b \in 0 .. (Buckets - 1) |-> <<>>]  OBVIOUS
<1>2. r = [ptab |-> P, count |-> 0, memoryMap |-> <<>>, internalMap |-> <<>>]
  BY <1>1 DEF EmptySpace
<1>3. r.ptab = P /\ r.count = 0 /\ r.memoryMap = <<>> /\ r.internalMap = <<>>  BY <1>2
<1>4. P \in [BucketNumbers -> Seq(Ptes)] /\ \A b \in BucketNumbers : P[b] = <<>>
  BY <1>1 DEF BucketNumbers
<1>5. \A b \in BucketNumbers : ListOK(P[b]) /\ Tags(P[b]) = {}
  BY <1>4 DEF ListOK, TagsOnce, Tags
<1>6. Pages(P) = {}
  <2>1. \A g \in Pages(P) : \E b, t : b \in BucketNumbers /\ t \in Tags(P[b]) /\ g = <<b, t>>
    BY <1>4, PagesAre
  <2>. QED  BY <1>5, <2>1
<1>7. PagesOK(P, 0)  BY <1>4, <1>5, <1>6, FS_EmptySet DEF PagesOK, ListOK
<1>8. MapsOK(<<>>, <<>>)  BY DEF MapsOK
<1>9. SpaceOK(r)  BY <1>2, <1>3, <1>7, <1>8 DEF SpaceOK
<1>10. RegionsOf(r) = {}  BY <1>3 DEF RegionsOf, MapsIn, ToSet
<1>11. ASSUME NEW c \in Nat PROVE ValueAt(r, c) = Zero
  <2>1. ~HostHas(r, c)  BY <1>3 DEF HostHas
  <2>2. ValueAt(r, c) = Reads(P, c)  BY <1>3, <1>9, <2>1, ValueIs
  <2>3. Bucket(c) \in BucketNumbers /\ Offset(c) \in Offsets  BY AddressIs DEF Offsets
  <2>. QED  BY <1>5, <2>2, <2>3, PagedIs DEF Reads
<1>. QED  BY <1>9, <1>10, <1>11

-----------------------------------------------------------------------------
(***************************************************************************)
(* The memories of all the programs.                                       *)
(***************************************************************************)
LEMMA ContentsAre ==
  ASSUME NEW s
  PROVE  \A a \in Addresses : a \in Nat /\ a < Words /\ Contents(s)[a] = ValueAt(s, a)
BY PageAssumption DEF Contents, Addresses

LEMMA SameContents ==
  ASSUME NEW s, NEW r, SameValues(s, r)
  PROVE  Contents(r) = Contents(s)
<1>1. \A a \in Addresses : ValueAt(r, a) = ValueAt(s, a)
  BY ContentsAre DEF SameValues
<1>. QED  BY <1>1 DEF Contents

(* The memory of one program becomes r.                                    *)
SetsSpace(p, r) ==
  /\ SpaceOK(r) /\ spaces' = [spaces EXCEPT ![p] = r]
  /\ baseAddr' \in 0 .. Words + PageWords /\ Aligned(baseAddr')

LEMMA OneSpace ==
  ASSUME MemoryInv, NEW p \in Procs, NEW r, SetsSpace(p, r)
  PROVE  /\ MemoryInv'
         /\ \A q \in Procs \ {p} : Memories'[q] = Memories[q] /\ Regions'[q] = Regions[q]
         /\ Memories[p] = Contents(spaces[p]) /\ Memories'[p] = Contents(r)
         /\ Regions[p] = RegionsOf(spaces[p]) /\ Regions'[p] = RegionsOf(r)
<1>1. /\ SpaceOK(r) /\ spaces' = [spaces EXCEPT ![p] = r]
      /\ baseAddr' \in 0 .. Words + PageWords /\ Aligned(baseAddr')
  BY DEF SetsSpace
<1>2. spaces = [q \in Procs |-> spaces[q]] /\ \A q \in Procs : SpaceOK(spaces[q])
  BY DEF MemoryInv
<1>3. DOMAIN spaces = Procs  BY <1>2
<1>4. /\ spaces' = [q \in Procs |-> spaces'[q]] /\ spaces'[p] = r
      /\ \A q \in Procs \ {p} : spaces'[q] = spaces[q]
  BY <1>1, <1>3
<1>5. \A q \in Procs : SpaceOK(spaces'[q])  BY <1>1, <1>2, <1>4
<1>6. MemoryInv'  BY <1>1, <1>4, <1>5 DEF MemoryInv
<1>7. /\ \A q \in Procs : Memories[q] = Contents(spaces[q]) /\ Regions[q] = RegionsOf(spaces[q])
      /\ \A q \in Procs : /\ Memories'[q] = Contents(spaces'[q])
                          /\ Regions'[q] = RegionsOf(spaces'[q])
  BY DEF Memories, Regions
<1>. QED  BY <1>4, <1>6, <1>7

SpaceStepped == MemoryInv' /\ (SpacesOf!MNext \/ UNCHANGED <<Memories, Regions>>)

LEMMA SpaceSteppedIs ==
  ASSUME MemoryInv, NEW p \in Procs, NEW r, SetsSpace(p, r),
         NEW m, NEW k, NEW g, NEW h, m = Contents(spaces[p]), k = Contents(r),
         g = RegionsOf(spaces[p]), h = RegionsOf(r),
         SpacesOf!Operation(m, k, g, h) \/ SpacesOf!CopyOf(k, h)
  PROVE  SpaceStepped
<1>1. /\ MemoryInv'
      /\ \A q \in Procs \ {p} : Memories'[q] = Memories[q] /\ Regions'[q] = Regions[q]
      /\ Memories[p] = m /\ Memories'[p] = k /\ Regions[p] = g /\ Regions'[p] = h
  BY OneSpace
<1>2. \/ SpacesOf!Operation(Memories[p], Memories'[p], Regions[p], Regions'[p])
      \/ SpacesOf!CopyOf(Memories'[p], Regions'[p])
  BY <1>1
<1>3. SpacesOf!MNext  BY <1>1, <1>2 DEF SpacesOf!MNext
<1>. QED  BY <1>1, <1>3 DEF SpaceStepped

LEMMA SpaceStays ==
  ASSUME MemoryInv, NEW p \in Procs, NEW r, SetsSpace(p, r), SameValues(spaces[p], r),
         RegionsOf(r) = RegionsOf(spaces[p])
  PROVE  SpaceStepped
<1>1. Contents(r) = Contents(spaces[p])  BY SameContents
<1>2. /\ MemoryInv'
      /\ \A q \in Procs : Memories'[q] = Memories[q] /\ Regions'[q] = Regions[q]
  BY <1>1, OneSpace
<1>3. Memories' = Memories /\ Regions' = Regions
  BY <1>2 DEF Memories, Regions
<1>. QED  BY <1>2, <1>3 DEF SpaceStepped

LEMMA SpacesStay ==
  ASSUME MemoryInv, spaces' = spaces, baseAddr' \in 0 .. Words + PageWords, Aligned(baseAddr')
  PROVE  SpaceStepped
<1>1. Memories' = Memories /\ Regions' = Regions  BY DEF Memories, Regions
<1>2. MemoryInv'  BY DEF MemoryInv
<1>. QED  BY <1>1, <1>2 DEF SpaceStepped

LEMMA MemoryInit ==
  ASSUME Init
  PROVE  MemoryInv /\ SpacesOf!MInit
<1>1. spaces = [q \in Procs |-> EmptySpace] /\ baseAddr = FirstBase  BY DEF Init
<1>2. FirstBase \in 0 .. Words /\ Aligned(FirstBase)  BY OsAssumption
<1>3. PICK r : r = EmptySpace  OBVIOUS
<1>4. SpaceOK(r) /\ RegionsOf(r) = {} /\ \A c \in Nat : ValueAt(r, c) = Zero  BY <1>3, EmptyIs
<1>5. \A q \in Procs : spaces[q] = r  BY <1>1, <1>3
<1>6. baseAddr \in 0 .. Words + PageWords  BY <1>1, <1>2, PageAssumption
<1>7. MemoryInv  BY <1>1, <1>2, <1>4, <1>5, <1>6 DEF MemoryInv
<1>8. Contents(r) = [a \in Addresses |-> Zero]
  <2>1. \A a \in Addresses : ValueAt(r, a) = Zero  BY <1>4, ContentsAre
  <2>. QED  BY <2>1 DEF Contents
<1>9. Memories = [p \in Procs |-> [a \in Addresses |-> Zero]]
  BY <1>5, <1>8 DEF Memories
<1>10. Regions = [p \in Procs |-> {}]  BY <1>4, <1>5 DEF Regions
<1>. QED  BY <1>7, <1>9, <1>10 DEF SpacesOf!MInit

(***************************************************************************)
(* The accesses and mappings, on the memory of one program.                *)
(***************************************************************************)
LEMMA WritesStore ==
  ASSUME NEW s, NEW r, NEW a \in Addresses, NEW v \in Values, Writes(s, r, a, v),
         NEW m, NEW k, NEW g, NEW h, m = Contents(s), k = Contents(r),
         g = RegionsOf(s), h = RegionsOf(r)
  PROVE  SpacesOf!Operation(m, k, g, h)
<1>1. SameMaps(s, r) /\ \A c \in Nat : ValueAt(r, c) = IF c = a THEN v ELSE ValueAt(s, c)
  BY DEF Writes
<1>2. h = g  BY <1>1, SameRegions
<1>3. k[a] = v /\ \A c \in Addresses \ {a} : k[c] = m[c]
  BY <1>1, ContentsAre
<1>4. SpacesOf!Stores(m, k, g, h)
  BY <1>2, <1>3 DEF SpacesOf!Stores, SpacesOf!Same
<1>. QED  BY <1>4 DEF SpacesOf!Operation

LEMMA DataIs ==
  ASSUME NEW len \in Nat, NEW f \in BOOLEAN, NEW d, d = Data(len, f)
  PROVE  /\ d \in Seq(Word) /\ Len(d) = len
         /\ \/ \A k \in 1 .. len : d[k] = Zero
            \/ \A k \in 1 .. len : d[k] = Image(k - 1)
<1>1. \A k \in 1 .. len : d[k] = IF f THEN Image(k - 1) ELSE Zero  BY DEF Data
<1>2. \A k \in 1 .. len : Image(k - 1) \in Word  BY DEF Image, Word
<1>3. \A k \in 1 .. len : d[k] \in Word  BY <1>1, <1>2 DEF Zero, Word
<1>4. d = [k \in 1 .. len |-> d[k]]  BY DEF Data
<1>5. d \in [1 .. len -> Word]  BY <1>3, <1>4
<1>6. d \in Seq(Word) /\ Len(d) = len
  <2>1. DOMAIN d = 1 .. len  BY <1>5
  <2>2. d \in Seq(Word)  BY <1>5
  <2>3. Len(d) \in Nat /\ DOMAIN d = 1 .. Len(d)  BY <2>2, SeqIs
  <2>. QED  BY <2>1, <2>2, <2>3
<1>7. CASE f  BY <1>1, <1>6, <1>7
<1>8. CASE ~f  BY <1>1, <1>6, <1>8
<1>. QED  BY <1>7, <1>8

LEMMA GetsMaps ==
  ASSUME NEW s, NEW r, NEW x, NEW d, Asked(s, x, d), Gets(s, r, x, d),
         NEW f \in BOOLEAN, d = Data(x.size, f),
         NEW m, NEW k, NEW g, NEW h, m = Contents(s), k = Contents(r),
         g = RegionsOf(s), h = RegionsOf(r)
  PROVE  SpacesOf!Operation(m, k, g, h)
<1>1. /\ SpaceOK(s) /\ RoomFor(s, x) /\ x.base \in Nat /\ x.size \in Nat \ {0}
      /\ x.base + x.size <= Words
  BY DEF Asked, Placed
<1>2. /\ h = g \cup {Region(x)}
      /\ \A c \in Nat : ValueAt(r, c) = IF c \in WordsOf(x) THEN d[c - x.base + 1]
                                        ELSE ValueAt(s, c)
  BY DEF Gets
<1>3. PICK n : n = Region(x)  OBVIOUS
<1>4. n.base = x.base /\ n.size = x.size /\ SpacesOf!Covered(n) = WordsOf(x)
  BY <1>3 DEF Region, SpacesOf!Covered, WordsOf
<1>5. ASSUME NEW o \in g
      PROVE  o # n /\ SpacesOf!Covered(n) \cap SpacesOf!Covered(o) = {}
  <2>1. PICK y : /\ o = Region(y) /\ Apart(y, x) /\ y.base \in Nat /\ y.size \in Nat \ {0}
    <3>1. MapsOK(s.memoryMap, s.internalMap)  BY <1>1, SpaceIs
    <3>2. /\ \A i \in DOMAIN s.memoryMap :
               /\ s.memoryMap[i].base \in Nat /\ s.memoryMap[i].size \in Nat \ {0}
               /\ Apart(s.memoryMap[i], x)
          /\ \A i \in DOMAIN s.internalMap :
               /\ s.internalMap[i].base \in Nat /\ s.internalMap[i].size \in Nat \ {0}
               /\ Apart(s.internalMap[i], x)
      BY <1>1, <3>1, MapIs DEF RoomFor
    <3>3. CASE \E i \in DOMAIN s.memoryMap : o = Region(s.memoryMap[i])  BY <3>2, <3>3
    <3>4. CASE \E i \in DOMAIN s.internalMap : o = Region(s.internalMap[i])  BY <3>2, <3>4
    <3>. QED  BY <1>5, <3>3, <3>4, RegionsAre
  <2>2. Region(y) # Region(x) /\ WordsOf(y) \cap WordsOf(x) = {}
    BY <1>1, <2>1, RegionsApart
  <2>3. SpacesOf!Covered(o) = WordsOf(y)  BY <2>1 DEF Region, SpacesOf!Covered, WordsOf
  <2>. QED  BY <1>3, <1>4, <2>1, <2>2, <2>3
<1>6. n \in h \ g /\ h = g \cup {n}  BY <1>2, <1>3, <1>5
<1>7. \A c \in WordsOf(x) : /\ c \in Addresses /\ c \in Nat /\ c - x.base + 1 \in 1 .. x.size
                            /\ c - x.base + 1 - 1 = c - x.base
  BY <1>1, PageAssumption DEF WordsOf, Addresses
<1>8. SpacesOf!Covered(n) \subseteq Addresses  BY <1>4, <1>7
<1>9. \A c \in WordsOf(x) : k[c] = d[c - x.base + 1]  BY <1>2, <1>7, ContentsAre
<1>10. \/ \A i \in 1 .. x.size : d[i] = Zero
       \/ \A i \in 1 .. x.size : d[i] = Image(i - 1)
  <2>1. PICK z \in Nat : z = x.size  BY <1>1
  <2>2. \/ \A i \in 1 .. z : d[i] = Zero
        \/ \A i \in 1 .. z : d[i] = Image(i - 1)
    BY <2>1, DataIs, ZenonT(60)
  <2>. QED  BY <2>1, <2>2
<1>11. \/ \A c \in WordsOf(x) : k[c] = Zero
       \/ \A c \in WordsOf(x) : k[c] = Image(c - x.base)
  <2>1. CASE \A i \in 1 .. x.size : d[i] = Zero  BY <1>7, <1>9, <2>1
  <2>2. CASE \A i \in 1 .. x.size : d[i] = Image(i - 1)
    <3>1. ASSUME NEW c \in WordsOf(x) PROVE k[c] = Image(c - x.base)
      <4>1. PICK i : i = c - x.base + 1  OBVIOUS
      <4>2. i \in 1 .. x.size  BY <1>7, <4>1
      <4>3. i - 1 = c - x.base
        <5>1. PICK b \in Nat : b = x.base  BY <1>1
        <5>2. c \in Nat  BY <1>7
        <5>3. i = c - b + 1  BY <4>1, <5>1
        <5>4. i - 1 = c - b  BY <5>2, <5>3
        <5>. QED  BY <5>1, <5>4
      <4>4. d[i] = Image(i - 1) /\ k[c] = d[i]  BY <1>9, <2>2, <4>1, <4>2
      <4>. QED  BY <4>3, <4>4
    <3>. QED  BY <3>1
  <2>. QED  BY <1>10, <2>1, <2>2
<1>12. SpacesOf!Same(m, k, SpacesOf!Covered(n))
  <2>1. \A c \in Addresses \ WordsOf(x) : k[c] = m[c]  BY <1>2, ContentsAre
  <2>. QED  BY <1>4, <2>1 DEF SpacesOf!Same
<1>13. SpacesOf!MapsRegion(m, k, g, h)
  BY <1>4, <1>5, <1>6, <1>8, <1>11, <1>12 DEF SpacesOf!MapsRegion
<1>. QED  BY <1>13 DEF SpacesOf!Operation

LEMMA FlushesAnew ==
  ASSUME NEW s, NEW r, Flushes(s, r),
         NEW m, NEW k, NEW g, NEW h, m = Contents(s), k = Contents(r),
         g = RegionsOf(s), h = RegionsOf(r)
  PROVE  SpacesOf!Operation(m, k, g, h)
<1>1. /\ h \subseteq g
      /\ \A c \in Nat : ValueAt(r, c) = IF PageKept(r, c) THEN ValueAt(s, c) ELSE Zero
  BY DEF Flushes
<1>2. PICK kept : kept = UNION {SpacesOf!Covered(n) : n \in h}  OBVIOUS
<1>3. \A c : PageKept(r, c) <=> c - (c % PageWords) \in kept
  BY <1>2 DEF PageKept, PageStart, WordsOf, SpacesOf!Covered
<1>4. \A c \in Addresses : k[c] = IF c - (c % PageWords) \in kept THEN m[c] ELSE Zero
  BY <1>1, <1>3, ContentsAre
<1>5. SpacesOf!StartsAnew(m, k, g, h)
  BY <1>1, <1>2, <1>4 DEF SpacesOf!StartsAnew
<1>. QED  BY <1>5 DEF SpacesOf!Operation

LEMMA EmptiesAnew ==
  ASSUME NEW s, NEW r, r = EmptySpace,
         NEW m, NEW k, NEW g, NEW h, m = Contents(s), k = Contents(r),
         g = RegionsOf(s), h = RegionsOf(r)
  PROVE  SpacesOf!Operation(m, k, g, h)
<1>1. h = {} /\ \A c \in Nat : ValueAt(r, c) = Zero  BY EmptyIs
<1>2. \A c \in Addresses : k[c] = Zero  BY <1>1, ContentsAre
<1>3. UNION {SpacesOf!Covered(n) : n \in h} = {}  BY <1>1
<1>4. SpacesOf!StartsAnew(m, k, g, h)
  BY <1>1, <1>2, <1>3 DEF SpacesOf!StartsAnew
<1>. QED  BY <1>4 DEF SpacesOf!Operation

LEMMA UnmapsOne ==
  ASSUME NEW s, SpaceOK(s), NEW x \in MapsIn(s), NEW r, r = Unmapped(s, x.base),
         NEW m, NEW k, NEW g, NEW h, m = Contents(s), k = Contents(r),
         g = RegionsOf(s), h = RegionsOf(r)
  PROVE  SpacesOf!Operation(m, k, g, h)
<1>1. PICK n \in g : /\ h = g \ {n}
                     /\ \A c \in Nat \ WordsOf(n) : ValueAt(r, c) = ValueAt(s, c)
  BY UnmappedIs
<1>2. n \in g \ h  BY <1>1
<1>3. SpacesOf!Covered(n) = WordsOf(n)  BY DEF SpacesOf!Covered, WordsOf
<1>4. \A c \in Addresses \ WordsOf(n) : k[c] = m[c]  BY <1>1, ContentsAre
<1>5. SpacesOf!Same(m, k, SpacesOf!Covered(n))  BY <1>3, <1>4 DEF SpacesOf!Same
<1>6. SpacesOf!UnmapsRegion(m, k, g, h)
  BY <1>1, <1>2, <1>5 DEF SpacesOf!UnmapsRegion
<1>. QED  BY <1>6 DEF SpacesOf!Operation

(***************************************************************************)
(* Every call keeps the invariant, and is a step of MemorySpaces or leaves *)
(* memories and mappings alone.                                            *)
(***************************************************************************)
LEMMA MemorySet ==
  ASSUME MemoryInv, NEW p \in Procs, NEW r, SetSpace(p, r), UNCHANGED baseAddr, SpaceOK(r)
  PROVE  SetsSpace(p, r)
BY DEF SetSpace, SetsSpace, MemoryInv

LEMMA LoadSteps ==
  ASSUME MemoryInv, mix \in Mixes, NEW p \in Procs, Load(p)
  PROVE  SpaceStepped
<1>1. PICK s : s = spaces[p] /\ SpaceOK(s)  BY DEF MemoryInv
<1>2. PICK a \in mix.words : SetSpace(p, AfterRead(s, a))  BY <1>1 DEF Load
<1>3. a \in Nat  BY <1>2, OsAssumption, PageAssumption
<1>4. PICK r : r = AfterRead(s, a)  OBVIOUS
<1>5. PICK t : t = Translated(s, a)  OBVIOUS
<1>6. SpaceOK(t) /\ SameMaps(s, t) /\ SameValues(s, t)
  BY <1>1, <1>3, <1>5, TranslatedIs, TouchedIs
<1>7. r = s \/ r = t  BY <1>4, <1>5 DEF AfterRead
<1>8. SpaceOK(r) /\ SameValues(s, r) /\ RegionsOf(r) = RegionsOf(s)
  BY <1>1, <1>6, <1>7, SameRegions DEF SameValues
<1>9. SetsSpace(p, r)
  <2>1. UNCHANGED baseAddr  BY DEF Load
  <2>. QED  BY <1>2, <1>4, <1>8, <2>1, MemorySet
<1>. QED  BY <1>1, <1>8, <1>9, SpaceStays

LEMMA StoreSteps ==
  ASSUME MemoryInv, mix \in Mixes, NEW p \in Procs, Store(p)
  PROVE  SpaceStepped
<1>1. PICK s : s = spaces[p] /\ SpaceOK(s)  BY DEF MemoryInv
<1>2. PICK a \in mix.words, v \in mix.values : SetSpace(p, Written(s, a, v))
  BY <1>1 DEF Store
<1>3. a \in Addresses /\ a \in Nat /\ v \in Values /\ v \in Word
  BY <1>2, OsAssumption, PageAssumption DEF Addresses, Values, Word
<1>4. PICK r : r = Written(s, a, v)  OBVIOUS
<1>5. Writes(s, r, a, v)  BY <1>1, <1>3, <1>4, WrittenIs
<1>6. SetsSpace(p, r)
  <2>1. UNCHANGED baseAddr  BY DEF Store
  <2>. QED  BY <1>2, <1>4, <1>5, <2>1, MemorySet DEF Writes
<1>7. SpacesOf!Operation(Contents(s), Contents(r), RegionsOf(s), RegionsOf(r))
  BY <1>3, <1>5, WritesStore
<1>. QED  BY <1>1, <1>6, <1>7, SpaceSteppedIs

(* The mapping that mem_map makes room for.                                *)
Mapped(p, hint, len, x) ==
  /\ hint \in Nat /\ Aligned(hint) /\ len \in Nat \ {0}
  /\ Maps(p, hint, len) /\ x \in MapsFor(p, hint, len)

LEMMA MappedIs ==
  ASSUME MemoryInv, NEW p \in Procs, NEW hint, NEW len, NEW x, Mapped(p, hint, len, x),
         NEW f \in BOOLEAN, NEW d, d = Data(len, f)
  PROVE  /\ Asked(spaces[p], x, d) /\ d = Data(x.size, f)
         /\ baseAddr' \in 0 .. Words + PageWords /\ Aligned(baseAddr')
<1>1. /\ hint \in Nat /\ Aligned(hint) /\ len \in Nat \ {0}
      /\ Maps(p, hint, len) /\ x \in MapsFor(p, hint, len)
  BY DEF Mapped
<1>2. PICK s : s = spaces[p] /\ SpaceOK(s)  BY DEF MemoryInv
<1>3. baseAddr \in 0 .. Words + PageWords /\ Aligned(baseAddr) /\ baseAddr \in Nat
  BY PageAssumption DEF MemoryInv
<1>4. PICK a : a = AddressFor(p, hint, len)  OBVIOUS
<1>5. /\ a \in Nat /\ Aligned(a) /\ Fits(s, a, len)
  BY <1>1, <1>2, <1>3, <1>4, AcquiredIs DEF AddressFor
<1>6. a + len <= Words /\ baseAddr' = NextBase(hint, baseAddr, a, len)
  BY <1>1, <1>4 DEF Maps
<1>7. PICK inherit \in BOOLEAN : x = [base |-> a, size |-> len, inherit |-> inherit]
  BY <1>1, <1>4 DEF MapsFor, Map
<1>8. x \in InnerMaps /\ x.base = a /\ x.size = len  BY <1>1, <1>5, <1>7 DEF InnerMaps
<1>9. Placed(x)  BY <1>1, <1>5, <1>6, <1>8 DEF Placed
<1>10. RoomFor(s, x)
  <2>1. Fits(s, x.base, x.size)  BY <1>5, <1>8
  <2>. QED  BY <1>2, <1>9, <2>1, FitsApart DEF RoomFor
<1>11. d \in Seq(Word) /\ Len(d) = len  BY <1>1, DataIs
<1>12. Asked(s, x, d)  BY <1>2, <1>8, <1>9, <1>10, <1>11 DEF Asked
<1>13. baseAddr' \in 0 .. Words + PageWords /\ Aligned(baseAddr')
  <2>1. CASE hint = 0
    <3>1. baseAddr' = RoundedUp(a + len)  BY <1>6, <2>1 DEF NextBase
    <3>2. a + len \in Nat  BY <1>1, <1>5
    <3>3. /\ RoundedUp(a + len) \in Nat /\ Aligned(RoundedUp(a + len))
          /\ RoundedUp(a + len) <= a + len + PageWords - 1
      BY <3>2, RoundedUpIs
    <3>. QED  BY <1>1, <1>5, <1>6, <3>1, <3>3, PageAssumption
  <2>2. CASE hint # 0  BY <1>3, <1>6, <2>2 DEF NextBase
  <2>. QED  BY <2>1, <2>2
<1>. QED  BY <1>2, <1>8, <1>12, <1>13

LEMMA GetsSteps ==
  ASSUME MemoryInv, NEW p \in Procs, NEW hint, NEW len, NEW x, Mapped(p, hint, len, x),
         NEW f \in BOOLEAN, NEW d, d = Data(len, f),
         NEW r, SetSpace(p, r),
         \/ r = MappedInside(spaces[p], x, d) \/ r = MappedFixed(spaces[p], x, d)
         \/ r = MappedOnHost(spaces[p], x, d)
  PROVE  SpaceStepped
<1>1. /\ Asked(spaces[p], x, d) /\ d = Data(x.size, f)
      /\ baseAddr' \in 0 .. Words + PageWords /\ Aligned(baseAddr')
  BY MappedIs
<1>2. Gets(spaces[p], r, x, d)  BY <1>1, InsideIs, FixedIs, OnHostIs
<1>3. SetsSpace(p, r)  BY <1>1, <1>2 DEF Gets, SetSpace, SetsSpace
<1>4. PICK m : m = Contents(spaces[p])  OBVIOUS
<1>5. PICK k : k = Contents(r)  OBVIOUS
<1>6. PICK g : g = RegionsOf(spaces[p])  OBVIOUS
<1>7. PICK h : h = RegionsOf(r)  OBVIOUS
<1>8. SpacesOf!Operation(m, k, g, h)
  BY <1>1, <1>2, <1>4, <1>5, <1>6, <1>7, GetsMaps
<1>. QED  BY <1>3, <1>4, <1>5, <1>6, <1>7, <1>8, SpaceSteppedIs

LEMMA AskedFor ==
  ASSUME mix \in Mixes
  PROVE  /\ \A len \in mix.sizes : len \in Nat \ {0}
         /\ \A hint \in mix.hints : hint \in Nat /\ Aligned(hint)
         /\ 0 \in Nat /\ Aligned(0)
<1>1. Aligned(0)  BY PageAssumption DEF Aligned, Offset
<1>. QED  BY <1>1, OsAssumption, PageAssumption

LEMMA MapsStep ==
  ASSUME MemoryInv, mix \in Mixes, NEW p \in Procs,
         MapFixed(p) \/ MapAtHint(p) \/ MapAnon(p) \/ MapOnHost(p)
  PROVE  SpaceStepped
<1>1. CASE MapFixed(p)
  <2>1. PICK len \in mix.sizes, hint \in mix.hints, f \in BOOLEAN :
          /\ Maps(p, hint, len)
          /\ \E x \in MapsFor(p, hint, len) :
                SetSpace(p, MappedFixed(spaces[p], x, Data(len, f)))
    BY <1>1 DEF MapFixed
  <2>2. PICK x \in MapsFor(p, hint, len) :
          SetSpace(p, MappedFixed(spaces[p], x, Data(len, f)))
    BY <2>1
  <2>3. Mapped(p, hint, len, x)  BY <2>1, <2>2, AskedFor DEF Mapped
  <2>4. PICK d : d = Data(len, f)  OBVIOUS
  <2>5. PICK r : r = MappedFixed(spaces[p], x, d)  OBVIOUS
  <2>. QED  BY <2>2, <2>3, <2>4, <2>5, GetsSteps
<1>2. CASE MapAtHint(p)
  <2>1. PICK len \in mix.sizes, hint \in mix.hints, f \in BOOLEAN :
          /\ Maps(p, hint, len)
          /\ \E x \in MapsFor(p, hint, len) :
                SetSpace(p, MappedInside(spaces[p], x, Data(len, f)))
    BY <1>2 DEF MapAtHint
  <2>2. PICK x \in MapsFor(p, hint, len) :
          SetSpace(p, MappedInside(spaces[p], x, Data(len, f)))
    BY <2>1
  <2>3. Mapped(p, hint, len, x)  BY <2>1, <2>2, AskedFor DEF Mapped
  <2>4. PICK d : d = Data(len, f)  OBVIOUS
  <2>5. PICK r : r = MappedInside(spaces[p], x, d)  OBVIOUS
  <2>. QED  BY <2>2, <2>3, <2>4, <2>5, GetsSteps
<1>3. CASE MapAnon(p) \/ MapOnHost(p)
  <2>1. PICK len \in mix.sizes, f \in BOOLEAN :
          /\ Maps(p, 0, len)
          /\ \E x \in MapsFor(p, 0, len) :
               \/ SetSpace(p, MappedInside(spaces[p], x, Data(len, f)))
               \/ SetSpace(p, MappedOnHost(spaces[p], x, Data(len, f)))
    BY <1>3 DEF MapAnon, MapOnHost
  <2>2. PICK x \in MapsFor(p, 0, len) :
          \/ SetSpace(p, MappedInside(spaces[p], x, Data(len, f)))
          \/ SetSpace(p, MappedOnHost(spaces[p], x, Data(len, f)))
    BY <2>1
  <2>3. Mapped(p, 0, len, x)  BY <2>1, <2>2, AskedFor DEF Mapped
  <2>4. PICK d : d = Data(len, f)  OBVIOUS
  <2>5. PICK r : /\ SetSpace(p, r)
                 /\ \/ r = MappedInside(spaces[p], x, d)
                    \/ r = MappedOnHost(spaces[p], x, d)
    BY <2>2, <2>4
  <2>6. PICK hint : hint = 0  OBVIOUS
  <2>7. Mapped(p, hint, len, x)  BY <2>3, <2>6
  <2>. QED  BY <2>4, <2>5, <2>7, GetsSteps
<1>. QED  BY <1>1, <1>2, <1>3

LEMMA MapAnonFailsSteps ==
  ASSUME MemoryInv, mix \in Mixes, NEW p \in Procs, MapAnonFails(p)
  PROVE  SpaceStepped
<1>1. PICK s : s = spaces[p] /\ SpaceOK(s)  BY DEF MemoryInv
<1>. PICK len \in mix.sizes :
       LET addr == Acquired(spaces[p], 0, baseAddr, len) IN
       addr + len <= Words /\ baseAddr' = NextBase(0, baseAddr, addr, len)
  BY DEF MapAnonFails
<1>2. PICK a : /\ a = Acquired(s, 0, baseAddr, len) /\ a + len <= Words
               /\ baseAddr' = NextBase(0, baseAddr, a, len)
  BY <1>1
<1>3. baseAddr \in Nat /\ Aligned(baseAddr)  BY PageAssumption DEF MemoryInv
<1>4. len \in Nat \ {0} /\ Aligned(0)  BY <1>2, AskedFor
<1>5. a \in Nat  BY <1>1, <1>2, <1>3, <1>4, AcquiredIs
<1>6. baseAddr' = RoundedUp(a + len)  BY <1>2 DEF NextBase
<1>7. a + len \in Nat  BY <1>4, <1>5
<1>8. /\ RoundedUp(a + len) \in Nat /\ Aligned(RoundedUp(a + len))
      /\ RoundedUp(a + len) <= a + len + PageWords - 1
  BY <1>7, RoundedUpIs
<1>9. baseAddr' \in 0 .. Words + PageWords /\ Aligned(baseAddr')
  BY <1>2, <1>4, <1>5, <1>6, <1>8, PageAssumption
<1>10. spaces' = spaces  BY DEF MapAnonFails
<1>. QED  BY <1>9, <1>10, SpacesStay

LEMMA UnmapSteps ==
  ASSUME MemoryInv, NEW p \in Procs, UnmapCall(p)
  PROVE  SpaceStepped
<1>1. PICK s : s = spaces[p] /\ SpaceOK(s)  BY DEF MemoryInv
<1>2. PICK x \in MapsIn(s) : SetSpace(p, Unmapped(s, x.base)) /\ UNCHANGED baseAddr
  BY <1>1 DEF UnmapCall
<1>3. PICK r : r = Unmapped(s, x.base)  OBVIOUS
<1>4. SpaceOK(r)  BY <1>1, <1>3, UnmappedIs
<1>5. SetsSpace(p, r)  BY <1>2, <1>3, <1>4, MemorySet
<1>6. SpacesOf!Operation(Contents(s), Contents(r), RegionsOf(s), RegionsOf(r))
  BY <1>1, <1>3, UnmapsOne
<1>. QED  BY <1>1, <1>5, <1>6, SpaceSteppedIs

LEMMA ForkSteps ==
  ASSUME MemoryInv, NEW p \in Procs, ForkCall(p)
  PROVE  SpaceStepped
<1>1. PICK s : s = spaces[p] /\ SpaceOK(s)  BY DEF MemoryInv
<1>2. PICK child \in Procs :
        spaces' = [spaces EXCEPT ![child] = SpaceCopy(s)] /\ baseAddr' = baseAddr
  BY <1>1 DEF ForkCall
<1>3. PICK r : r = SpaceCopy(s)  OBVIOUS
<1>4. SpaceOK(r) /\ RegionsOf(r) = RegionsOf(s) /\ SameValues(s, r)
  BY <1>1, <1>3, SpaceCopyIs
<1>5. SetsSpace(child, r)  BY <1>2, <1>3, <1>4 DEF SetsSpace, MemoryInv
<1>6. Contents(r) = Contents(s)  BY <1>4, SameContents
<1>7. Memories[p] = Contents(s) /\ Regions[p] = RegionsOf(s)
  BY <1>1 DEF Memories, Regions
<1>8. PICK k : k = Contents(r)  OBVIOUS
<1>9. PICK h : h = RegionsOf(r)  OBVIOUS
<1>10. SpacesOf!CopyOf(k, h)
  BY <1>4, <1>6, <1>7, <1>8, <1>9 DEF SpacesOf!CopyOf
<1>11. PICK m : m = Contents(spaces[child])  OBVIOUS
<1>12. PICK g : g = RegionsOf(spaces[child])  OBVIOUS
<1>. QED  BY <1>5, <1>8, <1>9, <1>10, <1>11, <1>12, SpaceSteppedIs

LEMMA ExecSteps ==
  ASSUME MemoryInv, NEW p \in Procs, ExecCall(p) \/ ExecFails(p)
  PROVE  SpaceStepped
<1>1. PICK s : s = spaces[p] /\ SpaceOK(s)  BY DEF MemoryInv
<1>2. spaces' = [spaces EXCEPT ![p] = ExecFlushed(s)] /\ baseAddr' = baseAddr
  BY <1>1 DEF ExecCall, ExecFails, SetSpace
<1>3. PICK r : r = ExecFlushed(s)  OBVIOUS
<1>4. Flushes(s, r)  BY <1>1, <1>3, FlushedIs
<1>5. SetsSpace(p, r)  BY <1>2, <1>3, <1>4 DEF Flushes, SetsSpace, MemoryInv
<1>6. SpacesOf!Operation(Contents(s), Contents(r), RegionsOf(s), RegionsOf(r))
  BY <1>4, FlushesAnew
<1>. QED  BY <1>1, <1>5, <1>6, SpaceSteppedIs

LEMMA ExitSteps ==
  ASSUME MemoryInv, NEW p \in Procs, ExitCall(p)
  PROVE  SpaceStepped
<1>1. PICK r : r = EmptySpace  OBVIOUS
<1>2. spaces' = [spaces EXCEPT ![p] = r] /\ baseAddr' = baseAddr
  BY <1>1 DEF ExitCall
<1>3. SpaceOK(r)  BY <1>1, EmptyIs
<1>4. SetsSpace(p, r)  BY <1>2, <1>3 DEF SetsSpace, MemoryInv
<1>5. PICK s : s = spaces[p]  OBVIOUS
<1>6. SpacesOf!Operation(Contents(s), Contents(r), RegionsOf(s), RegionsOf(r))
  BY <1>1, EmptiesAnew
<1>. QED  BY <1>4, <1>5, <1>6, SpaceSteppedIs

LEMMA MemoryNext ==
  ASSUME MemoryInv, mix \in Mixes, [Next]_vars
  PROVE  SpaceStepped
<1>1. baseAddr \in 0 .. Words + PageWords /\ Aligned(baseAddr)  BY DEF MemoryInv
<1>2. CASE spaces' = spaces /\ baseAddr' = baseAddr  BY <1>1, <1>2, SpacesStay
<1>3. CASE Next
  <2>1. PICK p \in Procs :
          \/ OpenCall(p) \/ CloseCall(p) \/ DupCall(p) \/ Dup2Call(p)
          \/ PipeMade(p) \/ SetFdCall(p)
          \/ Load(p) \/ Store(p) \/ MapFixed(p) \/ MapAtHint(p) \/ MapAnon(p)
          \/ MapAnonFails(p) \/ MapOnHost(p) \/ UnmapCall(p)
          \/ ForkCall(p) \/ ExecCall(p) \/ ExecFails(p) \/ ExitCall(p)
    BY <1>3 DEF Next
  <2>2. CASE OpenCall(p) \/ CloseCall(p) \/ DupCall(p) \/ Dup2Call(p) \/ PipeMade(p) \/ SetFdCall(p)
    BY <1>2, <2>2
    DEF OpenCall, CloseCall, DupCall, Dup2Call, PipeMade, SetFdCall, SetFiles, memVars
  <2>. QED  BY <2>1, <2>2, LoadSteps, StoreSteps, MapsStep, MapAnonFailsSteps, UnmapSteps,
                ForkSteps, ExecSteps, ExitSteps
<1>4. CASE UNCHANGED vars  BY <1>2, <1>4 DEF vars
<1>. QED  BY <1>3, <1>4

(* The page tables and mappings implement what memory promises: for any    *)
(* programs, sizes of memory and of pages, and sequences of calls.         *)
THEOREM MemoryKept == Spec => ImplementsMemory
<1>1. Init => FilesInv /\ MemoryInv /\ SpacesOf!MInit  BY FilesInit, MemoryInit
<1>2. FilesInv /\ MemoryInv /\ [Next]_vars =>
        FilesInv' /\ MemoryInv' /\ [SpacesOf!MNext]_<<Memories, Regions>>
  <2>1. FilesInv => mix \in Mixes  BY DEF FilesInv
  <2>. QED  BY <2>1, FilesNext, MemoryNext DEF FilesStepped, SpaceStepped
<1>. QED  BY <1>1, <1>2, PTL DEF Spec, ImplementsMemory, SpacesOf!MSpec, SpacesOf!mvars

-----------------------------------------------------------------------------
(***************************************************************************)
(* What the invariant says of the state.                                   *)
(***************************************************************************)
LEMMA TagsCount ==
  ASSUME NEW l, ListOK(l)
  PROVE  Cardinality({l[i].tag : i \in DOMAIN l}) = Len(l)
<1>1. /\ Len(l) \in Nat /\ DOMAIN l = 1 .. Len(l)
      /\ \A i, j \in DOMAIN l : l[i].tag = l[j].tag => i = j
  BY PteIs
<1>2. PICK S : S = {l[i].tag : i \in DOMAIN l}  OBVIOUS
<1>3. PICK f : f = [i \in 1 .. Len(l) |-> l[i].tag]  OBVIOUS
<1>4. /\ f \in [1 .. Len(l) -> S]
      /\ \A i, j \in 1 .. Len(l) : f[i] = f[j] => i = j
      /\ \A x \in S : \E i \in 1 .. Len(l) : f[i] = x
  BY <1>1, <1>2, <1>3
<1>5. Cardinality(S) = Len(l)  BY <1>1, <1>4, ImageCount
<1>. QED  BY <1>2, <1>5

LEMMA TypesHold ==
  ASSUME FilesInv, MemoryInv
  PROVE  OsTypeOK
<1>1. /\ mix \in Mixes /\ live \in (SUBSET Procs) \ {{}}
      /\ baseAddr \in 0 .. (Words + PageWords)
  BY DEF FilesInv, MemoryInv
<1>2. ASSUME NEW p \in Procs
      PROVE  /\ \A i \in DOMAIN tables[p] : /\ tables[p][i].kind \in Kinds
                                            /\ tables[p][i].real \in DOMAIN host
             /\ Cardinality(Numbers(tables[p])) = Len(tables[p])
  <2>1. Holds(HostNumbers, tables[p], host) /\ HostOK(HostNumbers, host)  BY DEF FilesInv
  <2>2. DOMAIN host = HostNumbers  BY <2>1 DEF HostOK
  <2>. QED  BY <2>1, <2>2, HoldsIs, NumbersAre
<1>3. ASSUME NEW p \in Procs
      PROVE  /\ \A b \in DOMAIN spaces[p].ptab :
                   Cardinality({spaces[p].ptab[b][i].tag : i \in DOMAIN spaces[p].ptab[b]})
                     = Len(spaces[p].ptab[b])
             /\ spaces[p].count = Cardinality(Pages(spaces[p].ptab))
  <2>1. PICK s : s = spaces[p] /\ SpaceOK(s)  BY DEF MemoryInv
  <2>2. /\ DOMAIN s.ptab = BucketNumbers /\ \A b \in BucketNumbers : ListOK(s.ptab[b])
        /\ PagesOK(s.ptab, s.count)
    BY <2>1, SpaceIs
  <2>3. s.count = Cardinality(Pages(s.ptab))  BY <2>2 DEF PagesOK
  <2>4. ASSUME NEW b \in DOMAIN s.ptab
        PROVE  Cardinality({s.ptab[b][i].tag : i \in DOMAIN s.ptab[b]}) = Len(s.ptab[b])
    <3>1. PICK l : l = s.ptab[b]  OBVIOUS
    <3>2. ListOK(l)  BY <2>2, <3>1
    <3>3. Cardinality({l[i].tag : i \in DOMAIN l}) = Len(l)  BY <3>2, TagsCount
    <3>. QED  BY <3>1, <3>3
  <2>. QED  BY <2>1, <2>3, <2>4
<1>. QED  BY <1>1, <1>2, <1>3 DEF OsTypeOK

LEMMA HandlesHold ==
  ASSUME FilesInv
  PROVE  HandlesPrivate
<1>1. \A p \in Procs : Holds(HostNumbers, tables[p], host)  BY DEF FilesInv
<1>2. live \in (SUBSET Procs)  BY DEF FilesInv
<1>3. ASSUME NEW p \in live, NEW q \in live, NEW i \in DOMAIN tables[p],
             NEW j \in DOMAIN tables[q], tables[p][i].real = tables[q][j].real
      PROVE  p = q /\ i = j
  <2>1. p \in Procs /\ q \in Procs  BY <1>2
  <2>2. tables[p][i].real \in Reals(tables[p]) /\ tables[q][j].real \in Reals(tables[q])
    BY DEF Reals
  <2>3. p = q  BY <1>3, <2>1, <2>2 DEF FilesInv
  <2>4. Distinct(tables[p])  BY <1>1, <2>1 DEF Holds
  <2>. QED  BY <1>3, <2>3, <2>4 DEF Distinct
<1>4. ASSUME NEW e \in Entries, NEW f \in Entries, RealAt(e) = RealAt(f)
      PROVE  e = f
  <2>1. PICK p \in live : e \in {<<p, i>> : i \in DOMAIN tables[p]}  BY DEF Entries
  <2>2. PICK i \in DOMAIN tables[p] : e = <<p, i>>  BY <2>1
  <2>3. PICK q \in live : f \in {<<q, j>> : j \in DOMAIN tables[q]}  BY DEF Entries
  <2>4. PICK j \in DOMAIN tables[q] : f = <<q, j>>  BY <2>3
  <2>5. RealAt(e) = tables[p][i].real /\ RealAt(f) = tables[q][j].real
    BY <2>2, <2>4 DEF RealAt
  <2>6. p = q /\ i = j  BY <1>3, <1>4, <2>5, ZenonT(60)
  <2>. QED  BY <2>2, <2>4, <2>6
<1>. QED  BY <1>4 DEF HandlesPrivate

LEMMA PipesHold ==
  ASSUME FilesInv
  PROVE  PipeEndsOwned
<1>1. /\ HostOK(HostNumbers, host) /\ live \in (SUBSET Procs)
      /\ \A p \in Procs : Holds(HostNumbers, tables[p], host)
      /\ \A p \in Procs \ live : tables[p] = <<>>
      /\ \A r \in HostNumbers : PipeEnd(host[r]) => \E p \in Procs : r \in Reals(tables[p])
  BY DEF FilesInv
<1>2. DOMAIN host = HostNumbers  BY <1>1 DEF HostOK
<1>3. \A e \in Entries : \E p \in live : \E i \in DOMAIN tables[p] : e = <<p, i>>
  BY DEF Entries
<1>4. \A p \in live : \A i \in DOMAIN tables[p] : <<p, i>> \in Entries
  BY DEF Entries
<1>5. HandlesPrivate  BY HandlesHold
<1>6. ASSUME NEW r \in DOMAIN host,
             NEW T, T = {e \in Entries : RealAt(e) = r /\ tables[e[1]][e[2]].kind = "pipe"}
      PROVE  PipeEnd(host[r]) <=> Cardinality(T) = 1
  <2>1. \A e, f \in T : e = f  BY <1>5, <1>6 DEF HandlesPrivate
  <2>2. CASE PipeEnd(host[r])
    <3>1. PICK p \in Procs : r \in Reals(tables[p])  BY <1>1, <1>2, <2>2
    <3>2. PICK i \in DOMAIN tables[p] : r = tables[p][i].real  BY <3>1 DEF Reals
    <3>3. p \in live
      <4>1. DOMAIN <<>> = {}  OBVIOUS
      <4>. QED  BY <1>1, <3>2, <4>1
    <3>4. tables[p][i].kind = "pipe"  BY <1>1, <2>2, <3>2 DEF Holds
    <3>5. PICK e : e = <<p, i>>  OBVIOUS
    <3>6. e \in Entries /\ e[1] = p /\ e[2] = i  BY <1>4, <3>2, <3>3, <3>5
    <3>7. e \in T  BY <1>6, <3>2, <3>4, <3>6 DEF RealAt
    <3>8. T = {e}  BY <2>1, <3>7
    <3>. QED  BY <2>2, <3>8, FS_Singleton
  <2>3. CASE ~PipeEnd(host[r])
    <3>1. ASSUME NEW e \in T PROVE FALSE
      <4>1. e \in Entries /\ RealAt(e) = r /\ tables[e[1]][e[2]].kind = "pipe"
        BY <1>6, <3>1
      <4>2. PICK p \in live : \E i \in DOMAIN tables[p] : e = <<p, i>>  BY <1>3, <4>1
      <4>3. PICK i \in DOMAIN tables[p] : e = <<p, i>>  BY <4>2
      <4>4. e[1] = p /\ e[2] = i  BY <4>3
      <4>5. tables[p][i].real = r /\ tables[p][i].kind = "pipe"
        BY <4>1, <4>4 DEF RealAt
      <4>6. Holds(HostNumbers, tables[p], host)  BY <1>1
      <4>7. PipeEnd(host[r])  BY <4>3, <4>5, <4>6 DEF Holds
      <4>. QED  BY <2>3, <4>7
    <3>2. T = {}  BY <3>1
    <3>3. Cardinality(T) = 0  BY <3>2, FS_EmptySet
    <3>. QED  BY <2>3, <3>3
  <2>. QED  BY <2>2, <2>3
<1>7. ASSUME NEW r \in DOMAIN host
      PROVE  host[r][1] \in {"read", "write"} <=>
               Cardinality({e \in Entries : RealAt(e) = r /\ tables[e[1]][e[2]].kind = "pipe"}) = 1
  <2>1. PICK T : T = {e \in Entries : RealAt(e) = r /\ tables[e[1]][e[2]].kind = "pipe"}
    OBVIOUS
  <2>2. PipeEnd(host[r]) <=> Cardinality(T) = 1  BY <1>6, <2>1
  <2>. QED  BY <2>1, <2>2 DEF PipeEnd
<1>. QED  BY <1>7 DEF PipeEndsOwned

(* In every state the tables share out the simulator's descriptors, an end *)
(* of a pipe is open exactly while one entry stands for it, and the page   *)
(* tables are in order.                                                    *)
THEOREM OsInvariant == Spec => []OsInv
<1>1. Init => FilesInv /\ MemoryInv  BY FilesInit, MemoryInit
<1>2. FilesInv /\ MemoryInv /\ [Next]_vars => FilesInv' /\ MemoryInv'
  <2>1. FilesInv => mix \in Mixes  BY DEF FilesInv
  <2>. QED  BY <2>1, FilesNext, MemoryNext DEF FilesStepped, SpaceStepped
<1>3. FilesInv /\ MemoryInv => OsInv
  BY TypesHold, HandlesHold, PipesHold DEF OsInv
<1>. QED  BY <1>1, <1>2, <1>3, PTL DEF Spec
=============================================================================
