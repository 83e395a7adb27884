------------------------ MODULE MemoryHierarchyProofs ------------------------
(***************************************************************************)
(* Proofs about MemoryHierarchy, from the bottom up: the hand-linked list  *)
(* of the ways of a set is an order of them, and update_way_list() moves   *)
(* one way in it; an access keeps a cache a cache, with one copy of each   *)
(* block; two levels used by one context lose nothing.                     *)
(***************************************************************************)
EXTENDS MemoryHierarchy, TLAPS, FiniteSetTheorems, WellFoundedInduction

-----------------------------------------------------------------------------
(* The least of a set of numbers.                                          *)
LEMMA LeastNumber ==
  ASSUME NEW T, T \subseteq Nat, T # {}
  PROVE  \E x \in T : \A y \in T : x <= y
<1>. DEFINE R == {p \in Nat \X Nat : p[1] < p[2]}
<1>1. IsWellFoundedOn(R, Nat)
  BY NatLessThanWellFounded DEF OpToRel
<1>2. PICK x \in T : \A y \in T : ~ (<<y, x>> \in R)
  <2>. HIDE DEF R
  <2>. QED  BY <1>1, WFMin, Zenon
<1>3. \A y \in T : x <= y
  <2>. SUFFICES ASSUME NEW y \in T PROVE x <= y  OBVIOUS
  <2>1. <<y, x>> \notin R  BY <1>2
  <2>2. <<y, x>> \in Nat \X Nat  OBVIOUS
  <2>3. ~(y < x)  BY <2>1, <2>2
  <2>. QED  BY <2>3
<1>. QED  BY <1>3

(* Counting up from 0.                                                     *)
LEMMA CountingUp ==
  ASSUME NEW n \in Nat, NEW T, 0 \in T, \A k \in 1 .. n : k - 1 \in T => k \in T
  PROVE  0 .. n \subseteq T
<1>. SUFFICES ASSUME (0 .. n) \ T # {} PROVE FALSE  OBVIOUS
<1>1. PICK x \in (0 .. n) \ T : \A y \in (0 .. n) \ T : x <= y
  BY LeastNumber, (0 .. n) \ T \subseteq Nat
<1>. QED  BY <1>1

-----------------------------------------------------------------------------
(***************************************************************************)
(* Orders of the ways, and what the fields of a list in such an order are. *)
(***************************************************************************)
WaysOf(n) == 0 .. n - 1

Orders(n) == {o \in [1 .. n -> WaysOf(n)] :
                /\ \A i, j \in 1 .. n : o[i] = o[j] => i = j
                /\ \A w \in WaysOf(n) : \E i \in 1 .. n : o[i] = w}

Lists(n) == {Linking(o) : o \in Orders(n)}

Links(n) == [head : WaysOf(n), tail : WaysOf(n),
             next : [WaysOf(n) -> WaysOf(n) \cup {NULL}],
             prev : [WaysOf(n) -> WaysOf(n) \cup {NULL}]]

(* The list l is in the order o.                                           *)
InOrder(l, o, n) ==
  /\ l.head = o[1] /\ l.tail = o[n]
  /\ \A i \in 1 .. n : /\ l.next[o[i]] = IF i = n THEN NULL ELSE o[i + 1]
                       /\ l.prev[o[i]] = IF i = 1 THEN NULL ELSE o[i - 1]

LEMMA OrderFacts ==
  ASSUME NEW n \in Nat \ {0}, NEW o \in Orders(n)
  PROVE  /\ o \in [1 .. n -> WaysOf(n)] /\ o \in Seq(WaysOf(n)) /\ Len(o) = n
         /\ DOMAIN o = 1 .. n /\ ToSet(o) = WaysOf(n)
         /\ \A i, j \in 1 .. n : o[i] = o[j] => i = j
         /\ \A i \in 1 .. n : (CHOOSE k \in DOMAIN o : o[k] = o[i]) = i
<1>1. /\ o \in [1 .. n -> WaysOf(n)]
      /\ \A i, j \in 1 .. n : o[i] = o[j] => i = j
      /\ \A w \in WaysOf(n) : \E i \in 1 .. n : o[i] = w
  BY DEF Orders
<1>2. o \in Seq(WaysOf(n)) /\ Len(o) = n /\ DOMAIN o = 1 .. n  BY <1>1
<1>3. ToSet(o) = WaysOf(n)  BY <1>1, <1>2 DEF ToSet
<1>4. \A i \in 1 .. n : (CHOOSE k \in DOMAIN o : o[k] = o[i]) = i  BY <1>1, <1>2
<1>. QED  BY <1>1, <1>2, <1>3, <1>4

LEMMA LinkingIs ==
  ASSUME NEW n \in Nat \ {0}, NEW o \in Orders(n)
  PROVE  Linking(o) \in Links(n) /\ InOrder(Linking(o), o, n)
<1>. DEFINE at(w) == CHOOSE i \in DOMAIN o : o[i] = w
            nth(i) == IF i \in DOMAIN o THEN o[i] ELSE NULL
            nx == [w \in ToSet(o) |-> nth(at(w) + 1)]
            pv == [w \in ToSet(o) |-> nth(at(w) - 1)]
<1>1. Linking(o) = [head |-> o[1], tail |-> o[n], next |-> nx, prev |-> pv]
  BY OrderFacts DEF Linking
<1>2. \A i \in 1 .. n : at(o[i]) = i /\ o[i] \in ToSet(o) /\ o[i] \in WaysOf(n)
  BY OrderFacts
<1>3. \A i : nth(i) \in WaysOf(n) \cup {NULL}  BY OrderFacts
<1>4. nx \in [WaysOf(n) -> WaysOf(n) \cup {NULL}] /\ pv \in [WaysOf(n) -> WaysOf(n) \cup {NULL}]
  <2>. HIDE DEF nth, at
  <2>. QED  BY <1>3, OrderFacts
<1>5. \A i \in 1 .. n : /\ nx[o[i]] = IF i = n THEN NULL ELSE o[i + 1]
                        /\ pv[o[i]] = IF i = 1 THEN NULL ELSE o[i - 1]
  <2>. SUFFICES ASSUME NEW i \in 1 .. n
                PROVE  /\ nx[o[i]] = IF i = n THEN NULL ELSE o[i + 1]
                       /\ pv[o[i]] = IF i = 1 THEN NULL ELSE o[i - 1]
    OBVIOUS
  <2>1. nx[o[i]] = nth(i + 1) /\ pv[o[i]] = nth(i - 1)
    <3>1. nx[o[i]] = nth(at(o[i]) + 1) /\ pv[o[i]] = nth(at(o[i]) - 1)  BY <1>2
    <3>. HIDE DEF nx, pv, at, nth
    <3>. QED  BY <3>1, <1>2
  <2>. HIDE DEF nx, pv
  <2>. QED  BY <2>1, OrderFacts
<1>6. o[1] \in WaysOf(n) /\ o[n] \in WaysOf(n)  BY <1>2
<1>. HIDE DEF nx, pv
<1>. QED  BY <1>1, <1>4, <1>5, <1>6 DEF Links, InOrder

(* A list is its order.                                                    *)
LEMMA InOrderIs ==
  ASSUME NEW n \in Nat \ {0}, NEW o \in Orders(n), NEW l \in Links(n), InOrder(l, o, n)
  PROVE  l = Linking(o)
<1>. DEFINE k == Linking(o)
<1>1. k \in Links(n) /\ InOrder(k, o, n)  BY LinkingIs
<1>2. \A w \in WaysOf(n) : \E i \in 1 .. n : o[i] = w  BY DEF Orders
<1>. HIDE DEF k
<1>3. l.next = k.next
  <2>1. \A w \in WaysOf(n) : l.next[w] = k.next[w]  BY <1>1, <1>2 DEF InOrder
  <2>. QED  BY <2>1, <1>1 DEF Links
<1>4. l.prev = k.prev
  <2>1. \A w \in WaysOf(n) : l.prev[w] = k.prev[w]  BY <1>1, <1>2 DEF InOrder
  <2>. QED  BY <2>1, <1>1 DEF Links
<1>5. l.head = k.head /\ l.tail = k.tail  BY <1>1 DEF InOrder
<1>6. l = k  BY <1>1, <1>3, <1>4, <1>5 DEF Links
<1>. QED  BY <1>6 DEF k

LEMMA NewLinksIs ==
  ASSUME NEW n \in Nat \ {0}
  PROVE  NewLinks(n) \in Lists(n)
<1>. DEFINE o == [i \in 1 .. n |-> n - i]
<1>1. o \in Orders(n)
  <2>1. o \in [1 .. n -> WaysOf(n)]  BY DEF WaysOf
  <2>2. \A i, j \in 1 .. n : o[i] = o[j] => i = j  OBVIOUS
  <2>3. \A w \in WaysOf(n) : \E i \in 1 .. n : o[i] = w
    <3>. SUFFICES ASSUME NEW w \in WaysOf(n) PROVE \E i \in 1 .. n : o[i] = w  OBVIOUS
    <3>1. n - w \in 1 .. n /\ o[n - w] = w  BY DEF WaysOf
    <3>. QED  BY <3>1
  <2>. QED  BY <2>1, <2>2, <2>3 DEF Orders
<1>2. NewLinks(n) \in Links(n)
  <2>1. [w \in 0 .. n - 1 |-> w - 1] \in [WaysOf(n) -> WaysOf(n) \cup {NULL}]
    BY DEF WaysOf, NULL
  <2>2. [w \in 0 .. n - 1 |-> IF w = n - 1 THEN NULL ELSE w + 1]
          \in [WaysOf(n) -> WaysOf(n) \cup {NULL}]
    BY DEF WaysOf, NULL
  <2>3. n - 1 \in WaysOf(n) /\ 0 \in WaysOf(n)  BY DEF WaysOf
  <2>. QED  BY <2>1, <2>2, <2>3 DEF NewLinks, Links
<1>3. InOrder(NewLinks(n), o, n)
  <2>1. \A w \in 0 .. n - 1 : /\ NewLinks(n).next[w] = w - 1
                              /\ NewLinks(n).prev[w] = IF w = n - 1 THEN NULL ELSE w + 1
    BY DEF NewLinks
  <2>2. NewLinks(n).head = n - 1 /\ NewLinks(n).tail = 0  BY DEF NewLinks
  <2>3. \A i \in 1 .. n : o[i] = n - i /\ n - i \in 0 .. n - 1  OBVIOUS
  <2>4. 1 \in 1 .. n /\ n \in 1 .. n  OBVIOUS
  <2>. HIDE DEF o
  <2>5. \A i \in 1 .. n : /\ NewLinks(n).next[o[i]] = IF i = n THEN NULL ELSE o[i + 1]
                          /\ NewLinks(n).prev[o[i]] = IF i = 1 THEN NULL ELSE o[i - 1]
    <3>. SUFFICES ASSUME NEW i \in 1 .. n
                  PROVE  /\ NewLinks(n).next[o[i]] = IF i = n THEN NULL ELSE o[i + 1]
                         /\ NewLinks(n).prev[o[i]] = IF i = 1 THEN NULL ELSE o[i - 1]
      OBVIOUS
    <3>1. NewLinks(n).next[o[i]] = n - i - 1  BY <2>1, <2>3
    <3>2. NewLinks(n).prev[o[i]] = IF n - i = n - 1 THEN NULL ELSE n - i + 1  BY <2>1, <2>3
    <3>3. i # n => o[i + 1] = n - i - 1  BY <2>3
    <3>4. i # 1 => o[i - 1] = n - i + 1  BY <2>3
    <3>. QED  BY <3>1, <3>2, <3>3, <3>4 DEF NULL
  <2>. QED  BY <2>2, <2>3, <2>4, <2>5 DEF InOrder
<1>. HIDE DEF o
<1>. QED  BY <1>1, <1>2, <1>3, InOrderIs DEF Lists

-----------------------------------------------------------------------------
(***************************************************************************)
(* Moving the way at place i of an order to one of its ends.               *)
(***************************************************************************)
ToHead(o, i, n) ==
  [j \in 1 .. n |-> IF j = 1 THEN o[i] ELSE IF j <= i THEN o[j - 1] ELSE o[j]]
ToTail(o, i, n) ==
  [j \in 1 .. n |-> IF j < i THEN o[j] ELSE IF j < n THEN o[j + 1] ELSE o[i]]

LEMMA ReorderedIs ==
  ASSUME NEW n \in Nat \ {0}, NEW o \in Orders(n), NEW i \in 1 .. n
  PROVE  /\ Reordered(o, o[i], "Head") = ToHead(o, i, n)
         /\ Reordered(o, o[i], "Tail") = ToTail(o, i, n)
<1>1. (CHOOSE k \in DOMAIN o : o[k] = o[i]) = i /\ o \in Seq(WaysOf(n)) /\ Len(o) = n
  BY OrderFacts
<1>. DEFINE rest == RemoveAt(o, i)
<1>2. /\ rest \in Seq(WaysOf(n)) /\ Len(rest) = n - 1
      /\ \A k \in 1 .. n - 1 : rest[k] = IF k < i THEN o[k] ELSE o[k + 1]
  <2>. DEFINE a == SubSeq(o, 1, i - 1)
              b == SubSeq(o, i + 1, Len(o))
  <2>1. a \in Seq(WaysOf(n)) /\ Len(a) = i - 1 /\ \A k \in 1 .. i - 1 : a[k] = o[k]
    BY <1>1
  <2>2. b \in Seq(WaysOf(n)) /\ Len(b) = n - i /\ \A k \in 1 .. n - i : b[k] = o[i + k]
    BY <1>1
  <2>3. rest = a \o b  BY DEF RemoveAt
  <2>. HIDE DEF a, b, rest
  <2>4. rest \in Seq(WaysOf(n)) /\ Len(rest) = n - 1
    <3>1. a \o b \in Seq(WaysOf(n)) /\ Len(a \o b) = Len(a) + Len(b)  BY <2>1, <2>2, SMTT(30)
    <3>2. Len(a) + Len(b) = n - 1  BY <2>1, <2>2
    <3>. QED  BY <2>3, <3>1, <3>2
  <2>5. ASSUME NEW k \in 1 .. n - 1 PROVE rest[k] = IF k < i THEN o[k] ELSE o[k + 1]
    <3>1. CASE k < i
      <4>1. k \in 1 .. i - 1  BY <3>1
      <4>. QED  BY <4>1, <2>1, <2>2, <2>3, <3>1
    <3>2. CASE ~(k < i)
      <4>1. k - (i - 1) \in 1 .. n - i /\ i + (k - (i - 1)) = k + 1  BY <3>2
      <4>2. rest[k] = b[k - (i - 1)]  BY <2>1, <2>2, <2>3, <3>2
      <4>. QED  BY <4>1, <4>2, <2>2, <3>2
    <3>. QED  BY <3>1, <3>2
  <2>. QED  BY <2>4, <2>5
<1>3. o[i] \in WaysOf(n)  BY OrderFacts
<1>4. Reordered(o, o[i], "Head") = <<o[i]>> \o rest /\ Reordered(o, o[i], "Tail") = Append(rest, o[i])
  BY <1>1 DEF Reordered
<1>. HIDE DEF rest
<1>5. <<o[i]>> \o rest = ToHead(o, i, n)
  <2>1. /\ Len(<<o[i]>> \o rest) = n /\ <<o[i]>> \o rest \in Seq(WaysOf(n))
        /\ \A j \in 1 .. n : (<<o[i]>> \o rest)[j] = IF j = 1 THEN o[i] ELSE rest[j - 1]
    BY <1>2, <1>3
  <2>2. \A j \in 1 .. n : (<<o[i]>> \o rest)[j]
                             = IF j = 1 THEN o[i] ELSE IF j <= i THEN o[j - 1] ELSE o[j]
    BY <1>2, <2>1
  <2>3. <<o[i]>> \o rest = [j \in 1 .. n |-> (<<o[i]>> \o rest)[j]]  BY <2>1
  <2>. QED  BY <2>2, <2>3 DEF ToHead
<1>6. Append(rest, o[i]) = ToTail(o, i, n)
  <2>1. /\ Len(Append(rest, o[i])) = n /\ Append(rest, o[i]) \in Seq(WaysOf(n))
        /\ \A j \in 1 .. n : Append(rest, o[i])[j] = IF j < n THEN rest[j] ELSE o[i]
    BY <1>2, <1>3
  <2>2. \A j \in 1 .. n : Append(rest, o[i])[j]
                             = IF j < i THEN o[j] ELSE IF j < n THEN o[j + 1] ELSE o[i]
    BY <1>2, <2>1
  <2>3. Append(rest, o[i]) = [j \in 1 .. n |-> Append(rest, o[i])[j]]  BY <2>1
  <2>. QED  BY <2>2, <2>3 DEF ToTail
<1>. QED  BY <1>4, <1>5, <1>6

LEMMA MovedOrders ==
  ASSUME NEW n \in Nat \ {0}, NEW o \in Orders(n), NEW i \in 1 .. n
  PROVE  ToHead(o, i, n) \in Orders(n) /\ ToTail(o, i, n) \in Orders(n)
<1>1. /\ o \in [1 .. n -> WaysOf(n)]
      /\ \A j, k \in 1 .. n : o[j] = o[k] => j = k
      /\ \A w \in WaysOf(n) : \E j \in 1 .. n : o[j] = w
  BY DEF Orders
<1>2. ToHead(o, i, n) \in Orders(n)
  <2>. DEFINE m == ToHead(o, i, n)
  <2>1. /\ m \in [1 .. n -> WaysOf(n)]
        /\ \A j \in 1 .. n : m[j] = IF j = 1 THEN o[i] ELSE IF j <= i THEN o[j - 1] ELSE o[j]
    BY <1>1 DEF ToHead
  <2>. HIDE DEF m
  <2>2. ASSUME NEW j \in 1 .. n, NEW k \in 1 .. n, m[j] = m[k] PROVE j = k
    <3>. DEFINE from(x) == IF x = 1 THEN i ELSE IF x <= i THEN x - 1 ELSE x
    <3>1. from(j) \in 1 .. n /\ from(k) \in 1 .. n /\ m[j] = o[from(j)] /\ m[k] = o[from(k)]
      BY <2>1
    <3>2. from(j) = from(k)
      <4>. HIDE DEF from
      <4>1. o[from(j)] = o[from(k)]  BY <2>2, <3>1
      <4>. QED  BY <1>1, <3>1, <4>1
    <3>. QED  BY <3>2
  <2>3. ASSUME NEW w \in WaysOf(n) PROVE \E j \in 1 .. n : m[j] = w
    <3>1. PICK k \in 1 .. n : o[k] = w  BY <1>1
    <3>2. CASE k = i  BY <2>1, <3>1, <3>2
    <3>3. CASE k < i
      <4>1. k + 1 \in 1 .. n /\ m[k + 1] = o[k]  BY <2>1, <3>3
      <4>. QED  BY <3>1, <4>1
    <3>4. CASE k > i  BY <2>1, <3>1, <3>4
    <3>. QED  BY <3>2, <3>3, <3>4
  <2>. QED  BY <2>1, <2>2, <2>3, Zenon DEF Orders, m
<1>3. ToTail(o, i, n) \in Orders(n)
  <2>. DEFINE m == ToTail(o, i, n)
  <2>1. /\ m \in [1 .. n -> WaysOf(n)]
        /\ \A j \in 1 .. n : m[j] = IF j < i THEN o[j] ELSE IF j < n THEN o[j + 1] ELSE o[i]
    BY <1>1 DEF ToTail
  <2>. HIDE DEF m
  <2>2. ASSUME NEW j \in 1 .. n, NEW k \in 1 .. n, m[j] = m[k] PROVE j = k
    <3>. DEFINE from(x) == IF x < i THEN x ELSE IF x < n THEN x + 1 ELSE i
    <3>1. from(j) \in 1 .. n /\ from(k) \in 1 .. n /\ m[j] = o[from(j)] /\ m[k] = o[from(k)]
      BY <2>1
    <3>2. from(j) = from(k)
      <4>. HIDE DEF from
      <4>1. o[from(j)] = o[from(k)]  BY <2>2, <3>1
      <4>. QED  BY <1>1, <3>1, <4>1
    <3>. QED  BY <3>2
  <2>3. ASSUME NEW w \in WaysOf(n) PROVE \E j \in 1 .. n : m[j] = w
    <3>1. PICK k \in 1 .. n : o[k] = w  BY <1>1
    <3>2. CASE k = i  BY <2>1, <3>1, <3>2
    <3>3. CASE k > i
      <4>1. k - 1 \in 1 .. n /\ m[k - 1] = o[k]  BY <2>1, <3>3
      <4>. QED  BY <3>1, <4>1
    <3>4. CASE k < i  BY <2>1, <3>1, <3>4
    <3>. QED  BY <3>2, <3>3, <3>4
  <2>. QED  BY <2>1, <2>2, <2>3, Zenon DEF Orders, m
<1>. QED  BY <1>2, <1>3

(* What update_way_list() does to the fields, whichever of its cases.      *)
LEMMA HeadFields ==
  ASSUME NEW n \in Nat \ {0}, NEW o \in Orders(n), NEW i \in 2 .. n,
         NEW l \in Links(n), InOrder(l, o, n)
  PROVE  LET r == AtHead(Unlinked(l, o[i]), o[i])
         IN  /\ r \in Links(n)
             /\ r.head = o[i] /\ r.tail = IF i = n THEN o[n - 1] ELSE o[n]
             /\ \A x \in WaysOf(n) :
                  /\ r.next[x] = IF x = o[i] THEN o[1]
                                 ELSE IF x = o[i - 1] THEN (IF i = n THEN NULL ELSE o[i + 1])
                                 ELSE l.next[x]
                  /\ r.prev[x] = IF x = o[i] THEN NULL ELSE IF x = o[1] THEN o[i]
                                 ELSE IF i # n /\ x = o[i + 1] THEN o[i - 1] ELSE l.prev[x]
<1>. DEFINE w == o[i]
            p == o[i - 1]
            nx == IF i = n THEN NULL ELSE o[i + 1]
            un == [l.next EXCEPT ![p] = nx]
            up == IF i = n THEN l.prev ELSE [l.prev EXCEPT ![o[i + 1]] = p]
            ut == IF i = n THEN p ELSE o[n]
<1>1. /\ w \in WaysOf(n) /\ p \in WaysOf(n) /\ o[1] \in WaysOf(n) /\ o[n] \in WaysOf(n)
      /\ nx \in WaysOf(n) \cup {NULL} /\ NULL \notin WaysOf(n)
      /\ (i # n => o[i + 1] \in WaysOf(n))
  <2>1. \A j \in 1 .. n : o[j] \in WaysOf(n)  BY OrderFacts
  <2>2. i - 1 \in 1 .. n /\ 1 \in 1 .. n /\ n \in 1 .. n /\ (i # n => i + 1 \in 1 .. n)
    OBVIOUS
  <2>3. NULL \notin WaysOf(n)  BY DEF WaysOf, NULL
  <2>. QED  BY <2>1, <2>2, <2>3
<1>2. /\ l.head = o[1] /\ l.tail = o[n] /\ l.prev[w] = p /\ l.next[w] = nx
      /\ l.next \in [WaysOf(n) -> WaysOf(n) \cup {NULL}]
      /\ l.prev \in [WaysOf(n) -> WaysOf(n) \cup {NULL}]
  BY DEF InOrder, Links
<1>3. p # NULL /\ (nx = NULL <=> i = n)  BY <1>1
<1>4. l = [head |-> l.head, tail |-> l.tail, next |-> l.next, prev |-> l.prev]  BY DEF Links
<1>. DEFINE u == Unlinked(l, w)
<1>5. u = [head |-> o[1], tail |-> ut, next |-> un, prev |-> up]
  <2>1. LinkOf(l.next, p, nx) = un  BY <1>3 DEF LinkOf
  <2>2. LinkOf(l.prev, nx, p) = up  BY <1>3 DEF LinkOf
  <2>3. u = [l EXCEPT !.head = IF l.prev[w] = NULL THEN l.next[w] ELSE @,
                      !.tail = IF l.next[w] = NULL THEN l.prev[w] ELSE @,
                      !.next = LinkOf(@, l.prev[w], l.next[w]),
                      !.prev = LinkOf(@, l.next[w], l.prev[w])]
    BY DEF Unlinked
  <2>. HIDE DEF w, p, nx, un, up, u
  <2>4. u = [l EXCEPT !.head = o[1], !.tail = ut, !.next = un, !.prev = up]
    BY <1>2, <1>3, <2>1, <2>2, <2>3
  <2>. QED  BY <1>4, <2>4
<1>. DEFINE r == AtHead(u, w)
            rn == [un EXCEPT ![w] = o[1]]
            rp == [[up EXCEPT ![o[1]] = w] EXCEPT ![w] = NULL]
<1>6. r = [head |-> w, tail |-> ut, next |-> rn, prev |-> rp]
  <2>1. u.head = o[1] /\ u.tail = ut /\ u.next = un /\ u.prev = up  BY <1>5
  <2>2. LinkOf(up, o[1], w) = [up EXCEPT ![o[1]] = w]  BY <1>1 DEF LinkOf
  <2>3. r = [u EXCEPT !.next[w] = u.head, !.prev = [LinkOf(@, u.head, w) EXCEPT ![w] = NULL],
                      !.head = w]
    BY DEF AtHead
  <2>. HIDE DEF w, un, up, u, ut, r
  <2>4. r = [u EXCEPT !.next = rn, !.prev = rp, !.head = w]  BY <2>1, <2>2, <2>3
  <2>. QED  BY <1>5, <2>4
<1>7. un \in [WaysOf(n) -> WaysOf(n) \cup {NULL}] /\ up \in [WaysOf(n) -> WaysOf(n) \cup {NULL}]
  <2>. HIDE DEF nx, p
  <2>. QED  BY <1>1, <1>2
<1>8. rn \in [WaysOf(n) -> WaysOf(n) \cup {NULL}] /\ rp \in [WaysOf(n) -> WaysOf(n) \cup {NULL}]
  <2>. HIDE DEF un, up, w
  <2>. QED  BY <1>1, <1>7
<1>9. \A x \in WaysOf(n) :
         /\ rn[x] = IF x = w THEN o[1] ELSE IF x = p THEN nx ELSE l.next[x]
         /\ rp[x] = IF x = w THEN NULL ELSE IF x = o[1] THEN w
                    ELSE IF i # n /\ x = o[i + 1] THEN p ELSE l.prev[x]
  <2>. SUFFICES ASSUME NEW x \in WaysOf(n)
                PROVE  /\ rn[x] = IF x = w THEN o[1] ELSE IF x = p THEN nx ELSE l.next[x]
                       /\ rp[x] = IF x = w THEN NULL ELSE IF x = o[1] THEN w
                                  ELSE IF i # n /\ x = o[i + 1] THEN p ELSE l.prev[x]
    OBVIOUS
  <2>1. un[x] = IF x = p THEN nx ELSE l.next[x]
    <3>. HIDE DEF p, nx
    <3>. QED  BY <1>2
  <2>2. up[x] = IF i # n /\ x = o[i + 1] THEN p ELSE l.prev[x]
    <3>. HIDE DEF p
    <3>. QED  BY <1>2
  <2>. HIDE DEF un, up, w, nx, p
  <2>. QED  BY <1>7, <2>1, <2>2
<1>10. ut \in WaysOf(n)  BY <1>1
<1>. HIDE DEF rn, rp, u, ut
<1>11. r \in Links(n)  BY <1>1, <1>6, <1>8, <1>10 DEF Links
<1>12. r.head = w /\ r.tail = ut /\ r.next = rn /\ r.prev = rp  BY <1>6
<1>. HIDE DEF r
<1>. QED
  <2>1. r = AtHead(Unlinked(l, o[i]), o[i])  BY DEF r, u
  <2>2. ut = IF i = n THEN o[n - 1] ELSE o[n]  BY DEF ut
  <2>. QED  BY <1>9, <1>11, <1>12, <2>1, <2>2

LEMMA TailFields ==
  ASSUME NEW n \in Nat \ {0}, NEW o \in Orders(n), NEW i \in 1 .. n - 1,
         NEW l \in Links(n), InOrder(l, o, n)
  PROVE  LET r == AtTail(Unlinked(l, o[i]), o[i])
         IN  /\ r \in Links(n)
             /\ r.head = (IF i = 1 THEN o[2] ELSE o[1]) /\ r.tail = o[i]
             /\ \A x \in WaysOf(n) :
                  /\ r.next[x] = IF x = o[i] THEN NULL ELSE IF x = o[n] THEN o[i]
                                 ELSE IF i # 1 /\ x = o[i - 1] THEN o[i + 1] ELSE l.next[x]
                  /\ r.prev[x] = IF x = o[i] THEN o[n]
                                 ELSE IF x = o[i + 1] THEN (IF i = 1 THEN NULL ELSE o[i - 1])
                                 ELSE l.prev[x]
<1>. DEFINE w == o[i]
            x1 == o[i + 1]
            p == IF i = 1 THEN NULL ELSE o[i - 1]
            un == IF i = 1 THEN l.next ELSE [l.next EXCEPT ![o[i - 1]] = x1]
            up == [l.prev EXCEPT ![x1] = p]
            uh == IF i = 1 THEN x1 ELSE o[1]
<1>1. /\ w \in WaysOf(n) /\ x1 \in WaysOf(n) /\ o[1] \in WaysOf(n) /\ o[n] \in WaysOf(n)
      /\ p \in WaysOf(n) \cup {NULL} /\ NULL \notin WaysOf(n)
      /\ (i # 1 => o[i - 1] \in WaysOf(n))
  BY OrderFacts DEF WaysOf, NULL
<1>2. /\ l.head = o[1] /\ l.tail = o[n] /\ l.prev[w] = p /\ l.next[w] = x1
      /\ l.next \in [WaysOf(n) -> WaysOf(n) \cup {NULL}]
      /\ l.prev \in [WaysOf(n) -> WaysOf(n) \cup {NULL}]
  BY DEF InOrder, Links
<1>3. x1 # NULL /\ (p = NULL <=> i = 1)  BY <1>1
<1>4. l = [head |-> l.head, tail |-> l.tail, next |-> l.next, prev |-> l.prev]  BY DEF Links
<1>. DEFINE u == Unlinked(l, w)
<1>5. u = [head |-> uh, tail |-> o[n], next |-> un, prev |-> up]
  <2>1. LinkOf(l.next, p, x1) = un  BY <1>3 DEF LinkOf
  <2>2. LinkOf(l.prev, x1, p) = up  BY <1>3 DEF LinkOf
  <2>3. u = [l EXCEPT !.head = IF l.prev[w] = NULL THEN l.next[w] ELSE @,
                      !.tail = IF l.next[w] = NULL THEN l.prev[w] ELSE @,
                      !.next = LinkOf(@, l.prev[w], l.next[w]),
                      !.prev = LinkOf(@, l.next[w], l.prev[w])]
    BY DEF Unlinked
  <2>. HIDE DEF w, p, x1, un, up, u
  <2>4. u = [l EXCEPT !.head = uh, !.tail = o[n], !.next = un, !.prev = up]
    BY <1>2, <1>3, <2>1, <2>2, <2>3
  <2>. QED  BY <1>4, <2>4
<1>. DEFINE r == AtTail(u, w)
            rn == [[un EXCEPT ![o[n]] = w] EXCEPT ![w] = NULL]
            rp == [up EXCEPT ![w] = o[n]]
<1>6. r = [head |-> uh, tail |-> w, next |-> rn, prev |-> rp]
  <2>1. u.head = uh /\ u.tail = o[n] /\ u.next = un /\ u.prev = up  BY <1>5
  <2>2. LinkOf(un, o[n], w) = [un EXCEPT ![o[n]] = w]  BY <1>1 DEF LinkOf
  <2>3. r = [u EXCEPT !.prev[w] = u.tail, !.next = [LinkOf(@, u.tail, w) EXCEPT ![w] = NULL],
                      !.tail = w]
    BY DEF AtTail
  <2>. HIDE DEF w, un, up, u, uh, r
  <2>4. r = [u EXCEPT !.next = rn, !.prev = rp, !.tail = w]  BY <2>1, <2>2, <2>3
  <2>. QED  BY <1>5, <2>4
<1>7. un \in [WaysOf(n) -> WaysOf(n) \cup {NULL}] /\ up \in [WaysOf(n) -> WaysOf(n) \cup {NULL}]
  <2>. HIDE DEF x1, p
  <2>. QED  BY <1>1, <1>2
<1>8. rn \in [WaysOf(n) -> WaysOf(n) \cup {NULL}] /\ rp \in [WaysOf(n) -> WaysOf(n) \cup {NULL}]
  <2>. HIDE DEF un, up, w
  <2>. QED  BY <1>1, <1>7
<1>9. \A x \in WaysOf(n) :
         /\ rn[x] = IF x = w THEN NULL ELSE IF x = o[n] THEN w
                    ELSE IF i # 1 /\ x = o[i - 1] THEN x1 ELSE l.next[x]
         /\ rp[x] = IF x = w THEN o[n] ELSE IF x = x1 THEN p ELSE l.prev[x]
  <2>. SUFFICES ASSUME NEW x \in WaysOf(n)
                PROVE  /\ rn[x] = IF x = w THEN NULL ELSE IF x = o[n] THEN w
                                  ELSE IF i # 1 /\ x = o[i - 1] THEN x1 ELSE l.next[x]
                       /\ rp[x] = IF x = w THEN o[n] ELSE IF x = x1 THEN p ELSE l.prev[x]
    OBVIOUS
  <2>1. un[x] = IF i # 1 /\ x = o[i - 1] THEN x1 ELSE l.next[x]
    <3>. HIDE DEF x1
    <3>. QED  BY <1>2
  <2>2. up[x] = IF x = x1 THEN p ELSE l.prev[x]
    <3>. HIDE DEF p, x1
    <3>. QED  BY <1>2
  <2>. HIDE DEF un, up, w, x1, p
  <2>. QED  BY <1>7, <2>1, <2>2
<1>10. uh \in WaysOf(n)  BY <1>1
<1>. HIDE DEF rn, rp, u, uh
<1>11. r \in Links(n)  BY <1>1, <1>6, <1>8, <1>10 DEF Links
<1>12. r.head = uh /\ r.tail = w /\ r.next = rn /\ r.prev = rp  BY <1>6
<1>. HIDE DEF r
<1>. QED
  <2>1. r = AtTail(Unlinked(l, o[i]), o[i])  BY DEF r, u
  <2>2. uh = IF i = 1 THEN o[2] ELSE o[1]  BY DEF uh
  <2>. QED  BY <1>9, <1>11, <1>12, <2>1, <2>2

LEMMA MoveIs ==
  ASSUME NEW n \in Nat \ {0}, NEW o \in Orders(n), NEW i \in 1 .. n
  PROVE  /\ UpdateWayList(Linking(o), o[i], "Head") = Linking(ToHead(o, i, n))
         /\ UpdateWayList(Linking(o), o[i], "Tail") = Linking(ToTail(o, i, n))
<1>. DEFINE l == Linking(o)
<1>1. l \in Links(n) /\ InOrder(l, o, n)  BY LinkingIs
<1>2. /\ \A j \in 1 .. n : o[j] \in WaysOf(n)
      /\ \A j, k \in 1 .. n : o[j] = o[k] => j = k
      /\ o = [j \in 1 .. n |-> o[j]]
  BY DEF Orders
<1>3. 1 \in 1 .. n /\ n \in 1 .. n /\ l.head = o[1] /\ l.tail = o[n]  BY <1>1 DEF InOrder
<1>. HIDE DEF l
<1>4. UpdateWayList(l, o[i], "Head") = Linking(ToHead(o, i, n))
  <2>1. CASE i = 1
    <3>1. ToHead(o, i, n) = o  BY <1>2, <2>1 DEF ToHead
    <3>2. UpdateWayList(l, o[i], "Head") = l  BY <1>3, <2>1 DEF UpdateWayList
    <3>. QED  BY <3>1, <3>2 DEF l
  <2>2. CASE i # 1
    <3>. DEFINE r == AtHead(Unlinked(l, o[i]), o[i])
                m == ToHead(o, i, n)
    <3>1. UpdateWayList(l, o[i], "Head") = r
      <4>1. l.head # o[i]  BY <1>2, <1>3, <2>2
      <4>. QED  BY <4>1 DEF UpdateWayList
    <3>2. i \in 2 .. n  BY <2>2
    <3>3. /\ r \in Links(n)
          /\ r.head = o[i] /\ r.tail = IF i = n THEN o[n - 1] ELSE o[n]
          /\ \A x \in WaysOf(n) :
               /\ r.next[x] = IF x = o[i] THEN o[1]
                              ELSE IF x = o[i - 1] THEN (IF i = n THEN NULL ELSE o[i + 1])
                              ELSE l.next[x]
               /\ r.prev[x] = IF x = o[i] THEN NULL ELSE IF x = o[1] THEN o[i]
                              ELSE IF i # n /\ x = o[i + 1] THEN o[i - 1] ELSE l.prev[x]
      BY <1>1, <3>2, HeadFields
    <3>4. /\ m \in Orders(n)
          /\ \A j \in 1 .. n : m[j] = IF j = 1 THEN o[i] ELSE IF j <= i THEN o[j - 1] ELSE o[j]
      BY MovedOrders DEF ToHead
    <3>5. \A j \in 1 .. n : /\ l.next[o[j]] = IF j = n THEN NULL ELSE o[j + 1]
                            /\ l.prev[o[j]] = IF j = 1 THEN NULL ELSE o[j - 1]
      BY <1>1 DEF InOrder
    <3>. HIDE DEF r, m
    <3>6. ASSUME NEW j \in 1 .. n
          PROVE  /\ r.next[m[j]] = IF j = n THEN NULL ELSE m[j + 1]
                 /\ r.prev[m[j]] = IF j = 1 THEN NULL ELSE m[j - 1]
      <4>1. CASE j = 1
        <5>1. m[j] = o[i] /\ m[2] = o[1]  BY <3>2, <3>4, <4>1
        <5>. QED  BY <1>2, <3>2, <3>3, <4>1, <5>1
      <4>2. CASE j # 1 /\ j <= i
        <5>1. m[j] = o[j - 1] /\ j - 1 \in 1 .. n /\ j - 1 # i  BY <3>4, <4>2
        <5>2. m[j - 1] = IF j = 2 THEN o[i] ELSE o[j - 2]
          <6>1. j - 1 \in 1 .. n /\ j - 1 <= i /\ (j - 1 = 1 <=> j = 2) /\ j - 1 - 1 = j - 2
            BY <4>2
          <6>. QED  BY <3>4, <6>1
        <5>3. j # n => m[j + 1] = IF j = i THEN o[j + 1] ELSE o[j]
          <6>1. j # n => j + 1 \in 1 .. n /\ j + 1 # 1 /\ j + 1 - 1 = j /\ (j + 1 <= i <=> j # i)
            BY <4>2
          <6>. QED  BY <3>4, <6>1
        <5>4. o[j - 1] \in WaysOf(n) /\ o[j - 1] # o[i]  BY <1>2, <5>1
        <5>5. r.next[m[j]] = IF j = i THEN (IF i = n THEN NULL ELSE o[i + 1]) ELSE o[j]
          <6>1. o[j - 1] = o[i - 1] <=> j = i
            <7>1. i - 1 \in 1 .. n  BY <3>2
            <7>. QED  BY <1>2, <5>1, <7>1
          <6>2. l.next[o[j - 1]] = o[j]  BY <3>5, <5>1, <4>2
          <6>. QED  BY <3>3, <5>1, <5>4, <6>1, <6>2
        <5>6. r.prev[m[j]] = IF j = 2 THEN o[i] ELSE o[j - 2]
          <6>1. o[j - 1] = o[1] <=> j = 2  BY <1>2, <1>3, <5>1
          <6>2. i # n => o[j - 1] # o[i + 1]
            <7>1. i # n => i + 1 \in 1 .. n /\ j - 1 # i + 1  BY <4>2
            <7>. QED  BY <1>2, <5>1, <7>1
          <6>3. j # 2 => l.prev[o[j - 1]] = o[j - 2]  BY <3>5, <5>1
          <6>. QED  BY <3>3, <5>1, <5>4, <6>1, <6>2, <6>3
        <5>. QED  BY <4>2, <5>2, <5>3, <5>5, <5>6
      <4>3. CASE j > i
        <5>1. m[j] = o[j] /\ o[j] \in WaysOf(n) /\ o[j] # o[i]  BY <1>2, <3>4, <4>3
        <5>2. j # n => m[j + 1] = o[j + 1]
          <6>1. j # n => j + 1 \in 1 .. n /\ j + 1 # 1 /\ ~(j + 1 <= i)  BY <4>3
          <6>. QED  BY <3>4, <6>1
        <5>3. m[j - 1] = IF j = i + 1 THEN o[i - 1] ELSE o[j - 1]
          <6>1. j - 1 \in 1 .. n /\ j - 1 # 1 /\ (j - 1 <= i <=> j = i + 1)  BY <4>3, <3>2
          <6>2. j = i + 1 => j - 1 - 1 = i - 1  OBVIOUS
          <6>. QED  BY <3>4, <6>1, <6>2
        <5>4. r.next[m[j]] = IF j = n THEN NULL ELSE o[j + 1]
          <6>1. o[j] # o[i - 1]
            <7>1. i - 1 \in 1 .. n /\ j # i - 1  BY <3>2, <4>3
            <7>. QED  BY <1>2, <7>1
          <6>. QED  BY <3>3, <3>5, <5>1, <6>1
        <5>5. r.prev[m[j]] = IF j = i + 1 THEN o[i - 1] ELSE o[j - 1]
          <6>1. o[j] # o[1]  BY <1>2, <1>3, <3>2, <4>3
          <6>2. i # n  BY <4>3
          <6>3. o[j] = o[i + 1] <=> j = i + 1
            <7>1. i + 1 \in 1 .. n  BY <4>3
            <7>. QED  BY <1>2, <7>1
          <6>4. l.prev[o[j]] = o[j - 1]  BY <3>5, <3>2, <4>3
          <6>. QED  BY <3>3, <5>1, <6>1, <6>2, <6>3, <6>4
        <5>. QED  BY <4>3, <5>2, <5>3, <5>4, <5>5
      <4>. QED  BY <4>1, <4>2, <4>3
    <3>7. r.head = m[1] /\ r.tail = m[n]  BY <1>3, <3>2, <3>3, <3>4
    <3>8. InOrder(r, m, n)  BY <3>6, <3>7 DEF InOrder
    <3>. QED  BY <3>1, <3>3, <3>4, <3>8, InOrderIs DEF m
  <2>. QED  BY <2>1, <2>2
<1>5. UpdateWayList(l, o[i], "Tail") = Linking(ToTail(o, i, n))
  <2>1. CASE i = n
    <3>1. ToTail(o, i, n) = o
      <4>1. ToTail(o, i, n) = [j \in 1 .. n |-> o[j]]  BY <2>1 DEF ToTail
      <4>. QED  BY <1>2, <4>1
    <3>2. UpdateWayList(l, o[i], "Tail") = l  BY <1>3, <2>1 DEF UpdateWayList
    <3>. QED  BY <3>1, <3>2 DEF l
  <2>2. CASE i # n
    <3>. DEFINE r == AtTail(Unlinked(l, o[i]), o[i])
                m == ToTail(o, i, n)
    <3>1. UpdateWayList(l, o[i], "Tail") = r
      <4>1. l.tail # o[i]  BY <1>2, <1>3, <2>2
      <4>. QED  BY <4>1 DEF UpdateWayList
    <3>2. i \in 1 .. n - 1  BY <2>2
    <3>3. /\ r \in Links(n)
          /\ r.head = (IF i = 1 THEN o[2] ELSE o[1]) /\ r.tail = o[i]
          /\ \A x \in WaysOf(n) :
               /\ r.next[x] = IF x = o[i] THEN NULL ELSE IF x = o[n] THEN o[i]
                              ELSE IF i # 1 /\ x = o[i - 1] THEN o[i + 1] ELSE l.next[x]
               /\ r.prev[x] = IF x = o[i] THEN o[n]
                              ELSE IF x = o[i + 1] THEN (IF i = 1 THEN NULL ELSE o[i - 1])
                              ELSE l.prev[x]
      BY <1>1, <3>2, TailFields
    <3>4. /\ m \in Orders(n)
          /\ \A j \in 1 .. n : m[j] = IF j < i THEN o[j] ELSE IF j < n THEN o[j + 1] ELSE o[i]
      BY MovedOrders DEF ToTail
    <3>5. \A j \in 1 .. n : /\ l.next[o[j]] = IF j = n THEN NULL ELSE o[j + 1]
                            /\ l.prev[o[j]] = IF j = 1 THEN NULL ELSE o[j - 1]
      BY <1>1 DEF InOrder
    <3>. HIDE DEF r, m
    <3>6. ASSUME NEW j \in 1 .. n
          PROVE  /\ r.next[m[j]] = IF j = n THEN NULL ELSE m[j + 1]
                 /\ r.prev[m[j]] = IF j = 1 THEN NULL ELSE m[j - 1]
      <4>1. CASE j = n
        <5>1. m[j] = o[i] /\ (j # 1 => m[j - 1] = o[n])
          <6>1. m[j] = o[i]  BY <3>2, <3>4, <4>1
          <6>2. j # 1 => j - 1 \in 1 .. n /\ ~(j - 1 < i) /\ j - 1 < n /\ j - 1 + 1 = n
            BY <3>2, <4>1
          <6>. QED  BY <3>4, <6>1, <6>2
        <5>2. n # 1 /\ o[i] \in WaysOf(n)  BY <1>2, <3>2
        <5>. QED  BY <3>3, <4>1, <5>1, <5>2
      <4>2. CASE j # n /\ j >= i
        <5>1. m[j] = o[j + 1] /\ j + 1 \in 1 .. n /\ j + 1 # i  BY <3>4, <4>2
        <5>2. m[j + 1] = IF j + 1 = n THEN o[i] ELSE o[j + 2]
          <6>1. j + 1 \in 1 .. n /\ ~(j + 1 < i) /\ (j + 1 < n <=> j + 1 # n) /\ j + 1 + 1 = j + 2
            BY <4>2
          <6>. QED  BY <3>4, <6>1
        <5>3. j # 1 => m[j - 1] = IF j = i THEN o[j - 1] ELSE o[j]
          <6>1. j # 1 => j - 1 \in 1 .. n /\ j - 1 < n /\ j - 1 + 1 = j /\ (j - 1 < i <=> j = i)
            BY <4>2
          <6>. QED  BY <3>4, <6>1
        <5>4. o[j + 1] \in WaysOf(n) /\ o[j + 1] # o[i]  BY <1>2, <5>1
        <5>5. r.next[m[j]] = IF j + 1 = n THEN o[i] ELSE o[j + 2]
          <6>1. o[j + 1] = o[n] <=> j + 1 = n  BY <1>2, <1>3, <5>1
          <6>2. i # 1 => o[j + 1] # o[i - 1]
            <7>1. i # 1 => i - 1 \in 1 .. n /\ j + 1 # i - 1  BY <4>2
            <7>. QED  BY <1>2, <5>1, <7>1
          <6>3. j + 1 # n => l.next[o[j + 1]] = o[j + 2]  BY <3>5, <5>1
          <6>. QED  BY <3>3, <5>1, <5>4, <6>1, <6>2, <6>3
        <5>6. r.prev[m[j]] = IF j = i THEN (IF i = 1 THEN NULL ELSE o[i - 1]) ELSE o[j]
          <6>1. o[j + 1] = o[i + 1] <=> j = i
            <7>1. i + 1 \in 1 .. n  BY <3>2
            <7>. QED  BY <1>2, <5>1, <7>1
          <6>2. l.prev[o[j + 1]] = o[j]  BY <3>5, <5>1
          <6>. QED  BY <3>3, <5>1, <5>4, <6>1, <6>2
        <5>. QED  BY <4>2, <5>2, <5>3, <5>5, <5>6
      <4>3. CASE j < i
        <5>1. m[j] = o[j] /\ o[j] \in WaysOf(n) /\ o[j] # o[i]  BY <1>2, <3>4, <4>3
        <5>2. m[j + 1] = IF j + 1 = i THEN o[i + 1] ELSE o[j + 1]
          <6>1. j + 1 \in 1 .. n /\ (j + 1 < i <=> j + 1 # i) /\ j + 1 < n  BY <4>3, <3>2
          <6>2. j + 1 = i => j + 1 + 1 = i + 1  OBVIOUS
          <6>. QED  BY <3>4, <6>1, <6>2
        <5>3. j # 1 => m[j - 1] = o[j - 1]
          <6>1. j # 1 => j - 1 \in 1 .. n /\ j - 1 < i  BY <4>3
          <6>. QED  BY <3>4, <6>1
        <5>4. r.next[m[j]] = IF j + 1 = i THEN o[i + 1] ELSE o[j + 1]
          <6>1. o[j] # o[n]  BY <1>2, <1>3, <3>2, <4>3
          <6>2. i # 1  BY <4>3
          <6>3. o[j] = o[i - 1] <=> j + 1 = i
            <7>1. i - 1 \in 1 .. n  BY <4>3
            <7>. QED  BY <1>2, <7>1
          <6>4. l.next[o[j]] = o[j + 1]  BY <3>5, <3>2, <4>3
          <6>. QED  BY <3>3, <5>1, <6>1, <6>2, <6>3, <6>4
        <5>5. r.prev[m[j]] = IF j = 1 THEN NULL ELSE o[j - 1]
          <6>1. o[j] # o[i + 1]
            <7>1. i + 1 \in 1 .. n /\ j # i + 1  BY <3>2, <4>3
            <7>. QED  BY <1>2, <7>1
          <6>. QED  BY <3>3, <3>5, <5>1, <6>1
        <5>. QED  BY <4>3, <3>2, <5>2, <5>3, <5>4, <5>5
      <4>. QED  BY <4>1, <4>2, <4>3
    <3>7. r.head = m[1] /\ r.tail = m[n]  BY <1>3, <3>2, <3>3, <3>4
    <3>8. InOrder(r, m, n)  BY <3>6, <3>7 DEF InOrder
    <3>. QED  BY <3>1, <3>3, <3>4, <3>8, InOrderIs DEF m
  <2>. QED  BY <2>1, <2>2
<1>. QED  BY <1>4, <1>5 DEF l

(***************************************************************************)
(* A list in an order of the ways is what the asserts want of it, and      *)
(* update_way_list() leaves such a list.                                   *)
(***************************************************************************)
LEMMA ChainIs ==
  ASSUME NEW n \in Nat \ {0}, NEW o \in Orders(n)
  PROVE  Chain(Linking(o), n) = o
<1>. DEFINE l == Linking(o)
            P(g) == g = [i \in 1 .. n |->
                           IF i = 1 THEN l.head
                           ELSE IF g[i - 1] = NULL THEN NULL ELSE l.next[g[i - 1]]]
            g == CHOOSE h : P(h)
<1>1. /\ l.head = o[1]
      /\ \A i \in 1 .. n : l.next[o[i]] = IF i = n THEN NULL ELSE o[i + 1]
  BY LinkingIs, ZenonT(60) DEF InOrder
<1>2. /\ o = [i \in 1 .. n |-> o[i]]
      /\ \A i \in 1 .. n : o[i] \in WaysOf(n) /\ o[i] # NULL
  BY DEF Orders, WaysOf, NULL
<1>3. Chain(l, n) = g  BY DEF Chain
<1>. HIDE DEF l
<1>4. P(o)
  <2>1. ASSUME NEW i \in 1 .. n
        PROVE  o[i] = IF i = 1 THEN l.head
                      ELSE IF o[i - 1] = NULL THEN NULL ELSE l.next[o[i - 1]]
    <3>1. CASE i = 1  BY <1>1, <3>1
    <3>2. CASE i # 1
      <4>1. i - 1 \in 1 .. n /\ i - 1 # n /\ i - 1 + 1 = i  BY <3>2
      <4>2. o[i - 1] # NULL /\ l.next[o[i - 1]] = o[i]  BY <1>1, <1>2, <4>1
      <4>. QED  BY <3>2, <4>2
    <3>. QED  BY <3>1, <3>2
  <2>. QED  BY <1>2, <2>1
<1>5. P(g)
  <2>. HIDE DEF P
  <2>. QED  BY <1>4
<1>6. /\ g = [i \in 1 .. n |-> g[i]]
      /\ \A i \in 1 .. n : g[i] = IF i = 1 THEN l.head
                                 ELSE IF g[i - 1] = NULL THEN NULL ELSE l.next[g[i - 1]]
  <2>. HIDE DEF g
  <2>. QED  BY <1>5
<1>. HIDE DEF g, P
<1>7. 0 .. n - 1 \subseteq {i \in 0 .. n - 1 : g[i + 1] = o[i + 1]}
  <2>. DEFINE T == {i \in 0 .. n - 1 : g[i + 1] = o[i + 1]}
  <2>1. 0 \in T
    <3>1. 1 \in 1 .. n /\ 0 \in 0 .. n - 1 /\ 0 + 1 = 1  OBVIOUS
    <3>2. g[1] = o[1]  BY <1>1, <1>6, <3>1
    <3>. QED  BY <3>1, <3>2
  <2>2. ASSUME NEW k \in 1 .. n - 1, k - 1 \in T PROVE k \in T
    <3>1. g[k] = o[k] /\ k \in 1 .. n /\ k # n /\ k + 1 \in 1 .. n /\ k + 1 # 1  BY <2>2
    <3>2. g[k + 1] = IF g[k] = NULL THEN NULL ELSE l.next[g[k]]  BY <1>6, <3>1
    <3>3. g[k + 1] = o[k + 1]  BY <1>1, <1>2, <3>1, <3>2
    <3>. QED  BY <3>3
  <2>3. n - 1 \in Nat  OBVIOUS
  <2>. HIDE DEF T
  <2>4. 0 .. n - 1 \subseteq T  BY <2>1, <2>2, <2>3, CountingUp, Zenon
  <2>. QED  BY <2>4 DEF T
<1>8. \A i \in 1 .. n : g[i] = o[i]
  <2>. SUFFICES ASSUME NEW i \in 1 .. n PROVE g[i] = o[i]  OBVIOUS
  <2>1. i - 1 \in 0 .. n - 1 /\ i - 1 + 1 = i  OBVIOUS
  <2>. QED  BY <1>7, <2>1
<1>9. g = o  BY <1>2, <1>6, <1>8
<1>. QED  BY <1>3, <1>9 DEF l

LEMMA ListsAreOrders ==
  ASSUME NEW n \in Nat \ {0}, NEW l \in Lists(n)
  PROVE  /\ ListIsOrder(l)
         /\ l.head \in WaysOf(n) /\ l.tail \in WaysOf(n)
         /\ \A w \in WaysOf(n), where \in {"Head", "Tail"} :
              UpdateWayList(l, w, where) \in Lists(n)
<1>1. PICK o \in Orders(n) : l = Linking(o)  BY DEF Lists
<1>2. DOMAIN l.next = WaysOf(n) /\ l.head \in WaysOf(n) /\ l.tail \in WaysOf(n)
  BY <1>1, LinkingIs DEF Links
<1>3. Cardinality(WaysOf(n)) = n
  <2>1. Cardinality(0 .. n - 1) = IF 0 > n - 1 THEN 0 ELSE n - 1 - 0 + 1
    BY FS_Interval, 0 \in Int, n - 1 \in Int
  <2>. QED  BY <2>1 DEF WaysOf
<1>4. Chain(l, n) = o  BY <1>1, ChainIs
<1>5. ToSet(o) = WaysOf(n)  BY OrderFacts
<1>6. \A w \in WaysOf(n) : \E i \in 1 .. n : o[i] = w  BY DEF Orders
<1>7. ASSUME NEW w \in WaysOf(n), NEW where \in {"Head", "Tail"}
      PROVE  /\ UpdateWayList(l, w, where) = Linking(Reordered(o, w, where))
             /\ UpdateWayList(l, w, where) \in Lists(n)
  <2>1. PICK i \in 1 .. n : o[i] = w  BY <1>6
  <2>2. ToHead(o, i, n) \in Orders(n) /\ ToTail(o, i, n) \in Orders(n)  BY MovedOrders
  <2>3. CASE where = "Head"
    <3>1. UpdateWayList(l, w, where) = Linking(ToHead(o, i, n))  BY <1>1, <2>1, <2>3, MoveIs
    <3>2. Reordered(o, w, where) = ToHead(o, i, n)  BY <2>1, <2>3, ReorderedIs
    <3>. QED  BY <2>2, <3>1, <3>2 DEF Lists
  <2>4. CASE where = "Tail"
    <3>1. UpdateWayList(l, w, where) = Linking(ToTail(o, i, n))  BY <1>1, <2>1, <2>4, MoveIs
    <3>2. Reordered(o, w, where) = ToTail(o, i, n)  BY <2>1, <2>4, ReorderedIs
    <3>. QED  BY <2>2, <3>1, <3>2 DEF Lists
  <2>. QED  BY <2>3, <2>4
<1>8. ListIsOrder(l)
  BY <1>1, <1>2, <1>3, <1>4, <1>5, <1>7 DEF ListIsOrder
<1>. QED  BY <1>2, <1>7, <1>8

-----------------------------------------------------------------------------
(***************************************************************************)
(* A cache: its sets are lists of blocks, each in the set of its address,  *)
(* and none there twice.  An access puts one block where it was, or in the *)
(* place of the last of its set.                                           *)
(***************************************************************************)
Shapes == Geometries(Nat \ {0}, Nat \ {0}, {"LRU", "FIFO"}, Nat)

SetsOf(g) == 0 .. g.nsets - 1

Home(addr, g) == addr % g.nsets

Blocks == [addr : Nat, context_id : Nat \cup {NULL}, valid : BOOLEAN, dirty : BOOLEAN,
           ready : Nat]

Rows(g) == [links : Lists(g.assoc), blks : [WaysOf(g.assoc) -> Blocks]]

Homed(c, g) ==
  \A s \in SetsOf(g), w \in WaysOf(g.assoc) :
    c.sets[s].blks[w].valid => s = Home(c.sets[s].blks[w].addr, g)

Same(x, y) == x.valid /\ y.valid /\ x.addr = y.addr /\ x.context_id = y.context_id

Distinct(c, g) ==
  \A s \in SetsOf(g), w, x \in WaysOf(g.assoc) :
    Same(c.sets[s].blks[w], c.sets[s].blks[x]) => w = x

Caches(g) == {c \in [geometry : {g}, bus_free : Nat, sets : [SetsOf(g) -> Rows(g)]] :
                Homed(c, g) /\ Distinct(c, g)}

LEMMA CacheIs ==
  ASSUME NEW g \in Shapes, NEW c \in Caches(g)
  PROVE  /\ c.geometry = g /\ g.nsets \in Nat \ {0} /\ g.assoc \in Nat \ {0}
         /\ g.hit_latency \in Nat
         /\ c.bus_free \in Nat /\ DOMAIN c.sets = SetsOf(g)
         /\ c = [geometry |-> g, bus_free |-> c.bus_free, sets |-> c.sets]
         /\ \A s \in SetsOf(g) :
              /\ c.sets[s] \in Rows(g) /\ c.sets[s].links \in Lists(g.assoc)
              /\ c.sets[s].blks \in [WaysOf(g.assoc) -> Blocks]
              /\ DOMAIN c.sets[s].blks = WaysOf(g.assoc)
              /\ \A w \in WaysOf(g.assoc) : c.sets[s].blks[w] \in Blocks
         /\ Homed(c, g) /\ Distinct(c, g)
<1>1. /\ c \in [geometry : {g}, bus_free : Nat, sets : [SetsOf(g) -> Rows(g)]]
      /\ Homed(c, g) /\ Distinct(c, g)
  BY DEF Caches
<1>2. g.nsets \in Nat \ {0} /\ g.assoc \in Nat \ {0} /\ g.hit_latency \in Nat
  BY DEF Shapes, Geometries
<1>3. /\ c.geometry = g /\ c.bus_free \in Nat /\ c.sets \in [SetsOf(g) -> Rows(g)]
      /\ c = [geometry |-> g, bus_free |-> c.bus_free, sets |-> c.sets]
  BY <1>1
<1>4. \A s \in SetsOf(g) : c.sets[s] \in Rows(g)  BY <1>3
<1>5. \A r \in Rows(g) : /\ r.links \in Lists(g.assoc) /\ r.blks \in [WaysOf(g.assoc) -> Blocks]
                         /\ DOMAIN r.blks = WaysOf(g.assoc)
                         /\ \A w \in WaysOf(g.assoc) : r.blks[w] \in Blocks
  BY DEF Rows
<1>. QED  BY <1>1, <1>2, <1>3, <1>4, <1>5

LEMMA HomeIs ==
  ASSUME NEW g \in Shapes, NEW c \in Caches(g), NEW b \in Nat
  PROVE  Home(b, g) \in SetsOf(g) /\ CACHE_SET(c, b) = Home(b, g)
<1>1. g.nsets \in Nat \ {0} /\ c.geometry = g  BY CacheIs
<1>. QED  BY <1>1 DEF SetsOf, CACHE_SET, Home

LEMMA ValidIs ==
  ASSUME NEW g \in Shapes, NEW c \in Caches(g), NEW x
  PROVE  x \in Valid(c) <=> \E s \in SetsOf(g), w \in WaysOf(g.assoc) :
                              x = c.sets[s].blks[w] /\ x.valid
<1>1. DOMAIN c.sets = SetsOf(g) /\ \A s \in SetsOf(g) : DOMAIN c.sets[s].blks = WaysOf(g.assoc)
  BY CacheIs
<1>2. x \in Blks(c) <=> \E s \in SetsOf(g), w \in WaysOf(g.assoc) : x = c.sets[s].blks[w]
  BY <1>1 DEF Blks
<1>. QED  BY <1>2 DEF Valid

(* No address of a context is in a cache twice.                            *)
LEMMA OnePlace ==
  ASSUME NEW g \in Shapes, NEW c \in Caches(g),
         NEW s \in SetsOf(g), NEW w \in WaysOf(g.assoc),
         NEW r \in SetsOf(g), NEW x \in WaysOf(g.assoc),
         Same(c.sets[s].blks[w], c.sets[r].blks[x])
  PROVE  s = r /\ w = x
<1>1. Homed(c, g) /\ Distinct(c, g)  BY CacheIs
<1>2. s = r  BY <1>1 DEF Homed, Same
<1>. QED  BY <1>1, <1>2 DEF Distinct

LEMMA OneBlock ==
  ASSUME NEW g \in Shapes, NEW c \in Caches(g), NEW x \in Valid(c), NEW y \in Valid(c),
         Same(x, y)
  PROVE  x = y
<1>1. PICK s \in SetsOf(g), w \in WaysOf(g.assoc) : x = c.sets[s].blks[w]  BY ValidIs
<1>2. PICK r \in SetsOf(g), v \in WaysOf(g.assoc) : y = c.sets[r].blks[v]  BY ValidIs
<1>. QED  BY <1>1, <1>2, OnePlace

LEMMA ValidBlocks ==
  ASSUME NEW g \in Shapes, NEW c \in Caches(g), NEW x \in Valid(c)
  PROVE  x \in Blocks /\ x.valid
BY ValidIs, CacheIs

Put(c, s, w, blk, links, bus) ==
  [geometry |-> c.geometry, bus_free |-> bus,
   sets |-> [c.sets EXCEPT ![s] =
               [links |-> links, blks |-> [c.sets[s].blks EXCEPT ![w] = blk]]]]

LEMMA PutKeeps ==
  ASSUME NEW g \in Shapes, NEW c \in Caches(g),
         NEW b \in Nat, NEW w \in WaysOf(g.assoc),
         NEW blk \in Blocks, blk.valid, blk.addr = b,
         NEW links \in Lists(g.assoc), NEW bus \in Nat,
         NEW s, s = Home(b, g), NEW old, old = c.sets[s].blks[w],
         \A x \in WaysOf(g.assoc) : Same(c.sets[s].blks[x], blk) => x = w,
         NEW d, d = Put(c, s, w, blk, links, bus)
  PROVE  s \in SetsOf(g) /\ d \in Caches(g) /\ Valid(d) = (Valid(c) \ {old}) \cup {blk}
<1>. DEFINE row == [links |-> links, blks |-> [c.sets[s].blks EXCEPT ![w] = blk]]
<1>1. s \in SetsOf(g)  BY HomeIs
<1>2. row \in Rows(g)
  <2>1. c.sets[s].blks \in [WaysOf(g.assoc) -> Blocks]  BY <1>1, CacheIs
  <2>. QED  BY <2>1 DEF Rows
<1>3. d = [geometry |-> g, bus_free |-> bus, sets |-> [c.sets EXCEPT ![s] = row]]
  BY CacheIs DEF Put
<1>4. c.sets \in [SetsOf(g) -> Rows(g)]  BY DEF Caches
<1>5. \A r \in SetsOf(g), x \in WaysOf(g.assoc) :
        d.sets[r].blks[x] = IF r = s /\ x = w THEN blk ELSE c.sets[r].blks[x]
  <2>. SUFFICES ASSUME NEW r \in SetsOf(g), NEW x \in WaysOf(g.assoc)
                PROVE  d.sets[r].blks[x] = IF r = s /\ x = w THEN blk ELSE c.sets[r].blks[x]
    OBVIOUS
  <2>1. c.sets[s].blks \in [WaysOf(g.assoc) -> Blocks]  BY <1>1, CacheIs
  <2>2. row.blks[x] = IF x = w THEN blk ELSE c.sets[s].blks[x]  BY <2>1
  <2>3. d.sets[r] = IF r = s THEN row ELSE c.sets[r]
    <3>. HIDE DEF row
    <3>. QED  BY <1>3, <1>4
  <2>. HIDE DEF row
  <2>. QED  BY <2>2, <2>3
<1>. HIDE DEF row
<1>6. d \in [geometry : {g}, bus_free : Nat, sets : [SetsOf(g) -> Rows(g)]]
  BY <1>1, <1>2, <1>3, <1>4
<1>7. Homed(d, g)
  BY <1>5, CacheIs DEF Homed
<1>8. Distinct(d, g)
  <2>1. Distinct(c, g)  BY CacheIs
  <2>. SUFFICES ASSUME NEW r \in SetsOf(g), NEW x \in WaysOf(g.assoc), NEW y \in WaysOf(g.assoc),
                       Same(d.sets[r].blks[x], d.sets[r].blks[y])
                PROVE  x = y
    BY DEF Distinct
  <2>2. CASE r # s  BY <1>5, <2>1, <2>2 DEF Distinct
  <2>3. CASE r = s /\ x # w /\ y # w  BY <1>5, <2>1, <2>3, SMTT(30) DEF Distinct
  <2>4. CASE r = s /\ x = w  BY <1>1, <1>5, <2>4, SMTT(30) DEF Same
  <2>5. CASE r = s /\ y = w  BY <1>1, <1>5, <2>5, SMTT(30) DEF Same
  <2>. QED  BY <2>2, <2>3, <2>4, <2>5
<1>9. d \in Caches(g)  BY <1>6, <1>7, <1>8 DEF Caches
<1>10. Valid(d) = (Valid(c) \ {old}) \cup {blk}
  <2>1. ASSUME NEW x \in Valid(d) PROVE x \in (Valid(c) \ {old}) \cup {blk}
    <3>1. PICK r \in SetsOf(g), y \in WaysOf(g.assoc) : x = d.sets[r].blks[y] /\ x.valid
      BY <1>9, <2>1, ValidIs
    <3>2. CASE r = s /\ y = w  BY <1>5, <3>1, <3>2
    <3>3. CASE ~(r = s /\ y = w)
      <4>1. x = c.sets[r].blks[y]  BY <1>5, <3>1, <3>3
      <4>2. x \in Valid(c)  BY <3>1, <4>1, ValidIs
      <4>3. x # old
        <5>1. x = old => Same(c.sets[r].blks[y], c.sets[s].blks[w])  BY <3>1, <4>1 DEF Same
        <5>. QED  BY <1>1, <3>3, <5>1, OnePlace
      <4>. QED  BY <4>2, <4>3
    <3>. QED  BY <3>2, <3>3
  <2>2. ASSUME NEW x \in Valid(c), x # old PROVE x \in Valid(d)
    <3>1. PICK r \in SetsOf(g), y \in WaysOf(g.assoc) : x = c.sets[r].blks[y] /\ x.valid
      BY <2>2, ValidIs
    <3>2. x = d.sets[r].blks[y]  BY <1>5, <2>2, <3>1, SMTT(30)
    <3>. QED  BY <1>9, <3>1, <3>2, ValidIs
  <2>3. blk \in Valid(d)
    <3>1. blk = d.sets[s].blks[w]  BY <1>1, <1>5
    <3>. QED  BY <1>1, <1>9, <3>1, ValidIs
  <2>. QED  BY <2>1, <2>2, <2>3
<1>. QED  BY <1>1, <1>9, <1>10

(* What an access by context t for block b leaves in a cache: new has taken*)
(* the place of old, which was that block already or the last of its set.  *)
Served(c, d, cmd, b, t, by, old, new) ==
  /\ old \in Blocks /\ (old.valid => old \in Valid(c)) /\ new \in Blocks
  /\ Matches(new, b, t) /\ (cmd = "Write" => new.dirty) /\ new.ready <= by
  /\ Valid(d) = (Valid(c) \ {old}) \cup {new} /\ \A x \in Valid(d) : Matches(x, b, t) => x = new
  /\ \/ Matches(old, b, t) /\ new.ready = old.ready /\ (old.dirty => new.dirty)
     \/ (\A x \in Valid(c) : ~Matches(x, b, t)) /\ new.ready = by

LEMMA HitIs ==
  ASSUME NEW g \in Shapes, NEW c \in Caches(g), NEW cmd \in {"Read", "Write"},
         NEW b \in Nat, NEW t \in Nat, NEW at \in Nat, NEW lower,
         NEW w \in Hits(c, b, t), NEW r, r = Hit(c, cmd, b, w, at, lower)
  PROVE  /\ r.cache \in Caches(g) /\ r.lower = lower /\ r.lat \in Nat
         /\ \E old, new : /\ Served(c, r.cache, cmd, b, t, at + r.lat, old, new)
                         /\ Matches(old, b, t)
<1>0. PICK old, new : old = c.sets[Home(b, g)].blks[w] /\ new = HitBlock(old, cmd)  OBVIOUS
<1>. DEFINE s == Home(b, g)
            links == IF g.policy = "LRU" THEN UpdateWayList(c.sets[s].links, w, "Head")
                     ELSE c.sets[s].links
<1>1. s \in SetsOf(g) /\ CACHE_SET(c, b) = s /\ old = c.sets[s].blks[w]
  BY <1>0, HomeIs
<1>2. w \in WaysOf(g.assoc) /\ Matches(old, b, t)
  <2>1. DOMAIN c.sets[s].blks = WaysOf(g.assoc)  BY <1>1, CacheIs
  <2>. HIDE DEF s
  <2>. QED  BY <1>1, <2>1 DEF Hits
<1>. HIDE DEF s
<1>3. old \in Blocks /\ old \in Valid(c)
  <2>1. old \in Blocks  BY <1>1, <1>2, CacheIs
  <2>2. old.valid  BY <1>2, SMTT(30) DEF Matches
  <2>. QED  BY <1>1, <1>2, <2>1, <2>2, ValidIs
<1>4. /\ new \in Blocks /\ new.valid /\ new.addr = b /\ new.context_id = t
      /\ new.ready = old.ready /\ (cmd = "Write" => new.dirty) /\ (old.dirty => new.dirty)
  BY <1>0, <1>2, <1>3 DEF HitBlock, Blocks, Matches
<1>5. links \in Lists(g.assoc)
  <2>1. c.sets[s].links \in Lists(g.assoc) /\ g.assoc \in Nat \ {0}  BY <1>1, CacheIs
  <2>. QED  BY <1>2, <2>1, ListsAreOrders
<1>6. r.cache = Put(c, s, w, new, links, c.bus_free)
  <2>1. /\ c.sets[s] = [links |-> c.sets[s].links, blks |-> c.sets[s].blks]
        /\ c.sets[s].blks \in [WaysOf(g.assoc) -> Blocks]
        /\ c.sets \in [SetsOf(g) -> Rows(g)]
    <3>1. c.sets \in [SetsOf(g) -> Rows(g)]  BY DEF Caches
    <3>2. c.sets[s] \in Rows(g)  BY <1>1, <3>1
    <3>. QED  BY <3>1, <3>2 DEF Rows
  <2>2. c = [geometry |-> c.geometry, bus_free |-> c.bus_free, sets |-> c.sets]  BY DEF Caches
  <2>. DEFINE nb == [c.sets[s].blks EXCEPT ![w] = new]
              r1 == [links |-> c.sets[s].links, blks |-> nb]
              r2 == [links |-> links, blks |-> nb]
              s1 == [c.sets EXCEPT ![s] = r1]
              s2 == [c.sets EXCEPT ![s] = r2]
              c1 == [geometry |-> c.geometry, bus_free |-> c.bus_free, sets |-> s1]
              c2 == [geometry |-> c.geometry, bus_free |-> c.bus_free, sets |-> s2]
  <2>5. [c EXCEPT !.sets[s].blks[w] = new] = c1
    <3>1. [c EXCEPT !.sets[s].blks[w] = new]
          = [c EXCEPT !.sets = [c.sets EXCEPT ![s].blks[w] = new]]
      BY <2>1
    <3>2. [c.sets EXCEPT ![s].blks[w] = new] = s1
      <4>1. [c.sets[s] EXCEPT !.blks[w] = new] = r1  BY <2>1
      <4>. QED  BY <4>1
    <3>3. [c EXCEPT !.sets = s1] = c1
      <4>. HIDE DEF s1
      <4>. QED  BY <2>2
    <3>. HIDE DEF s1, c1
    <3>. QED  BY <3>1, <3>2, <3>3
  <2>6. [c1 EXCEPT !.sets[s].links = links] = c2
    <3>1. [c1 EXCEPT !.sets[s].links = links]
          = [c1 EXCEPT !.sets = [s1 EXCEPT ![s].links = links]]
      BY <2>1
    <3>2. [s1 EXCEPT ![s].links = links] = [s1 EXCEPT ![s] = r2]
      <4>1. s1[s] = r1  BY <1>1, <2>1
      <4>2. [r1 EXCEPT !.links = links] = r2  BY <2>1
      <4>. HIDE DEF s1, r1, r2
      <4>. QED  BY <4>1, <4>2
    <3>3. [s1 EXCEPT ![s] = r2] = s2
      <4>. HIDE DEF r1, r2
      <4>. QED  BY <2>1
    <3>. HIDE DEF s1, s2
    <3>. QED  BY <3>1, <3>2, <3>3
  <2>7. [c EXCEPT !.sets[s].blks[w] = new, !.sets[s].links = links]
          = [[c EXCEPT !.sets[s].blks[w] = new] EXCEPT !.sets[s].links = links]
    BY <2>1
  <2>8. c2 = Put(c, s, w, new, links, c.bus_free)  BY DEF Put
  <2>9. r.cache = [c EXCEPT !.sets[s].blks[w] = HitBlock(@, cmd),
                            !.sets[s].links = IF g.policy = "LRU"
                                              THEN UpdateWayList(@, w, "Head") ELSE @]
    <3>1. c.geometry = g  BY CacheIs
    <3>. QED  BY <1>1, <3>1 DEF Hit
  <2>10. r.cache = [c EXCEPT !.sets[s].blks[w] = new, !.sets[s].links = links]
    <3>1. c \in [geometry : {g}, bus_free : Nat, sets : [SetsOf(g) -> Rows(g)]]  BY DEF Caches
    <3>. QED  BY <1>0, <1>1, <1>2, <2>1, <2>9, <3>1 DEF Rows
  <2>. HIDE DEF c1, c2
  <2>. QED  BY <2>5, <2>6, <2>7, <2>8, <2>10
<1>7. r.lower = lower /\ r.lat = Larger(g.hit_latency, old.ready - at)
  BY <1>1, CacheIs DEF Hit
<1>8. r.lat \in Nat /\ old.ready <= at + r.lat
  <2>1. g.hit_latency \in Nat /\ old.ready \in Nat  BY <1>3, CacheIs DEF Blocks
  <2>. QED  BY <1>7, <2>1 DEF Larger
<1>9. /\ Put(c, s, w, new, links, c.bus_free) \in Caches(g)
      /\ Valid(Put(c, s, w, new, links, c.bus_free)) = (Valid(c) \ {old}) \cup {new}
  <2>1. \A x \in WaysOf(g.assoc) : Same(c.sets[s].blks[x], new) => x = w
    <3>. SUFFICES ASSUME NEW x \in WaysOf(g.assoc), Same(c.sets[s].blks[x], new)
                  PROVE  x = w
      OBVIOUS
    <3>1. Same(c.sets[s].blks[x], old)  BY <1>2, <1>4 DEF Same, Matches
    <3>. QED  BY <1>1, <1>2, <3>1, OnePlace
  <2>2. c.bus_free \in Nat  BY CacheIs
  <2>3. s = Home(b, g)  BY SMTT(30) DEF s
  <2>. HIDE DEF links
  <2>. QED  BY <1>1, <1>2, <1>4, <1>5, <2>1, <2>2, <2>3, PutKeeps
<1>. QED
  <2>. HIDE DEF links
  <2>1. r.cache \in Caches(g) /\ Valid(r.cache) = (Valid(c) \ {old}) \cup {new}  BY <1>6, <1>9
  <2>2. \A x \in Valid(r.cache) : Matches(x, b, t) => x = new
    <3>1. new \in Valid(r.cache)  BY <2>1
    <3>. QED  BY <2>1, <3>1, <1>4, OneBlock DEF Same, Matches
  <2>3. Served(c, r.cache, cmd, b, t, at + r.lat, old, new)
    BY <2>1, <2>2, <1>2, <1>3, <1>4, <1>8 DEF Served, Matches
  <2>. QED  BY <2>1, <2>3, <1>2, <1>7, <1>8

LEMMA ReplacementIs ==
  ASSUME NEW g \in Shapes, NEW c \in Caches(g), NEW b \in Nat, NEW at \in Nat,
         NEW r, r = Replacement(c, b, at)
  PROVE  /\ r.set = Home(b, g) /\ r.set \in SetsOf(g) /\ r.way \in WaysOf(g.assoc)
         /\ r.blk = c.sets[r.set].blks[r.way] /\ r.blk \in Blocks
         /\ r.wb <=> (r.blk.valid /\ r.blk.dirty)
         /\ r.lat \in Nat /\ r.bus \in Nat /\ r.wait \in Nat
<1>. DEFINE s == Home(b, g)
            w == c.sets[s].links.tail
            old == c.sets[s].blks[w]
            wb == old.valid /\ old.dirty
            lat == Larger(IF old.valid THEN VictimReady(old, at) ELSE 0,
                          IF wb THEN c.bus_free - at ELSE 0)
            bus == IF wb THEN 1 + Larger(c.bus_free, at + lat) ELSE c.bus_free
            wait == Larger(VictimReady(old, at), bus - at)
<1>1. s \in SetsOf(g) /\ CACHE_SET(c, b) = s
  BY HomeIs
<1>2. r = [set |-> s, way |-> w, blk |-> old, wb |-> wb, lat |-> lat, bus |-> bus, wait |-> wait]
  BY <1>1 DEF Replacement
<1>. HIDE DEF s
<1>3. w \in WaysOf(g.assoc) /\ old \in Blocks /\ c.bus_free \in Nat
  <2>1. c.sets[s].links \in Lists(g.assoc) /\ g.assoc \in Nat \ {0}  BY <1>1, CacheIs
  <2>2. w \in WaysOf(g.assoc)  BY <2>1, ListsAreOrders
  <2>. QED  BY <1>1, <2>2, CacheIs
<1>4. lat \in Nat /\ bus \in Nat /\ wait \in Nat
  <2>1. old.ready \in Nat  BY <1>3 DEF Blocks
  <2>. HIDE DEF old
  <2>2. VictimReady(old, at) \in Nat  BY <2>1 DEF VictimReady, Larger
  <2>. HIDE DEF wb
  <2>3. lat \in Nat  BY <1>3, <2>2 DEF Larger
  <2>. HIDE DEF lat
  <2>4. bus \in Nat  BY <1>3, <2>3 DEF Larger
  <2>. HIDE DEF bus
  <2>. QED  BY <2>2, <2>3, <2>4 DEF Larger
<1>. HIDE DEF w, old, wb, lat, bus, wait
<1>5. /\ r.set = s /\ r.way = w /\ r.blk = old /\ r.wb = wb
      /\ r.lat = lat /\ r.bus = bus /\ r.wait = wait
  BY <1>2
<1>. QED  BY <1>1, <1>3, <1>4, <1>5 DEF s, w, old, wb

LEMMA ReplacedIs ==
  ASSUME NEW g \in Shapes, NEW c \in Caches(g), NEW cmd \in {"Read", "Write"},
         NEW b \in Nat, NEW t \in Nat, NEW at \in Nat, NEW lat \in Nat, Hits(c, b, t) = {},
         NEW r, r = Replacement(c, b, at),
         NEW d, d = Replaced(c, r, cmd, b, t, at, lat)
  PROVE  /\ d \in Caches(g) /\ \A x \in Valid(c) : ~Matches(x, b, t)
         /\ \E new : Served(c, d, cmd, b, t, at + lat, r.blk, new)
<1>0. PICK new : new = Filled(r.blk, cmd, b, t, at + lat)  OBVIOUS
<1>1. PICK s \in SetsOf(g), w \in WaysOf(g.assoc) :
        /\ r.set = s /\ r.way = w /\ s = Home(b, g) /\ r.blk = c.sets[s].blks[w] /\ r.blk \in Blocks
        /\ r.bus \in Nat /\ r.wait \in Nat
  BY ReplacementIs
<1>. DEFINE links == UpdateWayList(c.sets[s].links, w, "Head")
            bus == 1 + Larger(r.bus, at + r.wait)
<1>2. /\ new \in Blocks /\ new.valid /\ new.addr = b /\ new.context_id = t
      /\ new.ready = at + lat /\ (cmd = "Write" => new.dirty)
  <2>1. Filled(r.blk, cmd, b, t, at + lat) \in Blocks  BY DEF Filled, Blocks
  <2>2. new = [addr |-> b, context_id |-> t, valid |-> TRUE, dirty |-> cmd = "Write",
               ready |-> at + lat]
    BY <1>0 DEF Filled
  <2>3. new \in Blocks  BY <1>0, <2>1
  <2>4. new.valid /\ (cmd = "Write" => new.dirty)  BY <2>2
  <2>5. new.addr = b /\ new.context_id = t /\ new.ready = at + lat  BY <2>2
  <2>. QED  BY <2>3, <2>4, <2>5
<1>3. links \in Lists(g.assoc)
  <2>1. c.sets[s].links \in Lists(g.assoc) /\ g.assoc \in Nat \ {0}  BY <1>1, CacheIs
  <2>. QED  BY <1>1, <2>1, ListsAreOrders
<1>4. bus \in Nat  BY <1>1 DEF Larger
<1>5. d = Put(c, s, w, new, links, bus)
  <2>1. /\ c.sets[s] = [links |-> c.sets[s].links, blks |-> c.sets[s].blks]
        /\ c.sets[s].blks \in [WaysOf(g.assoc) -> Blocks]
        /\ c.sets \in [SetsOf(g) -> Rows(g)]
    <3>1. c.sets \in [SetsOf(g) -> Rows(g)]  BY DEF Caches
    <3>2. c.sets[s] \in Rows(g)  BY <3>1
    <3>. QED  BY <3>1, <3>2 DEF Rows
  <2>2. c = [geometry |-> c.geometry, bus_free |-> c.bus_free, sets |-> c.sets]  BY DEF Caches
  <2>. DEFINE nb == [c.sets[s].blks EXCEPT ![w] = new]
              r1 == [links |-> links, blks |-> c.sets[s].blks]
              r2 == [links |-> links, blks |-> nb]
              s1 == [c.sets EXCEPT ![s] = r1]
              s2 == [c.sets EXCEPT ![s] = r2]
              c0 == [geometry |-> c.geometry, bus_free |-> bus, sets |-> c.sets]
              c1 == [geometry |-> c.geometry, bus_free |-> bus, sets |-> s1]
              c2 == [geometry |-> c.geometry, bus_free |-> bus, sets |-> s2]
  <2>4. [c EXCEPT !.bus_free = bus] = c0
    BY <2>2
  <2>5. [c0 EXCEPT !.sets[s].links = links] = c1
    <3>1. [c0 EXCEPT !.sets[s].links = links]
          = [c0 EXCEPT !.sets = [c.sets EXCEPT ![s].links = links]]
      BY <2>1
    <3>2. [c.sets EXCEPT ![s].links = links] = s1
      <4>1. [c.sets[s] EXCEPT !.links = links] = r1  BY <2>1
      <4>. QED  BY <4>1
    <3>3. [c0 EXCEPT !.sets = s1] = c1
      <4>. HIDE DEF s1
      <4>. QED  BY <2>1
    <3>. HIDE DEF s1, c1, c0
    <3>. QED  BY <3>1, <3>2, <3>3
  <2>6. [c1 EXCEPT !.sets[s].blks[w] = new] = c2
    <3>1. [c1 EXCEPT !.sets[s].blks[w] = new]
          = [c1 EXCEPT !.sets = [s1 EXCEPT ![s].blks[w] = new]]
      BY <2>1
    <3>2. [s1 EXCEPT ![s].blks[w] = new] = [s1 EXCEPT ![s] = r2]
      <4>1. s1[s] = r1  BY <2>1
      <4>2. [r1 EXCEPT !.blks[w] = new] = r2  BY <2>1
      <4>. HIDE DEF s1, r1, r2
      <4>. QED  BY <4>1, <4>2
    <3>3. [s1 EXCEPT ![s] = r2] = s2
      <4>. HIDE DEF r1, r2
      <4>. QED  BY <2>1
    <3>4. [c1 EXCEPT !.sets = s2] = c2
      <4>. HIDE DEF s1, s2
      <4>. QED  BY <2>1
    <3>. HIDE DEF s1, s2, c1, c2, r2
    <3>. QED  BY <3>1, <3>2, <3>3, <3>4
  <2>7. [c EXCEPT !.bus_free = bus, !.sets[s].links = links, !.sets[s].blks[w] = new]
          = [[[c EXCEPT !.bus_free = bus] EXCEPT !.sets[s].links = links]
                EXCEPT !.sets[s].blks[w] = new]
    BY <2>1
  <2>8. c2 = Put(c, s, w, new, links, bus)  BY DEF Put
  <2>9. d = [c EXCEPT !.bus_free = bus, !.sets[s].links = UpdateWayList(@, w, "Head"),
                      !.sets[s].blks[w] = new]
    BY <1>0, <1>1 DEF Replaced
  <2>10. d = [c EXCEPT !.bus_free = bus, !.sets[s].links = links, !.sets[s].blks[w] = new]
    <3>1. c \in [geometry : {g}, bus_free : Nat, sets : [SetsOf(g) -> Rows(g)]]  BY DEF Caches
    <3>. QED  BY <1>1, <2>1, <2>9, <3>1 DEF Rows
  <2>. HIDE DEF c0, c1, c2
  <2>. QED  BY <2>4, <2>5, <2>6, <2>7, <2>8, <2>10
<1>6. \A x \in WaysOf(g.assoc) : ~Matches(c.sets[s].blks[x], b, t)
  <2>1. s \in SetsOf(g) /\ CACHE_SET(c, b) = s  BY <1>1, HomeIs
  <2>2. DOMAIN c.sets[s].blks = WaysOf(g.assoc)  BY <2>1, CacheIs
  <2>. QED  BY <2>1, <2>2 DEF Hits
<1>7. \A x \in Valid(c) : ~Matches(x, b, t)
  <2>. SUFFICES ASSUME NEW x \in Valid(c), Matches(x, b, t) PROVE FALSE  OBVIOUS
  <2>1. PICK q \in SetsOf(g), y \in WaysOf(g.assoc) : x = c.sets[q].blks[y] /\ x.valid
    BY ValidIs
  <2>2. q = s
    <3>1. q = Home(x.addr, g)
      <4>1. Homed(c, g)  BY CacheIs
      <4>. QED  BY <2>1, <4>1 DEF Homed
    <3>. QED  BY <1>1, <3>1 DEF Matches
  <2>. QED  BY <1>6, <2>1, <2>2
<1>8. /\ Put(c, s, w, new, links, bus) \in Caches(g)
      /\ Valid(Put(c, s, w, new, links, bus)) = (Valid(c) \ {r.blk}) \cup {new}
  <2>1. \A x \in WaysOf(g.assoc) : Same(c.sets[s].blks[x], new) => x = w
    BY <1>2, <1>6 DEF Same, Matches
  <2>. HIDE DEF links, bus
  <2>. QED  BY <1>1, <1>2, <1>3, <1>4, <2>1, PutKeeps
<1>. HIDE DEF links, bus
<1>9. d \in Caches(g) /\ Valid(d) = (Valid(c) \ {r.blk}) \cup {new}  BY <1>1, <1>5, <1>8
<1>10. r.blk.valid => r.blk \in Valid(c)  BY <1>1, ValidIs
<1>11. \A x \in Valid(d) : Matches(x, b, t) => x = new
  <2>1. new \in Valid(d)  BY <1>9
  <2>. QED  BY <1>2, <1>9, <2>1, OneBlock DEF Same, Matches
<1>12. Served(c, d, cmd, b, t, at + lat, r.blk, new)
  BY <1>1, <1>2, <1>7, <1>9, <1>10, <1>11 DEF Served, Matches
<1>. QED  BY <1>7, <1>9, <1>12

(* An access to the second level, and what it takes from m, which is newer *)
(* above main memory: nothing, or the dirty block it throws out.           *)
Dl2Access(c, cmd, b, t, at, m) == CacheAccess(c, cmd, b, t, at, m, Dl2Below)

WrittenBack(m, n, t, b, old) ==
  n \subseteq m /\ (old.valid /\ old.dirty /\ ~Matches(old, b, t) => <<t, old.addr>> \notin n)

LEMMA Dl2AccessIs ==
  ASSUME NEW g \in Shapes, NEW c \in Caches(g), NEW cmd \in {"Read", "Write"},
         NEW b \in Nat, NEW t \in Nat, NEW at \in Nat, NEW m,
         NEW r, r = Dl2Access(c, cmd, b, t, at, m)
  PROVE  /\ r.cache \in Caches(g) /\ r.lat \in Nat
         /\ \E old, new : /\ Served(c, r.cache, cmd, b, t, at + r.lat, old, new)
                         /\ WrittenBack(m, r.lower, t, b, old)
<1>1. CASE Hits(c, b, t) # {}
  <2>1. PICK w \in Hits(c, b, t) : r = Hit(c, cmd, b, w, at, m)
    <3>. DEFINE w == CHOOSE w \in Hits(c, b, t) : TRUE
    <3>1. r = Hit(c, cmd, b, w, at, m)  BY <1>1 DEF CacheAccess, Dl2Access
    <3>2. w \in Hits(c, b, t)  BY <1>1
    <3>. QED  BY <3>1, <3>2
  <2>2. /\ r.cache \in Caches(g) /\ r.lower = m /\ r.lat \in Nat
        /\ \E old, new : /\ Served(c, r.cache, cmd, b, t, at + r.lat, old, new)
                        /\ Matches(old, b, t)
    BY <2>1, HitIs
  <2>. QED  BY <2>2 DEF WrittenBack
<1>2. CASE Hits(c, b, t) = {}
  <2>1. PICK q : q = Replacement(c, b, at)  OBVIOUS
  <2>. DEFINE lat == MissLatency(q.lat + 0, q.wait, MemLat)
              low == IF q.wb THEN m \ {<<t, q.blk.addr>>} ELSE m
              d == Replaced(c, q, cmd, b, t, at, lat)
  <2>2. r.cache = d /\ r.lower = low /\ r.lat = lat
    <3>1. r = [cache |-> d, lower |-> low, lat |-> lat]
      <4>1. CASE q.wb  BY <1>2, <2>1, <4>1 DEF Dl2Access, CacheAccess, Miss, Dl2Below
      <4>2. CASE ~q.wb  BY <1>2, <2>1, <4>2 DEF Dl2Access, CacheAccess, Miss, Dl2Below
      <4>. QED  BY <4>1, <4>2
    <3>. HIDE DEF d, low, lat
    <3>. QED  BY <3>1
  <2>3. /\ q.blk \in Blocks /\ (q.wb <=> q.blk.valid /\ q.blk.dirty)
        /\ q.lat \in Nat /\ q.wait \in Nat
    BY <2>1, ReplacementIs
  <2>4. lat \in Nat  BY <2>3, HierarchyAssumption DEF MissLatency, Larger
  <2>. HIDE DEF lat
  <2>5. d \in Caches(g) /\ \E new : Served(c, d, cmd, b, t, at + lat, q.blk, new)
    <3>1. d = Replaced(c, q, cmd, b, t, at, lat)  OBVIOUS
    <3>. HIDE DEF d
    <3>. QED  BY <1>2, <2>1, <2>4, <3>1, ReplacedIs, ZenonT(60)
  <2>6. WrittenBack(m, low, t, b, q.blk)  BY <2>3 DEF WrittenBack
  <2>. HIDE DEF d, low
  <2>. QED  BY <2>2, <2>4, <2>5, <2>6
<1>. QED  BY <1>1, <1>2

Dl2Served(c, d, m, n, cmd, b, t, by) ==
  \E old, new : Served(c, d, cmd, b, t, by, old, new) /\ WrittenBack(m, n, t, b, old)

(* An access to both levels: it hits, or the dirty victim, old, goes down  *)
(* and the block then comes up by the time it is there.                    *)
HitAbove(c1, d1, c2, d2, m, n, cmd, b, t, by) ==
  /\ d2 = c2 /\ n = m
  /\ \E old, new : Served(c1, d1, cmd, b, t, by, old, new) /\ Matches(old, b, t)

MissAbove(c1, d1, c2, d2, m, n, cmd, b, t, by) ==
  \E old, new, c3, m3 :
    /\ Served(c1, d1, cmd, b, t, by, old, new) /\ \A x \in Valid(c1) : ~Matches(x, b, t)
    /\ IF old.valid /\ old.dirty
       THEN \E at \in Nat : Dl2Served(c2, c3, m, m3, "Write", old.addr, t, at)
       ELSE c3 = c2 /\ m3 = m
    /\ \E at \in Nat : at <= by /\ Dl2Served(c3, d2, m3, n, "Read", b, t, at)

DataAccess(c1, cmd, b, t, c2, m) ==
  CacheAccess(c1, cmd, b, t, 0, [dl2 |-> c2, memory |-> m], Dl1Below)

LEMMA Dl1AccessIs ==
  ASSUME NEW g1 \in Shapes, NEW c1 \in Caches(g1), NEW g2 \in Shapes, NEW c2 \in Caches(g2),
         NEW cmd \in {"Read", "Write"}, NEW b \in Nat, NEW t \in Nat, NEW m,
         NEW r, r = DataAccess(c1, cmd, b, t, c2, m)
  PROVE  /\ r.cache \in Caches(g1) /\ r.lower.dl2 \in Caches(g2) /\ r.lat \in Nat
         /\ \/ HitAbove(c1, r.cache, c2, r.lower.dl2, m, r.lower.memory, cmd, b, t, r.lat)
            \/ MissAbove(c1, r.cache, c2, r.lower.dl2, m, r.lower.memory, cmd, b, t, r.lat)
<1>. DEFINE low == [dl2 |-> c2, memory |-> m]
<1>1. CASE Hits(c1, b, t) # {}
  <2>1. PICK w \in Hits(c1, b, t) : r = Hit(c1, cmd, b, w, 0, low)
    <3>. DEFINE w == CHOOSE w \in Hits(c1, b, t) : TRUE
    <3>1. r = Hit(c1, cmd, b, w, 0, low)  BY <1>1 DEF CacheAccess, DataAccess
    <3>2. w \in Hits(c1, b, t)  BY <1>1
    <3>. QED  BY <3>1, <3>2
  <2>2. low.dl2 = c2 /\ low.memory = m  OBVIOUS
  <2>. HIDE DEF low
  <2>3. /\ r.cache \in Caches(g1) /\ r.lower = low /\ r.lat \in Nat
        /\ \E old, new : /\ Served(c1, r.cache, cmd, b, t, 0 + r.lat, old, new)
                         /\ Matches(old, b, t)
    BY <2>1, HitIs
  <2>4. 0 + r.lat = r.lat  BY <2>3
  <2>. QED  BY <2>2, <2>3, <2>4 DEF HitAbove
<1>2. CASE Hits(c1, b, t) = {}
  <2>1. PICK q : q = Replacement(c1, b, 0)  OBVIOUS
  <2>2. /\ q.blk \in Blocks /\ (q.wb <=> q.blk.valid /\ q.blk.dirty)
        /\ q.lat \in Nat /\ q.wait \in Nat
    BY <2>1, ReplacementIs
  <2>3. PICK down : down = Dl2Access(c2, "Write", q.blk.addr, t, 0 + q.lat, m)  OBVIOUS
  <2>4. PICK c3, m3 : /\ q.wb => c3 = down.cache /\ m3 = down.lower
                      /\ ~q.wb => c3 = c2 /\ m3 = m
    BY <2>2
  <2>5. PICK up : up = Dl2Access(c3, "Read", b, t, 0 + q.wait, m3)  OBVIOUS
  <2>. DEFINE lat == MissLatency(q.lat + 0, q.wait, up.lat)
              d == Replaced(c1, q, cmd, b, t, 0, lat)
  <2>6. r.cache = d /\ r.lower.dl2 = up.cache /\ r.lower.memory = up.lower /\ r.lat = lat
    <3>1. r = [cache |-> d, lower |-> [dl2 |-> up.cache, memory |-> up.lower], lat |-> lat]
      <4>1. ASSUME NEW low1, NEW b1, NEW at1
            PROVE  LET r1 == Dl2Access(low1.dl2, "Write", b1, t, at1, low1.memory)
                   IN  /\ Dl1Below(low1, "Write", b1, t, at1).lower
                             = [dl2 |-> r1.cache, memory |-> r1.lower]
                       /\ Dl1Below(low1, "Write", b1, t, at1).lat = 0
        BY DEF Dl1Below, Dl2Access
      <4>2. ASSUME NEW low1, NEW b1, NEW at1
            PROVE  LET r1 == Dl2Access(low1.dl2, "Read", b1, t, at1, low1.memory)
                   IN  /\ Dl1Below(low1, "Read", b1, t, at1).lower
                             = [dl2 |-> r1.cache, memory |-> r1.lower]
                       /\ Dl1Below(low1, "Read", b1, t, at1).lat = r1.lat
        BY DEF Dl1Below, Dl2Access
      <4>. DEFINE dn == IF q.wb THEN Dl1Below(low, "Write", q.blk.addr, t, 0 + q.lat)
                        ELSE [lower |-> low, lat |-> 0]
                  u == Dl1Below(dn.lower, "Read", b, t, 0 + q.wait)
                  l == MissLatency(q.lat + dn.lat, q.wait, u.lat)
      <4>3. r = [cache |-> Replaced(c1, q, cmd, b, t, 0, l), lower |-> u.lower, lat |-> l]
        BY <1>2, <2>1 DEF DataAccess, CacheAccess, Miss
      <4>4. dn.lower = [dl2 |-> c3, memory |-> m3] /\ dn.lat = 0
        <5>1. CASE q.wb
          <6>1. /\ dn.lower = [dl2 |-> down.cache, memory |-> down.lower]
                /\ dn.lat = 0
            BY <2>3, <4>1, <5>1
          <6>. QED  BY <2>4, <5>1, <6>1
        <5>2. CASE ~q.wb  BY <2>4, <5>2
        <5>. QED  BY <5>1, <5>2
      <4>. HIDE DEF dn
      <4>5. u.lower = [dl2 |-> up.cache, memory |-> up.lower] /\ u.lat = up.lat
        <5>1. dn.lower.dl2 = c3 /\ dn.lower.memory = m3  BY <4>4
        <5>. QED  BY <2>5, <4>2, <5>1
      <4>. HIDE DEF u
      <4>6. l = lat  BY <4>4, <4>5
      <4>. HIDE DEF l, lat
      <4>. QED  BY <4>3, <4>5, <4>6
    <3>. HIDE DEF d, lat
    <3>. QED  BY <3>1
  <2>7. /\ c3 \in Caches(g2)
        /\ IF q.blk.valid /\ q.blk.dirty
           THEN \E at \in Nat : Dl2Served(c2, c3, m, m3, "Write", q.blk.addr, t, at)
           ELSE c3 = c2 /\ m3 = m
    <3>1. CASE q.wb
      <4>1. q.blk.addr \in Nat /\ 0 + q.lat \in Nat  BY <2>2 DEF Blocks
      <4>2. /\ down.cache \in Caches(g2) /\ down.lat \in Nat
            /\ Dl2Served(c2, down.cache, m, down.lower, "Write", q.blk.addr, t,
                         0 + q.lat + down.lat)
        BY <2>3, <4>1, Dl2AccessIs, ZenonT(60) DEF Dl2Served
      <4>3. 0 + q.lat + down.lat \in Nat  BY <4>1, <4>2
      <4>. QED  BY <2>2, <2>4, <3>1, <4>2, <4>3
    <3>2. CASE ~q.wb  BY <2>2, <2>4, <3>2
    <3>. QED  BY <3>1, <3>2
  <2>8. /\ up.cache \in Caches(g2) /\ up.lat \in Nat
        /\ Dl2Served(c3, up.cache, m3, up.lower, "Read", b, t, 0 + q.wait + up.lat)
    <3>1. 0 + q.wait \in Nat  BY <2>2
    <3>. QED  BY <2>5, <2>7, <3>1, Dl2AccessIs, SMTT(30) DEF Dl2Served
  <2>9. lat \in Nat /\ 0 + q.wait + up.lat <= lat /\ 0 + q.wait + up.lat \in Nat
    BY <2>2, <2>8 DEF MissLatency, Larger
  <2>. HIDE DEF lat
  <2>10. /\ d \in Caches(g1) /\ \A x \in Valid(c1) : ~Matches(x, b, t)
         /\ \E new : Served(c1, d, cmd, b, t, 0 + lat, q.blk, new)
    <3>1. d = Replaced(c1, q, cmd, b, t, 0, lat)  OBVIOUS
    <3>. HIDE DEF d
    <3>. QED  BY <1>2, <2>1, <2>9, <3>1, ReplacedIs, ZenonT(60)
  <2>11. 0 + lat = lat  BY <2>9
  <2>. HIDE DEF d
  <2>12. MissAbove(c1, d, c2, up.cache, m, up.lower, cmd, b, t, lat)
    BY <2>7, <2>8, <2>9, <2>10, <2>11 DEF MissAbove
  <2>. QED  BY <2>6, <2>8, <2>9, <2>10, <2>12
<1>. QED  BY <1>1, <1>2

-----------------------------------------------------------------------------
(***************************************************************************)
(* Two levels that context t has to itself, as the sets H and L of their   *)
(* valid blocks, above a memory that m is newer than.                      *)
(***************************************************************************)
OneMemory(t, H, L, m) ==
  /\ \A x \in H \cup L : x.context_id = t
  /\ \A x \in m : \E y \in H \cup L : x = <<t, y.addr>> /\ y.dirty
  /\ \A hi \in H, lo \in L : hi.addr = lo.addr => hi.ready >= lo.ready

(* The second level serves a block that is not above it, and what is       *)
(* written to it may be on its way.                                        *)
LEMMA BelowServes ==
  ASSUME NEW H, NEW c, NEW d, NEW m, NEW n, NEW cmd, NEW b, NEW t, NEW by,
         Dl2Served(c, d, m, n, cmd, b, t, by),
         \A x \in H \cup Valid(c) : x.context_id = t,
         \A x \in m : \/ cmd = "Write" /\ x = <<t, b>>
                      \/ \E y \in H \cup Valid(c) : x = <<t, y.addr>> /\ y.dirty,
         \A hi \in H, lo \in Valid(c) : hi.addr = lo.addr => hi.ready >= lo.ready,
         \A x \in H : x.addr # b
  PROVE  OneMemory(t, H, Valid(d), n)
<1>1. PICK old, new : Served(c, d, cmd, b, t, by, old, new) /\ WrittenBack(m, n, t, b, old)
  BY DEF Dl2Served
<1>2. /\ Matches(new, b, t) /\ (cmd = "Write" => new.dirty) /\ new.ready <= by
      /\ Valid(d) = (Valid(c) \ {old}) \cup {new}
      /\ \A x \in Valid(d) : Matches(x, b, t) => x = new
      /\ Matches(old, b, t) => (old.dirty => new.dirty)
  <2>1. /\ Matches(new, b, t) /\ (cmd = "Write" => new.dirty) /\ new.ready <= by
        /\ Valid(d) = (Valid(c) \ {old}) \cup {new}
        /\ \A x \in Valid(d) : Matches(x, b, t) => x = new
    BY <1>1 DEF Served
  <2>2. Matches(old, b, t) => old.valid  BY DEF Matches
  <2>3. Matches(old, b, t) => (old.dirty => new.dirty)  BY <1>1, <2>2 DEF Served
  <2>. QED  BY <2>1, <2>3
<1>3. \A x \in Valid(c) \cup Valid(d) : x.valid  BY DEF Valid
<1>4. \A x \in H \cup Valid(d) : x.context_id = t  BY <1>2 DEF Matches
<1>5. ASSUME NEW x \in n PROVE \E y \in H \cup Valid(d) : x = <<t, y.addr>> /\ y.dirty
  <2>1. x \in m /\ (old.valid /\ old.dirty /\ ~Matches(old, b, t) => x # <<t, old.addr>>)
    BY <1>1 DEF WrittenBack
  <2>2. new \in Valid(d) /\ new.addr = b  BY <1>2 DEF Matches
  <2>3. CASE cmd = "Write" /\ x = <<t, b>>  BY <1>2, <2>2, <2>3
  <2>4. CASE \E y \in H \cup Valid(c) : x = <<t, y.addr>> /\ y.dirty
    <3>1. PICK y \in H \cup Valid(c) : x = <<t, y.addr>> /\ y.dirty  BY <2>4
    <3>2. CASE y \in H \/ y # old  BY <1>2, <3>1, <3>2
    <3>3. CASE y \in Valid(c) /\ y = old
      <4>1. Matches(old, b, t)  BY <1>3, <2>1, <3>1, <3>3
      <4>2. old.addr = b  BY <4>1 DEF Matches
      <4>. QED  BY <1>2, <2>2, <3>1, <3>3, <4>1, <4>2
    <3>. QED  BY <3>1, <3>2, <3>3
  <2>. QED  BY <2>1, <2>3, <2>4
<1>6. \A hi \in H, lo \in Valid(d) : hi.addr = lo.addr => hi.ready >= lo.ready
  BY <1>2 DEF Matches
<1>. QED  BY <1>4, <1>5, <1>6 DEF OneMemory

LEMMA ServedBy ==
  ASSUME NEW c, NEW d, NEW m, NEW n, NEW cmd, NEW b, NEW t, NEW by,
         Dl2Served(c, d, m, n, cmd, b, t, by),
         NEW lo \in Valid(d), lo.addr = b, lo.context_id = t
  PROVE  lo.ready <= by
<1>1. PICK old, new : Served(c, d, cmd, b, t, by, old, new)  BY DEF Dl2Served
<1>2. new.ready <= by /\ \A x \in Valid(d) : Matches(x, b, t) => x = new
  BY <1>1 DEF Served
<1>3. lo.valid  BY DEF Valid
<1>. QED  BY <1>2, <1>3 DEF Matches

(* What the context writes is newer than main memory from then on.         *)
Newer(n, cmd, t, b) == IF cmd = "Write" THEN n \cup {<<t, b>>} ELSE n

LEMMA HitIsOneMemory ==
  ASSUME NEW c1, NEW d1, NEW c2, NEW d2, NEW m, NEW n, NEW cmd, NEW b, NEW t, NEW by,
         OneMemory(t, Valid(c1), Valid(c2), m),
         HitAbove(c1, d1, c2, d2, m, n, cmd, b, t, by)
  PROVE  OneMemory(t, Valid(d1), Valid(d2), Newer(n, cmd, t, b))
<1>1. PICK old, new : Served(c1, d1, cmd, b, t, by, old, new) /\ Matches(old, b, t)
  BY DEF HitAbove
<1>2. d2 = c2 /\ n = m  BY DEF HitAbove
<1>3. /\ Matches(new, b, t) /\ (cmd = "Write" => new.dirty)
      /\ Valid(d1) = (Valid(c1) \ {old}) \cup {new} /\ old \in Valid(c1)
      /\ new.ready = old.ready /\ (old.dirty => new.dirty)
  BY <1>1 DEF Served, Matches
<1>4. new.addr = b /\ old.addr = b /\ new.context_id = t  BY <1>1, <1>3 DEF Matches
<1>5. /\ \A x \in Valid(c1) \cup Valid(c2) : x.context_id = t
      /\ \A x \in m : \E y \in Valid(c1) \cup Valid(c2) : x = <<t, y.addr>> /\ y.dirty
      /\ \A hi \in Valid(c1), lo \in Valid(c2) : hi.addr = lo.addr => hi.ready >= lo.ready
  BY DEF OneMemory
<1>6. ASSUME NEW x \in Newer(n, cmd, t, b)
      PROVE  \E y \in Valid(d1) \cup Valid(d2) : x = <<t, y.addr>> /\ y.dirty
  <2>1. CASE cmd = "Write" /\ x = <<t, b>>  BY <1>3, <1>4, <2>1
  <2>2. CASE x \in m
    <3>1. PICK y \in Valid(c1) \cup Valid(c2) : x = <<t, y.addr>> /\ y.dirty  BY <1>5, <2>2
    <3>2. CASE y = old  BY <1>3, <1>4, <3>1, <3>2
    <3>3. CASE y # old  BY <1>2, <1>3, <3>1, <3>3
    <3>. QED  BY <3>2, <3>3
  <2>. QED  BY <1>2, <2>1, <2>2 DEF Newer
<1>. QED  BY <1>2, <1>3, <1>4, <1>5, <1>6 DEF OneMemory

LEMMA MissIsOneMemory ==
  ASSUME NEW g1 \in Shapes, NEW c1 \in Caches(g1), NEW g2 \in Shapes, NEW c2 \in Caches(g2),
         NEW d1, NEW d2 \in Caches(g2), NEW m, NEW n, NEW cmd, NEW b, NEW t, NEW by \in Nat,
         OneMemory(t, Valid(c1), Valid(c2), m),
         MissAbove(c1, d1, c2, d2, m, n, cmd, b, t, by)
  PROVE  OneMemory(t, Valid(d1), Valid(d2), Newer(n, cmd, t, b))
<1>1. PICK old, new, c3, m3 :
        /\ Served(c1, d1, cmd, b, t, by, old, new) /\ \A x \in Valid(c1) : ~Matches(x, b, t)
        /\ IF old.valid /\ old.dirty
           THEN \E at \in Nat : Dl2Served(c2, c3, m, m3, "Write", old.addr, t, at)
           ELSE c3 = c2 /\ m3 = m
        /\ \E at \in Nat : at <= by /\ Dl2Served(c3, d2, m3, n, "Read", b, t, at)
  BY DEF MissAbove
<1>2. /\ Matches(new, b, t) /\ (cmd = "Write" => new.dirty)
      /\ Valid(d1) = (Valid(c1) \ {old}) \cup {new}
      /\ old.valid => old \in Valid(c1)
      /\ new.ready = by
  BY <1>1 DEF Served, Matches
<1>3. new.addr = b /\ new.context_id = t  BY <1>2 DEF Matches
<1>4. /\ \A x \in Valid(c1) \cup Valid(c2) : x.context_id = t
      /\ \A x \in m : \E y \in Valid(c1) \cup Valid(c2) : x = <<t, y.addr>> /\ y.dirty
      /\ \A hi \in Valid(c1), lo \in Valid(c2) : hi.addr = lo.addr => hi.ready >= lo.ready
  BY DEF OneMemory
<1>. DEFINE H == Valid(c1) \ {old}
<1>5. /\ H \subseteq Valid(c1) /\ \A x \in H : x # old
      /\ Valid(d1) = H \cup {new} /\ \A x \in Valid(c1) : x \in H \/ x = old
  BY <1>2
<1>. HIDE DEF H
<1>6. \A x \in H : x.addr # b
  <2>1. \A x \in Valid(c1) : x.valid /\ x.context_id = t  BY <1>4, ValidBlocks
  <2>. QED  BY <1>1, <1>5, <2>1 DEF Matches
<1>7. OneMemory(t, H, Valid(c3), m3)
  <2>1. CASE old.valid /\ old.dirty
    <3>1. PICK at \in Nat : Dl2Served(c2, c3, m, m3, "Write", old.addr, t, at)  BY <1>1, <2>1
    <3>2. \A x \in H : x.addr # old.addr
      <4>1. old \in Valid(c1) /\ old.context_id = t  BY <1>2, <1>4, <2>1
      <4>2. \A x \in H : x \in Valid(c1) /\ x # old /\ x.valid /\ x.context_id = t
        BY <1>4, <1>5, ValidBlocks
      <4>. QED  BY <2>1, <4>1, <4>2, OneBlock DEF Same
    <3>3. \A x \in H \cup Valid(c2) : x.context_id = t  BY <1>4, <1>5
    <3>4. \A x \in m : \/ x = <<t, old.addr>>
                       \/ \E y \in H \cup Valid(c2) : x = <<t, y.addr>> /\ y.dirty
      BY <1>4, <1>5
    <3>5. \A hi \in H, lo \in Valid(c2) : hi.addr = lo.addr => hi.ready >= lo.ready
      BY <1>4, <1>5
    <3>. QED  BY <3>1, <3>2, <3>3, <3>4, <3>5, BelowServes
  <2>2. CASE ~(old.valid /\ old.dirty)
    <3>1. c3 = c2 /\ m3 = m  BY <1>1, <2>2
    <3>2. \A x \in Valid(c1) \cup Valid(c2) : x.valid  BY ValidBlocks
    <3>3. ASSUME NEW x \in m PROVE \E y \in H \cup Valid(c2) : x = <<t, y.addr>> /\ y.dirty
      <4>1. PICK y \in Valid(c1) \cup Valid(c2) : x = <<t, y.addr>> /\ y.dirty  BY <1>4
      <4>2. y # old  BY <2>2, <3>2, <4>1
      <4>. QED  BY <1>5, <4>1, <4>2
    <3>. QED  BY <1>4, <1>5, <3>1, <3>3 DEF OneMemory
  <2>. QED  BY <2>1, <2>2
<1>8. OneMemory(t, H, Valid(d2), n) /\ \A lo \in Valid(d2) : lo.addr = b => lo.ready <= by
  <2>1. PICK at \in Nat : at <= by /\ Dl2Served(c3, d2, m3, n, "Read", b, t, at)  BY <1>1
  <2>2. /\ \A x \in H \cup Valid(c3) : x.context_id = t
        /\ \A x \in m3 : \E y \in H \cup Valid(c3) : x = <<t, y.addr>> /\ y.dirty
        /\ \A hi \in H, lo \in Valid(c3) : hi.addr = lo.addr => hi.ready >= lo.ready
    BY <1>7 DEF OneMemory
  <2>3. OneMemory(t, H, Valid(d2), n)
    BY <1>6, <2>1, <2>2, BelowServes
  <2>4. \A lo \in Valid(d2) : lo.addr = b => lo.ready <= at
    BY <2>1, <2>3, ServedBy DEF OneMemory
  <2>5. \A lo \in Valid(d2) : lo.ready \in Nat  BY ValidBlocks DEF Blocks
  <2>. QED  BY <2>1, <2>3, <2>4, <2>5
<1>9. /\ \A x \in H \cup Valid(d2) : x.context_id = t
      /\ \A x \in n : \E y \in H \cup Valid(d2) : x = <<t, y.addr>> /\ y.dirty
      /\ \A hi \in H, lo \in Valid(d2) : hi.addr = lo.addr => hi.ready >= lo.ready
  BY <1>8 DEF OneMemory
<1>10. \A x \in Newer(n, cmd, t, b) :
         \E y \in Valid(d1) \cup Valid(d2) : x = <<t, y.addr>> /\ y.dirty
  BY <1>2, <1>3, <1>5, <1>9 DEF Newer
<1>11. \A hi \in Valid(d1), lo \in Valid(d2) : hi.addr = lo.addr => hi.ready >= lo.ready
  <2>1. \A lo \in Valid(d2) : lo.ready \in Nat  BY ValidBlocks DEF Blocks
  <2>. QED  BY <1>2, <1>3, <1>5, <1>8, <1>9, <2>1
<1>. QED  BY <1>3, <1>5, <1>9, <1>10, <1>11 DEF OneMemory

(* A cycle later.                                                          *)
LEMMA LaterIs ==
  ASSUME NEW x \in Blocks
  PROVE  /\ Later(x) \in Blocks
         /\ Later(x).addr = x.addr /\ Later(x).context_id = x.context_id
         /\ Later(x).valid = x.valid /\ Later(x).dirty = x.dirty
         /\ Later(x).ready = Sooner(x.ready) /\ Sooner(x.ready) \in Nat
<1>1. Sooner(x.ready) \in Nat  BY DEF Sooner, Larger, Blocks
<1>. QED  BY <1>1 DEF Later, Blocks

LEMMA ElapsedIs ==
  ASSUME NEW g \in Shapes, NEW c \in Caches(g)
  PROVE  /\ Elapsed(c) \in Caches(g)
         /\ Valid(Elapsed(c)) = {Later(x) : x \in Valid(c)}
<1>. DEFINE row(s) == [links |-> c.sets[s].links,
                       blks  |-> [w \in DOMAIN c.sets[s].blks |-> Later(c.sets[s].blks[w])]]
            sets == [s \in DOMAIN c.sets |-> row(s)]
            d == Elapsed(c)
<1>1. /\ c = [geometry |-> g, bus_free |-> c.bus_free, sets |-> c.sets] /\ c.bus_free \in Nat
      /\ DOMAIN c.sets = SetsOf(g)
      /\ \A s \in SetsOf(g) :
           /\ c.sets[s] \in Rows(g) /\ DOMAIN c.sets[s].blks = WaysOf(g.assoc)
           /\ c.sets[s].blks \in [WaysOf(g.assoc) -> Blocks]
           /\ \A w \in WaysOf(g.assoc) : c.sets[s].blks[w] \in Blocks
  BY CacheIs
<1>2. d = [geometry |-> c.geometry, bus_free |-> Sooner(c.bus_free), sets |-> sets]
  BY DEF Elapsed
<1>3. ASSUME NEW s \in SetsOf(g)
      PROVE  /\ row(s) \in Rows(g)
             /\ \A w \in WaysOf(g.assoc) : row(s).blks[w] = Later(c.sets[s].blks[w])
  <2>1. [w \in DOMAIN c.sets[s].blks |-> Later(c.sets[s].blks[w])]
          = [w \in WaysOf(g.assoc) |-> Later(c.sets[s].blks[w])]
    BY <1>1
  <2>2. [w \in WaysOf(g.assoc) |-> Later(c.sets[s].blks[w])] \in [WaysOf(g.assoc) -> Blocks]
    BY <1>1, LaterIs
  <2>3. row(s) = [links |-> c.sets[s].links,
                  blks  |-> [w \in WaysOf(g.assoc) |-> Later(c.sets[s].blks[w])]]
    BY <2>1
  <2>. HIDE DEF row
  <2>. QED  BY <1>1, <2>2, <2>3 DEF Rows
<1>. HIDE DEF row
<1>4. sets \in [SetsOf(g) -> Rows(g)] /\ \A s \in SetsOf(g) : sets[s] = row(s)  BY <1>1, <1>3
<1>. HIDE DEF sets, d
<1>5. d \in [geometry : {g}, bus_free : Nat, sets : [SetsOf(g) -> Rows(g)]] /\ d.sets = sets
  <2>1. Sooner(c.bus_free) \in Nat  BY <1>1 DEF Sooner, Larger
  <2>2. c.geometry = g  BY <1>1
  <2>. QED  BY <1>2, <1>4, <2>1, <2>2
<1>6. \A s \in SetsOf(g), w \in WaysOf(g.assoc) :
        d.sets[s].blks[w] = Later(c.sets[s].blks[w])
  BY <1>3, <1>4, <1>5
<1>7. Homed(d, g) /\ Distinct(d, g)
  <2>1. \A s \in SetsOf(g), w \in WaysOf(g.assoc) :
          /\ d.sets[s].blks[w].addr = c.sets[s].blks[w].addr
          /\ d.sets[s].blks[w].context_id = c.sets[s].blks[w].context_id
          /\ d.sets[s].blks[w].valid = c.sets[s].blks[w].valid
    BY <1>1, <1>6, LaterIs
  <2>2. Homed(c, g) /\ Distinct(c, g)  BY CacheIs
  <2>3. Homed(d, g)  BY <2>1, <2>2, SMTT(30) DEF Homed
  <2>4. Distinct(d, g)  BY <2>1, <2>2, SMTT(30) DEF Distinct, Same
  <2>. QED  BY <2>3, <2>4
<1>8. d \in Caches(g)  BY <1>5, <1>7 DEF Caches
<1>9. ASSUME NEW x PROVE x \in Valid(d) <=> \E y \in Valid(c) : x = Later(y)
  <2>1. ASSUME x \in Valid(d) PROVE \E y \in Valid(c) : x = Later(y)
    <3>1. PICK s \in SetsOf(g), w \in WaysOf(g.assoc) : x = d.sets[s].blks[w] /\ x.valid
      BY <1>8, <2>1, ValidIs
    <3>2. x = Later(c.sets[s].blks[w]) /\ c.sets[s].blks[w].valid
      BY <1>1, <1>6, <3>1, LaterIs
    <3>. QED  BY <3>2, ValidIs
  <2>2. ASSUME NEW y \in Valid(c), x = Later(y) PROVE x \in Valid(d)
    <3>1. PICK s \in SetsOf(g), w \in WaysOf(g.assoc) : y = c.sets[s].blks[w] /\ y.valid
      BY ValidIs
    <3>2. x = d.sets[s].blks[w] /\ x.valid  BY <1>1, <1>6, <2>2, <3>1, LaterIs
    <3>. QED  BY <1>8, <3>2, ValidIs
  <2>. QED  BY <2>1, <2>2
<1>10. Valid(d) = {Later(x) : x \in Valid(c)}  BY <1>9
<1>. QED  BY <1>8, <1>10 DEF d

LEMMA LaterIsOneMemory ==
  ASSUME NEW g1 \in Shapes, NEW c1 \in Caches(g1), NEW g2 \in Shapes, NEW c2 \in Caches(g2),
         NEW t, NEW m, OneMemory(t, Valid(c1), Valid(c2), m)
  PROVE  OneMemory(t, Valid(Elapsed(c1)), Valid(Elapsed(c2)), m)
<1>. DEFINE later(V) == {Later(x) : x \in V}
<1>1. \A x \in Valid(c1) \cup Valid(c2) :
        /\ x \in Blocks /\ x.ready \in Nat
        /\ Later(x).addr = x.addr /\ Later(x).context_id = x.context_id
        /\ Later(x).dirty = x.dirty /\ Later(x).ready = Sooner(x.ready)
  BY ValidBlocks, LaterIs DEF Blocks
<1>2. /\ Valid(Elapsed(c1)) = later(Valid(c1)) /\ Valid(Elapsed(c2)) = later(Valid(c2))
  BY ElapsedIs
<1>3. /\ \A x \in Valid(c1) \cup Valid(c2) : x.context_id = t
      /\ \A x \in m : \E y \in Valid(c1) \cup Valid(c2) : x = <<t, y.addr>> /\ y.dirty
      /\ \A hi \in Valid(c1), lo \in Valid(c2) : hi.addr = lo.addr => hi.ready >= lo.ready
  BY DEF OneMemory
<1>4. \A x \in later(Valid(c1)) \cup later(Valid(c2)) : x.context_id = t  BY <1>1, <1>3
<1>5. ASSUME NEW x \in m
      PROVE  \E y \in later(Valid(c1)) \cup later(Valid(c2)) : x = <<t, y.addr>> /\ y.dirty
  <2>1. PICK y \in Valid(c1) \cup Valid(c2) : x = <<t, y.addr>> /\ y.dirty  BY <1>3
  <2>2. Later(y) \in later(Valid(c1)) \cup later(Valid(c2))  BY <2>1
  <2>. QED  BY <1>1, <2>1, <2>2
<1>6. ASSUME NEW hi \in later(Valid(c1)), NEW lo \in later(Valid(c2)), hi.addr = lo.addr
      PROVE  hi.ready >= lo.ready
  <2>1. PICK x \in Valid(c1), y \in Valid(c2) : hi = Later(x) /\ lo = Later(y)  OBVIOUS
  <2>2. x.ready >= y.ready  BY <1>1, <1>3, <1>6, <2>1
  <2>3. Sooner(x.ready) >= Sooner(y.ready)  BY <1>1, <2>2 DEF Sooner, Larger
  <2>. QED  BY <1>1, <2>1, <2>3
<1>. HIDE DEF later
<1>. QED  BY <1>2, <1>4, <1>5, <1>6 DEF OneMemory

LEMMA NewCacheIs ==
  ASSUME NEW g \in Shapes
  PROVE  NewCache(g) \in Caches(g) /\ Valid(NewCache(g)) = {}
<1>. DEFINE row == [links |-> NewLinks(g.assoc), blks |-> [w \in 0 .. g.assoc - 1 |-> NewBlock]]
            c == NewCache(g)
<1>1. row \in Rows(g)
  <2>1. NewLinks(g.assoc) \in Lists(g.assoc)
    <3>1. g.assoc \in Nat \ {0}  BY DEF Shapes, Geometries
    <3>. QED  BY <3>1, NewLinksIs
  <2>2. NewBlock \in Blocks  BY DEF NewBlock, Blocks
  <2>. QED  BY <2>1, <2>2 DEF Rows, WaysOf
<1>2. c = [geometry |-> g, bus_free |-> 0, sets |-> [s \in SetsOf(g) |-> row]]
  BY DEF NewCache, SetsOf
<1>3. \A s \in SetsOf(g), w \in WaysOf(g.assoc) : ~c.sets[s].blks[w].valid
  BY DEF NewCache, SetsOf, WaysOf, NewBlock
<1>. HIDE DEF row, c
<1>4. c \in [geometry : {g}, bus_free : Nat, sets : [SetsOf(g) -> Rows(g)]]  BY <1>1, <1>2
<1>5. Homed(c, g) /\ Distinct(c, g)  BY <1>3 DEF Homed, Distinct, Same
<1>6. c \in Caches(g)  BY <1>4, <1>5 DEF Caches
<1>7. Valid(c) = {}
  <2>1. \A x \in Valid(c) : FALSE  BY <1>3, <1>6, ValidIs
  <2>. QED  BY <2>1
<1>. QED  BY <1>6, <1>7 DEF c

-----------------------------------------------------------------------------
(***************************************************************************)
(* The inductive invariant.                                                *)
(***************************************************************************)
TwoCaches ==
  \E g \in Machines : work = g.work /\ dl1 \in Caches(g.dl1) /\ dl2 \in Caches(g.dl2)

Coherent == \A t : running = {t} => OneMemory(t, Valid(dl1), Valid(dl2), modified)

PortsInv == busy \in [DOMAIN Units -> 0 .. IssueLat] /\ slots \in 0 .. Larger(CommitWidth, LoadWidth)

Buffers == [past : Nat, pending : SUBSET Nat]

BufferInv ==
  /\ write_buf \in Buffers /\ IsFiniteSet(write_buf.pending)
  /\ Size(write_buf) <= WriteBufSize

HierInv == TwoCaches /\ Coherent /\ PortsInv /\ BufferInv

LEMMA MachineIs ==
  ASSUME NEW g \in Machines
  PROVE  /\ g.dl1 \in Shapes /\ g.dl2 \in Shapes
         /\ DOMAIN g.work # {} /\ DOMAIN g.work \subseteq Nat /\ IsFiniteSet(DOMAIN g.work)
         /\ \A t \in DOMAIN g.work : g.work[t] \subseteq Nat
BY HierarchyAssumption DEF Shapes

LEMMA Widths == CommitWidth \in Nat \ {0} /\ LoadWidth \in Nat /\ WriteBufSize \in Nat \ {0}
BY HierarchyAssumption

(* An access to the data caches keeps both, and the memory they are.       *)
LEMMA AccessKeeps ==
  ASSUME TwoCaches, Coherent, NEW cmd \in {"Read", "Write"},
         NEW t \in running, NEW b \in work[t], AccessDl1(cmd, b, t), work' = work
  PROVE  TwoCaches' /\ Coherent' /\ Dl1Access(cmd, b, t).lat \in Nat
<1>1. PICK g \in Machines : work = g.work /\ dl1 \in Caches(g.dl1) /\ dl2 \in Caches(g.dl2)
  BY DEF TwoCaches
<1>2. g.dl1 \in Shapes /\ g.dl2 \in Shapes /\ t \in Nat /\ b \in Nat
  BY <1>1, MachineIs DEF running
<1>3. PICK r : r = DataAccess(dl1, cmd, b, t, dl2, modified)  OBVIOUS
<1>4. r = Dl1Access(cmd, b, t)  BY <1>3 DEF Dl1Access, DataAccess
<1>5. /\ dl1' = r.cache /\ dl2' = r.lower.dl2
      /\ modified' = Newer(r.lower.memory, cmd, t, b)
  BY <1>4 DEF AccessDl1, Newer
<1>6. /\ r.cache \in Caches(g.dl1) /\ r.lower.dl2 \in Caches(g.dl2) /\ r.lat \in Nat
      /\ \/ HitAbove(dl1, r.cache, dl2, r.lower.dl2, modified, r.lower.memory, cmd, b, t, r.lat)
         \/ MissAbove(dl1, r.cache, dl2, r.lower.dl2, modified, r.lower.memory, cmd, b, t, r.lat)
  BY <1>1, <1>2, <1>3, Dl1AccessIs, SMTT(30)
<1>7. TwoCaches'  BY <1>1, <1>5, <1>6 DEF TwoCaches
<1>8. ASSUME NEW u, running' = {u} PROVE OneMemory(u, Valid(dl1'), Valid(dl2'), modified')
  <2>1. running = {u} /\ t = u  BY <1>8 DEF running
  <2>2. OneMemory(t, Valid(dl1), Valid(dl2), modified)  BY <2>1 DEF Coherent
  <2>3. CASE HitAbove(dl1, r.cache, dl2, r.lower.dl2, modified, r.lower.memory, cmd, b, t, r.lat)
    BY <1>5, <2>1, <2>2, <2>3, HitIsOneMemory
  <2>4. CASE MissAbove(dl1, r.cache, dl2, r.lower.dl2, modified, r.lower.memory, cmd, b, t, r.lat)
    BY <1>1, <1>2, <1>5, <1>6, <2>1, <2>2, <2>4, MissIsOneMemory
  <2>. QED  BY <1>6, <2>3, <2>4
<1>9. Coherent'  BY <1>8 DEF Coherent
<1>. QED  BY <1>4, <1>6, <1>7, <1>9

LEMMA CachesUnchanged ==
  ASSUME TwoCaches, Coherent, UNCHANGED <<work, caches>>
  PROVE  TwoCaches' /\ Coherent'
BY DEF TwoCaches, Coherent, caches, running

LEMMA PurgedIs ==
  ASSUME BufferInv
  PROVE  /\ Purged(write_buf) \in Buffers /\ IsFiniteSet(Purged(write_buf).pending)
         /\ Size(Purged(write_buf)) <= WriteBufSize
<1>1. /\ write_buf.past \in Nat /\ write_buf.pending \in SUBSET Nat
      /\ IsFiniteSet(write_buf.pending) /\ Cardinality(write_buf.pending) \in Nat
  BY FS_CardinalityType DEF BufferInv, Buffers
<1>2. CASE Size(write_buf) = WriteBufSize
  <2>1. Purged(write_buf) = [past |-> 0, pending |-> write_buf.pending]
    BY <1>2 DEF Purged, BufferInv, Buffers
  <2>. QED  BY <1>1, <1>2, <2>1, Widths DEF Size, Buffers
<1>3. CASE Size(write_buf) # WriteBufSize  BY <1>3 DEF Purged, BufferInv
<1>. QED  BY <1>2, <1>3

(* A store enters the buffer only when there is room, and a set grows by   *)
(* one at most.                                                            *)
LEMMA EntersBuffer ==
  ASSUME NEW wb \in Buffers, IsFiniteSet(wb.pending), Size(wb) <= WriteBufSize,
         Size(wb) # WriteBufSize, NEW n \in Nat,
         NEW d, d = [wb EXCEPT !.pending = @ \cup {n}]
  PROVE  d \in Buffers /\ IsFiniteSet(d.pending) /\ Size(d) <= WriteBufSize
<1>1. /\ d.past = wb.past /\ d.pending = wb.pending \cup {n} /\ d \in Buffers /\ wb.past \in Nat
  BY DEF Buffers
<1>2. /\ IsFiniteSet(d.pending)
      /\ Cardinality(d.pending) = Cardinality(wb.pending)
           \/ Cardinality(d.pending) = Cardinality(wb.pending) + 1
  BY <1>1, FS_AddElement
<1>3. Cardinality(wb.pending) \in Nat  BY FS_CardinalityType
<1>. QED  BY <1>1, <1>2, <1>3, Widths DEF Size

(* A cycle later the finishing time 0 is past, and the others are one less.*)
LEMMA BufferAges ==
  ASSUME NEW wb \in Buffers, IsFiniteSet(wb.pending), Size(wb) <= WriteBufSize,
         NEW d, d = [past    |-> wb.past + (IF 0 \in wb.pending THEN 1 ELSE 0),
                     pending |-> {n - 1 : n \in wb.pending \ {0}}]
  PROVE  d \in Buffers /\ IsFiniteSet(d.pending) /\ Size(d) <= WriteBufSize
<1>. DEFINE P == wb.pending
            S == P \ {0}
            f == [n \in S |-> n - 1]
            D == {n - 1 : n \in S}
            one == IF 0 \in P THEN 1 ELSE 0
<1>1. /\ IsFiniteSet(S) /\ Cardinality(S) = Cardinality(P) - one
      /\ Cardinality(P) \in Nat /\ Cardinality(S) \in Nat /\ one \in Nat
  <2>1. IsFiniteSet(S) /\ Cardinality(S) = IF 0 \in P THEN Cardinality(P) - 1 ELSE Cardinality(P)
    BY FS_RemoveElement
  <2>2. Cardinality(P) \in Nat /\ Cardinality(S) \in Nat  BY <2>1, FS_CardinalityType
  <2>. QED  BY <2>1, <2>2
<1>2. S \subseteq Nat \ {0} /\ wb.past \in Nat  BY DEF Buffers
<1>3. D \subseteq Nat  BY <1>2
<1>4. IsFiniteSet(D) /\ Cardinality(D) <= Cardinality(S)
  <2>1. f \in Surjection(S, D)  BY DEF Surjection
  <2>. QED  BY <1>1, <2>1, FS_Surjection
<1>5. Cardinality(D) \in Nat  BY <1>4, FS_CardinalityType
<1>6. d = [past |-> wb.past + one, pending |-> D]  OBVIOUS
<1>7. wb.past + Cardinality(P) <= WriteBufSize  BY DEF Size
<1>. HIDE DEF P, S, D, one
<1>8. d.past = wb.past + one /\ d.pending = D /\ d \in Buffers
  BY <1>1, <1>2, <1>3, <1>6 DEF Buffers
<1>9. Size(d) = wb.past + one + Cardinality(D)  BY <1>8 DEF Size
<1>10. wb.past + one + Cardinality(D) <= WriteBufSize
  <2>1. \A a, i, x, y, z, w \in Nat : x <= y /\ y = z - i /\ a + z <= w => a + i + x <= w
    OBVIOUS
  <2>. QED  BY <1>1, <1>2, <1>4, <1>5, <1>7, <2>1, Widths
<1>. QED  BY <1>4, <1>8, <1>9, <1>10

-----------------------------------------------------------------------------
LEMMA InitHolds == Init => HierInv
<1>. SUFFICES ASSUME Init PROVE HierInv  OBVIOUS
<1>1. PICK g \in Machines :
        work = g.work /\ dl1 = NewCache(g.dl1) /\ dl2 = NewCache(g.dl2)
  BY DEF Init
<1>2. /\ dl1 \in Caches(g.dl1) /\ Valid(dl1) = {}
      /\ dl2 \in Caches(g.dl2) /\ Valid(dl2) = {}
  BY <1>1, MachineIs, NewCacheIs
<1>3. TwoCaches  BY <1>1, <1>2 DEF TwoCaches
<1>4. Coherent  BY <1>2 DEF Coherent, OneMemory, Init
<1>5. PortsInv
  <2>1. 0 \in 0 .. IssueLat  BY UnitsAssumption
  <2>2. 0 \in 0 .. Larger(CommitWidth, LoadWidth)  BY Widths DEF Larger
  <2>. QED  BY <2>1, <2>2 DEF Init, NewPool, PortsInv
<1>6. BufferInv
  <2>1. write_buf.past = 0 /\ write_buf.pending = {} /\ write_buf \in Buffers
    BY DEF Init, Buffers
  <2>. QED  BY <2>1, FS_EmptySet, Widths DEF BufferInv, Size
<1>. QED  BY <1>3, <1>4, <1>5, <1>6 DEF HierInv

LEMMA PortTaken ==
  ASSUME PortsInv, NEW u, busy' = Reserved(busy, u)
  PROVE  busy' \in [DOMAIN Units -> 0 .. IssueLat]
<1>1. IssueLat \in 0 .. IssueLat  BY UnitsAssumption
<1>. QED  BY <1>1 DEF PortsInv, Reserved

(* One more of the slots of this phase of the cycle is used.               *)
LEMMA SlotUsed ==
  ASSUME PortsInv, slots < CommitWidth \/ slots < LoadWidth
  PROVE  slots + 1 \in 0 .. Larger(CommitWidth, LoadWidth)
BY Widths DEF PortsInv, Larger

LEMMA CommitStoreKeeps ==
  ASSUME HierInv, NEW t \in running, NEW b \in work[t], CommitStore(t, b)
  PROVE  HierInv'
<1>1. TwoCaches' /\ Coherent' /\ Dl1Access("Write", b, t).lat \in Nat
  BY AccessKeeps DEF CommitStore, HierInv
<1>2. PortsInv'
  BY PortTaken, SlotUsed DEF CommitStore, Committing, HierInv, PortsInv
<1>3. BufferInv'
  <2>1. PICK tlb \in TlbLats :
          write_buf' = [Purged(write_buf) EXCEPT !.pending =
                          @ \cup {Larger(Dl1Access("Write", b, t).lat, tlb)}]
    BY DEF CommitStore
  <2>2. Larger(Dl1Access("Write", b, t).lat, tlb) \in Nat
    BY <1>1, HierarchyAssumption DEF Larger
  <2>3. PICK n : n = Larger(Dl1Access("Write", b, t).lat, tlb)  OBVIOUS
  <2>4. /\ Purged(write_buf) \in Buffers /\ IsFiniteSet(Purged(write_buf).pending)
        /\ Size(Purged(write_buf)) <= WriteBufSize
    BY PurgedIs DEF HierInv
  <2>5. Size(Purged(write_buf)) # WriteBufSize  BY DEF CommitStore, NoEntry
  <2>6. write_buf' = [Purged(write_buf) EXCEPT !.pending = @ \cup {n}] /\ n \in Nat
    BY <2>1, <2>2, <2>3
  <2>. QED  BY <2>4, <2>5, <2>6, EntersBuffer DEF BufferInv, Size
<1>. QED  BY <1>1, <1>2, <1>3 DEF HierInv

LEMMA CommitStallsKeeps ==
  ASSUME HierInv, NEW t \in running, CommitStalls(t)
  PROVE  HierInv'
<1>1. TwoCaches' /\ Coherent'  BY CachesUnchanged DEF CommitStalls, HierInv
<1>2. PortsInv'  BY DEF CommitStalls, HierInv, PortsInv
<1>3. BufferInv'  BY PurgedIs DEF CommitStalls, HierInv, BufferInv, Size
<1>. QED  BY <1>1, <1>2, <1>3 DEF HierInv

LEMMA CommitOtherKeeps ==
  ASSUME HierInv, NEW t \in running, CommitOther(t)
  PROVE  HierInv'
<1>1. TwoCaches' /\ Coherent'  BY CachesUnchanged DEF CommitOther, HierInv
<1>2. PortsInv'  BY SlotUsed DEF CommitOther, Committing, HierInv, PortsInv
<1>3. BufferInv'  BY DEF CommitOther, HierInv, BufferInv, Size
<1>. QED  BY <1>1, <1>2, <1>3 DEF HierInv

LEMMA EndCommitKeeps ==
  ASSUME HierInv, EndCommit
  PROVE  HierInv'
<1>1. TwoCaches' /\ Coherent'  BY CachesUnchanged DEF EndCommit, HierInv
<1>2. PortsInv'
  <2>1. 0 \in 0 .. Larger(CommitWidth, LoadWidth)  BY Widths DEF Larger
  <2>2. \A n \in 0 .. IssueLat : (IF n > 0 THEN n - 1 ELSE 0) \in 0 .. IssueLat
    BY UnitsAssumption
  <2>3. busy \in [DOMAIN Units -> 0 .. IssueLat]  BY DEF HierInv, PortsInv
  <2>4. Released(busy) \in [DOMAIN Units -> 0 .. IssueLat]  BY <2>2, <2>3 DEF Released
  <2>. QED  BY <2>1, <2>4 DEF EndCommit, PortsInv
<1>3. BufferInv'  BY DEF EndCommit, HierInv, BufferInv, Size
<1>. QED  BY <1>1, <1>2, <1>3 DEF HierInv

LEMMA IssueLoadKeeps ==
  ASSUME HierInv, NEW t \in running, NEW b \in work[t], IssueLoad(t, b)
  PROVE  HierInv'
<1>1. TwoCaches' /\ Coherent'  BY AccessKeeps DEF IssueLoad, HierInv
<1>2. PortsInv'
  BY PortTaken, SlotUsed DEF IssueLoad, HierInv, PortsInv
<1>3. BufferInv'  BY DEF IssueLoad, HierInv, BufferInv, Size
<1>. QED  BY <1>1, <1>2, <1>3 DEF HierInv

LEMMA EndCycleKeeps ==
  ASSUME HierInv, EndCycle
  PROVE  HierInv'
<1>1. PICK g \in Machines : work = g.work /\ dl1 \in Caches(g.dl1) /\ dl2 \in Caches(g.dl2)
  BY DEF HierInv, TwoCaches
<1>2. g.dl1 \in Shapes /\ g.dl2 \in Shapes  BY MachineIs
<1>3. work' = work /\ dl1' = Elapsed(dl1) /\ dl2' = Elapsed(dl2) /\ modified' = modified
  BY DEF EndCycle
<1>4. TwoCaches'  BY <1>1, <1>2, <1>3, ElapsedIs DEF TwoCaches
<1>5. ASSUME NEW u, running' = {u} PROVE OneMemory(u, Valid(dl1'), Valid(dl2'), modified')
  <2>1. OneMemory(u, Valid(dl1), Valid(dl2), modified)
    BY <1>3, <1>5 DEF HierInv, Coherent, running
  <2>. QED  BY <1>1, <1>2, <1>3, <2>1, LaterIsOneMemory
<1>6. Coherent'  BY <1>5 DEF Coherent
<1>7. PortsInv'  BY Widths DEF EndCycle, HierInv, PortsInv, Larger
<1>8. BufferInv'
  <2>1. /\ write_buf \in Buffers /\ IsFiniteSet(write_buf.pending)
        /\ Size(write_buf) <= WriteBufSize
    BY DEF HierInv, BufferInv
  <2>2. write_buf' = [past    |-> write_buf.past + (IF 0 \in write_buf.pending THEN 1 ELSE 0),
                      pending |-> {n - 1 : n \in write_buf.pending \ {0}}]
    BY DEF EndCycle
  <2>. QED  BY <2>1, <2>2, BufferAges DEF BufferInv, Size
<1>. QED  BY <1>4, <1>6, <1>7, <1>8 DEF HierInv

LEMMA StutteringKeeps ==
  ASSUME HierInv, UNCHANGED vars
  PROVE  HierInv'
<1>1. TwoCaches' /\ Coherent'  BY CachesUnchanged DEF vars, HierInv
<1>2. PortsInv'  BY DEF vars, HierInv, PortsInv
<1>3. BufferInv'  BY DEF vars, HierInv, BufferInv, Size
<1>. QED  BY <1>1, <1>2, <1>3 DEF HierInv

LEMMA NextKeeps == HierInv /\ [Next]_vars => HierInv'
<1>. SUFFICES ASSUME HierInv, [Next]_vars PROVE HierInv'  OBVIOUS
<1>1. ASSUME NEW t \in running, NEW b \in work[t], CommitStore(t, b) PROVE HierInv'
  BY <1>1, CommitStoreKeeps
<1>2. ASSUME NEW t \in running, NEW b \in work[t], IssueLoad(t, b) PROVE HierInv'
  BY <1>2, IssueLoadKeeps
<1>3. ASSUME NEW t \in running, CommitStalls(t) PROVE HierInv'  BY <1>3, CommitStallsKeeps
<1>4. ASSUME NEW t \in running, CommitOther(t) PROVE HierInv'  BY <1>4, CommitOtherKeeps
<1>5. CASE EndCommit  BY <1>5, EndCommitKeeps
<1>6. CASE EndCycle  BY <1>6, EndCycleKeeps
<1>7. CASE UNCHANGED vars  BY <1>7, StutteringKeeps
<1>. QED  BY <1>1, <1>2, <1>3, <1>4, <1>5, <1>6, <1>7 DEF Next

(* The inductive invariant holds in every state.                           *)
THEOREM HierarchyInvariant == Spec => []HierInv
<1>1. Init => HierInv  BY InitHolds
<1>2. HierInv /\ [Next]_vars => HierInv'  BY NextKeeps
<1>. QED  BY <1>1, <1>2, PTL DEF Spec

-----------------------------------------------------------------------------
(***************************************************************************)
(* What the runs check.                                                    *)
(***************************************************************************)
LEMMA CacheInvariants ==
  ASSUME NEW g \in Shapes, NEW c \in Caches(g), NEW s \in DOMAIN c.sets
  PROVE  /\ ListIsOrder(c.sets[s].links)
         /\ \A w, x \in DOMAIN c.sets[s].blks :
              Same(c.sets[s].blks[w], c.sets[s].blks[x]) => w = x
<1>1. /\ g.assoc \in Nat \ {0} /\ s \in SetsOf(g) /\ Distinct(c, g)
      /\ c.sets[s].links \in Lists(g.assoc) /\ DOMAIN c.sets[s].blks = WaysOf(g.assoc)
  BY CacheIs
<1>2. ListIsOrder(c.sets[s].links)  BY <1>1, ListsAreOrders
<1>. QED  BY <1>1, <1>2 DEF Distinct

LEMMA CachesInvFollows == HierInv => CachesInv
<1>. SUFFICES ASSUME HierInv PROVE CachesInv  OBVIOUS
<1>1. PICK g \in Machines : dl1 \in Caches(g.dl1) /\ dl2 \in Caches(g.dl2)
  BY DEF HierInv, TwoCaches
<1>2. ASSUME NEW c \in {dl1, dl2}, NEW s \in DOMAIN c.sets
      PROVE  /\ ListIsOrder(c.sets[s].links)
             /\ \A w, x \in DOMAIN c.sets[s].blks :
                  Same(c.sets[s].blks[w], c.sets[s].blks[x]) => w = x
  BY <1>1, MachineIs, CacheInvariants, SMTT(30)
<1>3. OneCopy  BY <1>2 DEF OneCopy, Same
<1>4. WayListIsOrder  BY <1>2 DEF WayListIsOrder
<1>5. MemTypeOK  BY DEF HierInv, PortsInv, BufferInv, MemTypeOK
<1>. QED  BY <1>3, <1>4, <1>5 DEF CachesInv

LEMMA AloneCoherentFollows == HierInv => AloneCoherent
<1>. SUFFICES ASSUME HierInv, Cardinality(running) = 1 PROVE DirtyBlockHasOwner /\ FillOrder
  BY DEF AloneCoherent, NothingLostAlone, FillOrder
<1>1. IsFiniteSet(running)  BY MachineIs DEF HierInv, TwoCaches, running
<1>2. PICK t : running = {t}  BY <1>1, FS_Singleton
<1>3. OneMemory(t, Valid(dl1), Valid(dl2), modified)  BY <1>2 DEF HierInv, Coherent
<1>4. /\ \A x \in Valid(dl1) \cup Valid(dl2) : x.context_id = t
      /\ \A x \in modified : \E y \in Valid(dl1) \cup Valid(dl2) : x = <<t, y.addr>> /\ y.dirty
      /\ \A hi \in Valid(dl1), lo \in Valid(dl2) : hi.addr = lo.addr => hi.ready >= lo.ready
  BY <1>3 DEF OneMemory
<1>5. ASSUME NEW x \in modified PROVE Dirty(x[1], x[2])
  <2>1. PICK y \in Valid(dl1) \cup Valid(dl2) : x = <<t, y.addr>> /\ y.dirty  BY <1>4
  <2>2. x[1] = y.context_id /\ x[2] = y.addr  BY <1>4, <2>1
  <2>. QED  BY <2>1, <2>2 DEF Dirty
<1>. QED  BY <1>4, <1>5 DEF DirtyBlockHasOwner, FillOrder

(* Whatever the geometries, the programs, the ports and the write buffer:  *)
(* the links of every set of both data caches are an order of its blocks   *)
(* that update_way_list() changes as it should, no cache_access() leaves   *)
(* two copies of a block, and the write buffer is never over its size.     *)
THEOREM CachesInvHolds == Spec => []CachesInv
BY HierarchyInvariant, CachesInvFollows, PTL

(* To a context that has them to itself the two levels are one memory:     *)
(* what it stored is in main memory or in a dirty block of its own, and    *)
(* no block of dl1 is ready before the fill below it.                      *)
THEOREM AloneCoherentHolds == Spec => []AloneCoherent
BY HierarchyInvariant, AloneCoherentFollows, PTL

=============================================================================
