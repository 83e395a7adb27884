------------------------- MODULE ProcessControlProofs -------------------------
(***************************************************************************)
(* Proofs about ProcessControl, for every number of cores, contexts and    *)
(* programs.                                                               *)
(***************************************************************************)
EXTENDS ProcessControl, TLAPS, FiniteSetTheorems, SequenceTheorems, WellFoundedInduction

(* Every non-empty set of natural numbers has a least element: Min is one. *)
LEMMA MinFacts ==
  ASSUME NEW S, S \subseteq Nat, S # {}
  PROVE  Min(S) \in S /\ \A y \in S : Min(S) <= y
<1>1. PICK x \in S : \A y \in S : ~ (<<y, x>> \in OpToRel(<, Nat))
  BY NatLessThanWellFounded, WFMin
<1>2. \A y \in S : ~ (y < x)
  BY <1>1 DEF OpToRel
<1>3. \E z \in S : \A y \in S : z <= y
  BY <1>2
<1> QED
  BY <1>3 DEF Min

InSeq(x, s) == \E i \in DOMAIN s : s[i] = x

Once(s) == \A i, j \in DOMAIN s : s[i] = s[j] => i = j

(* An element is taken out of a list: what follows moves up by one place.  *)
LEMMA RemoveAtFacts ==
  ASSUME NEW S, NEW s \in Seq(S), NEW k \in 1 .. Len(s)
  PROVE  /\ RemoveAt(s, k) \in Seq(S)
         /\ Len(s) \in Nat /\ Len(RemoveAt(s, k)) = Len(s) - 1
         /\ DOMAIN s = 1 .. Len(s) /\ DOMAIN RemoveAt(s, k) = 1 .. Len(s) - 1
         /\ \A i \in 1 .. Len(s) - 1 : RemoveAt(s, k)[i] = s[IF i < k THEN i ELSE i + 1]
<1> DEFINE a == SubSeq(s, 1, k - 1)
           b == SubSeq(s, k + 1, Len(s))
<1>1. Len(s) \in Nat /\ DOMAIN s = 1 .. Len(s) /\ k \in Nat /\ 1 <= k /\ k <= Len(s)
  BY LenProperties
<1>2. /\ a \in Seq(S) /\ Len(a) = k - 1
      /\ \A i \in 1 .. k - 1 : a[i] = s[i]
  <2>1. k - 1 \in Int /\ \A i \in 1 .. k - 1 : s[i] \in S /\ i \in Int /\ 1 + i - 1 = i
    BY <1>1, ElementOfSeq
  <2>2. /\ a \in Seq(S) /\ Len(a) = IF 1 <= k - 1 THEN k - 1 - 1 + 1 ELSE 0
        /\ \A i \in 1 .. k - 1 - 1 + 1 : a[i] = s[1 + i - 1]
    BY <2>1, SubSeqProperties
  <2>3. k - 1 - 1 + 1 = k - 1 /\ (IF 1 <= k - 1 THEN k - 1 - 1 + 1 ELSE 0) = k - 1
    BY <1>1
  <2> QED
    BY <2>1, <2>2, <2>3
<1>3. /\ b \in Seq(S) /\ Len(b) = Len(s) - k
      /\ \A i \in 1 .. Len(s) - k : b[i] = s[k + i]
  <2>1. PICK n \in Nat : n = Len(s) /\ k <= n
    BY <1>1
  <2>2. k + 1 \in Int /\ n \in Int /\ \A i \in k + 1 .. n : s[i] \in S
    BY <1>1, <2>1, ElementOfSeq
  <2>3. /\ SubSeq(s, k + 1, n) \in Seq(S)
        /\ Len(SubSeq(s, k + 1, n)) = IF k + 1 <= n THEN n - (k + 1) + 1 ELSE 0
        /\ \A i \in 1 .. n - (k + 1) + 1 : SubSeq(s, k + 1, n)[i] = s[k + 1 + i - 1]
    BY <2>2, SubSeqProperties
  <2>4. /\ n - (k + 1) + 1 = n - k
        /\ (IF k + 1 <= n THEN n - (k + 1) + 1 ELSE 0) = n - k
    <3>1. k \in Nat /\ n \in Nat /\ k <= n
      BY <1>1, <2>1
    <3>2. CASE k = n
      BY <3>1, <3>2
    <3>3. CASE k < n
      BY <3>1, <3>3
    <3> QED
      BY <3>1, <3>2, <3>3
  <2>5. \A i \in 1 .. n - k : k + 1 + i - 1 = k + i
    BY <1>1
  <2>6. \A i \in 1 .. n - k : SubSeq(s, k + 1, n)[i] = s[k + i]
    BY <2>3, <2>4, <2>5, Zenon
  <2> QED
    BY <2>1, <2>3, <2>4, <2>6, SMTT(30)
<1>4. /\ a \o b \in Seq(S) /\ Len(a \o b) = Len(s) - 1
      /\ \A i \in 1 .. Len(s) - 1 : (a \o b)[i] = IF i <= k - 1 THEN a[i] ELSE b[i - (k - 1)]
  <2> HIDE DEF a, b
  <2>1. /\ a \o b \in Seq(S) /\ Len(a \o b) = Len(a) + Len(b)
        /\ \A i \in 1 .. Len(a) + Len(b) :
             (a \o b)[i] = IF i <= Len(a) THEN a[i] ELSE b[i - Len(a)]
    BY <1>2, <1>3, ConcatProperties
  <2>2. k - 1 + (Len(s) - k) = Len(s) - 1
    BY <1>1
  <2> QED
    BY <1>2, <1>3, <2>1, <2>2
<1>5. \A i \in 1 .. Len(s) - 1 : (a \o b)[i] = s[IF i < k THEN i ELSE i + 1]
  <2> SUFFICES ASSUME NEW i \in 1 .. Len(s) - 1
               PROVE  (a \o b)[i] = s[IF i < k THEN i ELSE i + 1]
    OBVIOUS
  <2>1. CASE i < k
    <3>1. i <= k - 1 /\ i \in 1 .. k - 1
      BY <1>1, <2>1
    <3> HIDE DEF a, b
    <3> QED
      BY <1>2, <1>4, <2>1, <3>1
  <2>2. CASE ~(i < k)
    <3>1. /\ i - (k - 1) \in 1 .. Len(s) - k /\ k + (i - (k - 1)) = i + 1
          /\ ~(i <= k - 1)
      BY <1>1, <2>2
    <3> HIDE DEF a, b
    <3> QED
      BY <1>3, <1>4, <2>2, <3>1
  <2> QED
    BY <2>1, <2>2
<1>6. DOMAIN (a \o b) = 1 .. Len(s) - 1
  BY <1>4, LenProperties
<1> QED
  BY <1>1, <1>4, <1>5, <1>6 DEF RemoveAt

(* An element is taken off a list on which it is at most once.             *)
LEMMA RemoveFirstFacts ==
  ASSUME NEW S, NEW s \in Seq(S), Once(s), NEW e
  PROVE  LET r == RemoveFirst(s, e)
         IN  /\ r \in Seq(S) /\ Len(r) \in Nat /\ Len(s) \in Nat /\ Len(r) <= Len(s)
             /\ Once(r)
             /\ \A x : InSeq(x, r) <=> InSeq(x, s) /\ x # e
<1> DEFINE r == RemoveFirst(s, e)
<1>1. Len(s) \in Nat /\ DOMAIN s = 1 .. Len(s)
  BY LenProperties
<1>2. CASE ~InSeq(e, s)
  <2>1. r = s
    BY <1>1, <1>2 DEF RemoveFirst, InSeq
  <2> QED
    BY <1>1, <1>2, <2>1 DEF InSeq
<1>3. CASE InSeq(e, s)
  <2> DEFINE I == {i \in 1 .. Len(s) : s[i] = e}
             k == Min(I)
  <2>1. I # {} /\ I \subseteq Nat
    BY <1>1, <1>3 DEF InSeq
  <2>2. k \in 1 .. Len(s) /\ s[k] = e
    BY <2>1, MinFacts
  <2>3. r = RemoveAt(s, k)
    BY <1>1, <1>3, <2>1 DEF RemoveFirst, SelectInSeq, InSeq
  <2> HIDE DEF k, I, r
  <2>4. /\ r \in Seq(S) /\ Len(r) = Len(s) - 1 /\ DOMAIN r = 1 .. Len(s) - 1
        /\ \A i \in 1 .. Len(s) - 1 : r[i] = s[IF i < k THEN i ELSE i + 1]
    BY <2>2, <2>3, RemoveAtFacts
  <2>5. \A i \in DOMAIN r : /\ i \in Int
                            /\ (IF i < k THEN i ELSE i + 1) \in DOMAIN s
                            /\ (IF i < k THEN i ELSE i + 1) # k
    BY <1>1, <2>2, <2>4
  <2>6. Once(r)
    <3> SUFFICES ASSUME NEW i \in DOMAIN r, NEW j \in DOMAIN r, r[i] = r[j]
                 PROVE  i = j
      BY DEF Once
    <3>1. (IF i < k THEN i ELSE i + 1) = (IF j < k THEN j ELSE j + 1)
      BY <2>4, <2>5 DEF Once
    <3> QED
      BY <2>2, <2>5, <3>1
  <2>7. ASSUME NEW x, InSeq(x, r) PROVE InSeq(x, s) /\ x # e
    <3>1. PICK i \in DOMAIN r : r[i] = x
      BY <2>7 DEF InSeq
    <3>2. x = s[IF i < k THEN i ELSE i + 1]
      BY <2>4, <3>1
    <3>3. x # e
      BY <1>1, <2>2, <2>5, <3>2 DEF Once
    <3> QED
      BY <2>5, <3>2, <3>3 DEF InSeq
  <2>8. ASSUME NEW x, InSeq(x, s), x # e PROVE InSeq(x, r)
    <3>1. PICK i \in DOMAIN s : s[i] = x
      BY <2>8 DEF InSeq
    <3>2. i \in Nat /\ i # k
      BY <1>1, <2>2, <2>8, <3>1
    <3>3. CASE i < k
      <4>1. i \in DOMAIN r /\ r[i] = s[i]
        BY <1>1, <2>2, <2>4, <3>2, <3>3
      <4> QED
        BY <3>1, <4>1 DEF InSeq
    <3>4. CASE i > k
      <4>1. i - 1 \in DOMAIN r /\ ~(i - 1 < k) /\ i - 1 + 1 = i
        BY <1>1, <2>2, <2>4, <3>2, <3>4
      <4>2. r[i - 1] = s[i]
        BY <2>4, <4>1
      <4> QED
        BY <3>1, <4>1, <4>2 DEF InSeq
    <3> QED
      BY <2>2, <3>2, <3>3, <3>4
  <2>9. Len(r) \in Nat /\ Len(r) <= Len(s)
    BY <1>1, <2>4, LenProperties
  <2> QED
    BY <1>1, <2>4, <2>6, <2>7, <2>8, <2>9 DEF r
<1> QED
  BY <1>2, <1>3

(* An element joins the end of a list it is not on.                        *)
LEMMA AppendOnce ==
  ASSUME NEW S, NEW s \in Seq(S), NEW e
  PROVE  /\ Len(s) \in Nat /\ Len(Append(s, e)) = Len(s) + 1
         /\ DOMAIN s = 1 .. Len(s) /\ DOMAIN Append(s, e) = 1 .. Len(s) + 1
         /\ \A i \in 1 .. Len(s) : Append(s, e)[i] = s[i]
         /\ Append(s, e)[Len(s) + 1] = e
         /\ \A x : InSeq(x, Append(s, e)) <=> InSeq(x, s) \/ x = e
         /\ Once(s) /\ ~InSeq(e, s) => Once(Append(s, e))
<1>1. s \in Seq(S \cup {e}) /\ e \in S \cup {e}
  BY SeqMonotonic, S \subseteq S \cup {e}
<1>2. /\ Len(s) \in Nat /\ Len(Append(s, e)) = Len(s) + 1
      /\ DOMAIN s = 1 .. Len(s) /\ Append(s, e) \in Seq(S \cup {e})
      /\ \A i \in 1 .. Len(s) : Append(s, e)[i] = s[i]
      /\ Append(s, e)[Len(s) + 1] = e
  BY <1>1, LenProperties, AppendProperties
<1>3. DOMAIN Append(s, e) = 1 .. Len(s) + 1
  BY <1>2, LenProperties
<1>4. \A i \in 1 .. Len(s) + 1 : i \in 1 .. Len(s) \/ i = Len(s) + 1
  BY <1>2
<1>5. 1 .. Len(s) \subseteq 1 .. Len(s) + 1 /\ Len(s) + 1 \in 1 .. Len(s) + 1
  BY <1>2
<1>6. \A x : InSeq(x, Append(s, e)) <=> InSeq(x, s) \/ x = e
  BY <1>2, <1>3, <1>4, <1>5 DEF InSeq
<1>7. Once(s) /\ ~InSeq(e, s) => Once(Append(s, e))
  BY <1>2, <1>3, <1>4 DEF InSeq, Once
<1> QED
  BY <1>2, <1>3, <1>6, <1>7

(* A sequence is a function on an initial segment of the numbers.          *)
LEMMA SeqIsFunction ==
  ASSUME NEW S, NEW s \in Seq(S)
  PROVE  Len(s) \in Nat /\ s \in [1 .. Len(s) -> S] /\ DOMAIN s = 1 .. Len(s)
BY LenProperties, ElementOfSeq

LEMMA FunctionIsSeq ==
  ASSUME NEW S, NEW n \in Nat, NEW f \in [1 .. n -> S]
  PROVE  f \in Seq(S) /\ Len(f) = n /\ DOMAIN f = 1 .. n
<1>1. f \in Seq(S)
  BY SeqDef
<1>2. Len(f) \in Nat /\ DOMAIN f = 1 .. Len(f)
  BY <1>1, LenProperties
<1>3. 1 .. Len(f) = 1 .. n
  BY <1>2
<1>4. Len(f) = n
  BY <1>2, <1>3
<1> QED
  BY <1>1, <1>4, <1>2

-----------------------------------------------------------------------------
(***************************************************************************)
(* The inductive invariant, with n the number of processes that ever were. *)
(* It is ProcessControl's properties and what they need besides: a parent  *)
(* is a process that exists, nothing is reported of one that does not, and *)
(* a context without a process has nothing to rename that could be a       *)
(* system call, since its ROB is not empty or its fetch queue is.          *)
(***************************************************************************)
Procs == [alive : BOOLEAN, parent : AllPids \cup {NoPid}, children : Seq(AllPids)]

Table(ps, rs, n) ==
  /\ ps \in [1 .. n -> Procs]
  /\ rs \in [AllPids -> Nat]
  /\ \A p \in 1 .. n :
       /\ Once(ps[p].children)
       /\ ps[p].parent \in 1 .. n \cup {NoPid}
       /\ rs[p] <= 1 /\ (rs[p] = 1 => ~ps[p].alive)
  /\ \A p \in 1 .. n : \A c \in AllPids :
       InSeq(c, ps[p].children) <=> c \in 1 .. n /\ ps[c].parent = p /\ rs[c] = 0
  /\ \A c \in AllPids \ (1 .. n) : rs[c] = 0

Good(c, n) ==
  /\ c \in Contexts
  /\ c.pid \in 1 .. n \cup {NoPid}
  /\ c.wait => c.waiting_for # NoPid
  /\ c.select => c.next_check # 0
  /\ c.pid = NoPid => c.rob \/ ~c.fetched

AllGood(cs, n) == cs \in [1 .. n -> Contexts] /\ \A t \in 1 .. n : Good(cs[t], n)

Apart(ids) ==
  \A c, d \in Cores : \A i \in DOMAIN ids[c], j \in DOMAIN ids[d] :
    ids[c][i] = ids[d][j] => c = d /\ i = j

Lists(ids, cs, n) ==
  /\ ids \in [Cores -> Seq(1 .. n)]
  /\ \A c \in Cores : Len(ids[c]) <= MaxPerCore
  /\ Apart(ids)
  /\ \A t \in 1 .. n : (\E c \in Cores : InSeq(t, ids[c])) <=> cs[t].pid # NoPid
  /\ \A t, u \in 1 .. n : cs[t].pid = cs[u].pid /\ cs[t].pid # NoPid => t = u

Control(n) ==
  /\ core \in Cores
  /\ stage \in {"commit", "rename"}
  /\ left \in Seq(1 .. n) /\ Len(left) <= MaxPerCore
  /\ cur \in 0 .. MaxPerCore - 1
  /\ renamed \in 0 .. Width
  /\ sim_cycle \in 0 .. Period - 1

Shape(n) ==
  /\ Table(procs, reports, n)
  /\ AllGood(contexts, n)
  /\ Lists(core_ids, contexts, n)
  /\ Control(n)

(* The processes that are alive are the ones with a context.               *)
Living(ps, cs, n) ==
  \A p \in 1 .. n : ps[p].alive <=> \E t \in 1 .. n : cs[t].pid = p

Strong ==
  \E n \in 0 .. MaxContexts :
    Shape(n) /\ ("thread_kill" \notin Calls => Living(procs, contexts, n))

-----------------------------------------------------------------------------
(***************************************************************************)
(* The table of processes.                                                 *)
(***************************************************************************)
LEMMA TableKilled ==
  ASSUME NEW n \in 0 .. MaxContexts, NEW ps, NEW rs, Table(ps, rs, n), NEW p
  PROVE  Table(Killed(ps, p), rs, n)
<1>1. DOMAIN ps = 1 .. n
  BY DEF Table
<1>2. CASE p \notin 1 .. n
  BY <1>1, <1>2 DEF Killed
<1>3. CASE p \in 1 .. n
  <2> DEFINE qs == Killed(ps, p)
  <2>0. ps \in [1 .. n -> Procs] /\ qs = [ps EXCEPT ![p].alive = FALSE]
    BY <1>1, <1>3 DEF Killed, Table
  <2> HIDE DEF qs
  <2>a. /\ qs \in [1 .. n -> Procs]
        /\ qs[p] = [ps[p] EXCEPT !.alive = FALSE]
        /\ \A i \in 1 .. n : i # p => qs[i] = ps[i]
    BY <1>3, <2>0 DEF Procs
  <2>1. /\ qs \in [1 .. n -> Procs]
        /\ \A i \in 1 .. n : /\ qs[i].parent = ps[i].parent
                             /\ qs[i].children = ps[i].children
                             /\ ~ps[i].alive => ~qs[i].alive
    BY <1>3, <2>0, <2>a DEF Procs
  <2>2. \A i \in 1 .. n : \A c \in AllPids :
          InSeq(c, qs[i].children) <=> c \in 1 .. n /\ qs[c].parent = i /\ rs[c] = 0
    BY <2>1 DEF Table
  <2>3. \A i \in 1 .. n : /\ Once(qs[i].children)
                          /\ qs[i].parent \in 1 .. n \cup {NoPid}
                          /\ rs[i] <= 1 /\ (rs[i] = 1 => ~qs[i].alive)
    BY <2>1 DEF Table
  <2>4. Table(qs, rs, n)
    BY <2>1, <2>2, <2>3 DEF Table
  <2> QED
    BY <2>4 DEF qs
<1> QED
  BY <1>2, <1>3

LEMMA TableForked ==
  ASSUME NEW n \in 0 .. MaxContexts, n < MaxContexts, NEW ps, NEW rs, Table(ps, rs, n),
         NEW p \in 1 .. n
  PROVE  LET qs == AddChild(Append(ps, NewProc), p, n + 1)
         IN  /\ Table(qs, rs, n + 1)
             /\ qs[n + 1].alive
             /\ \A i \in 1 .. n : qs[i].alive = ps[i].alive
<1> DEFINE as == Append(ps, NewProc)
           qs == AddChild(as, p, n + 1)
<1>0. n \in Nat /\ MaxContexts \in Nat /\ n + 1 \in AllPids /\ NewProc \in Procs
      /\ p \in AllPids
  BY ProcessAssumption, EmptySeq DEF AllPids, NewProc, Procs, NoPid
<1>1. ps \in Seq(Procs) /\ Len(ps) = n /\ ps \in [1 .. n -> Procs]
  BY <1>0, FunctionIsSeq DEF Table
<1>2. /\ as \in Seq(Procs) /\ Len(as) = n + 1
      /\ as[n + 1] = NewProc
      /\ \A i \in 1 .. n : as[i] = ps[i]
  BY <1>0, <1>1, AppendProperties
<1>3. as \in [1 .. n + 1 -> Procs] /\ DOMAIN as = 1 .. n + 1
  BY <1>2, SeqIsFunction
<1> HIDE DEF as
<1>4. p \in 1 .. n + 1 /\ n + 1 \in 1 .. n + 1 /\ p # n + 1 /\ 1 .. n \subseteq 1 .. n + 1
      /\ \A i \in 1 .. n + 1 : i \in 1 .. n \/ i = n + 1
  BY <1>0
<1>5. qs = [as EXCEPT ![p].children = Append(@, n + 1), ![n + 1].parent = p]
  BY <1>3, <1>4 DEF AddChild
<1>6. ps[p].children \in Seq(AllPids)
  BY <1>1 DEF Procs
<1>7. Append(ps[p].children, n + 1) \in Seq(AllPids)
  BY <1>0, <1>6, AppendProperties
<1>8. /\ qs \in [1 .. n + 1 -> Procs]
      /\ qs[n + 1] = [NewProc EXCEPT !.parent = p]
      /\ qs[p] = [ps[p] EXCEPT !.children = Append(@, n + 1)]
      /\ \A i \in 1 .. n : i # p => qs[i] = ps[i]
  <2> HIDE DEF qs
  <2> DEFINE bs == [as EXCEPT ![p] = [as[p] EXCEPT !.children = Append(@, n + 1)]]
  <2>1. /\ as[p] = ps[p] /\ as[p] \in Procs /\ as[n + 1] = NewProc
        /\ [as[p] EXCEPT !.children = Append(@, n + 1)] \in Procs
    BY <1>2, <1>3, <1>4, <1>7 DEF Procs
  <2>2. /\ bs \in [1 .. n + 1 -> Procs] /\ bs[n + 1] = NewProc
        /\ bs[p] = [ps[p] EXCEPT !.children = Append(@, n + 1)]
        /\ \A i \in 1 .. n : i # p => bs[i] = ps[i]
    BY <1>2, <1>3, <1>4, <2>1
  <2>3. qs = [bs EXCEPT ![n + 1].parent = p]
    BY <1>5
  <2> HIDE DEF bs
  <2>4. [NewProc EXCEPT !.parent = p] \in Procs
    BY <1>0 DEF Procs
  <2>5. /\ qs \in [1 .. n + 1 -> Procs] /\ qs[n + 1] = [NewProc EXCEPT !.parent = p]
        /\ \A i \in 1 .. n + 1 : i # n + 1 => qs[i] = bs[i]
    BY <1>4, <2>2, <2>3, <2>4
  <2> QED
    BY <1>4, <2>2, <2>5
<1> HIDE DEF qs
<1>9. /\ qs[n + 1].alive /\ qs[n + 1].parent = p /\ qs[n + 1].children = <<>>
      /\ qs[p].children = Append(ps[p].children, n + 1)
      /\ \A i \in 1 .. n : /\ qs[i].alive = ps[i].alive /\ qs[i].parent = ps[i].parent
                           /\ i # p => qs[i].children = ps[i].children
  <2>1. /\ qs[n + 1].alive /\ qs[n + 1].parent = p /\ qs[n + 1].children = <<>>
    BY <1>8 DEF NewProc
  <2>2. ps[p] \in Procs
    BY <1>1
  <2>3. /\ qs[p].children = Append(ps[p].children, n + 1)
        /\ qs[p].alive = ps[p].alive /\ qs[p].parent = ps[p].parent
    BY <1>8, <2>2 DEF Procs
  <2> QED
    BY <1>8, <2>1, <2>3
<1>10. ~InSeq(n + 1, ps[p].children)
  BY <1>0, <1>4 DEF Table
<1>11. /\ \A x : InSeq(x, qs[p].children) <=> InSeq(x, ps[p].children) \/ x = n + 1
       /\ Once(qs[p].children)
  BY <1>6, <1>9, <1>10, AppendOnce DEF Table
<1>12. Once(<<>>) /\ \A x : ~InSeq(x, <<>>)
  BY DEF Once, InSeq
<1>13. n + 1 \notin 1 .. n /\ NoPid # n + 1 /\ rs[n + 1] = 0
  BY <1>0 DEF Table, NoPid
<1>14. \A i \in 1 .. n + 1 :
         /\ Once(qs[i].children)
         /\ qs[i].parent \in 1 .. n + 1 \cup {NoPid}
         /\ rs[i] <= 1 /\ (rs[i] = 1 => ~qs[i].alive)
  <2> SUFFICES ASSUME NEW i \in 1 .. n + 1
               PROVE  /\ Once(qs[i].children)
                      /\ qs[i].parent \in 1 .. n + 1 \cup {NoPid}
                      /\ rs[i] <= 1 /\ (rs[i] = 1 => ~qs[i].alive)
    OBVIOUS
  <2>1. CASE i = n + 1
    BY <1>4, <1>9, <1>12, <1>13, <2>1
  <2>2. CASE i = p
    BY <1>4, <1>9, <1>11, <2>2, ZenonT(60) DEF Table
  <2>3. CASE i \in 1 .. n /\ i # p
    BY <1>4, <1>9, <2>3 DEF Table
  <2> QED
    BY <1>4, <2>1, <2>2, <2>3
<1>15. ASSUME NEW i \in 1 .. n + 1, NEW c \in AllPids
       PROVE  InSeq(c, qs[i].children) <=> c \in 1 .. n + 1 /\ qs[c].parent = i /\ rs[c] = 0
  <2>1. CASE i = n + 1
    <3>1. c \in 1 .. n + 1 => qs[c].parent # n + 1
      BY <1>4, <1>9, <1>13 DEF Table
    <3> QED
      BY <1>9, <1>12, <2>1, <3>1
  <2>2. CASE i = p
    <3>1. CASE c = n + 1
      BY <1>4, <1>9, <1>11, <1>13, <2>2, <3>1
    <3>2. CASE c # n + 1
      <4>1. InSeq(c, qs[i].children) <=> InSeq(c, ps[p].children)
        BY <1>11, <2>2, <3>2
      <4>2. c \in 1 .. n + 1 <=> c \in 1 .. n
        BY <1>4, <3>2
      <4>3. c \in 1 .. n => qs[c].parent = ps[c].parent
        BY <1>9
      <4>4. InSeq(c, ps[p].children) <=> c \in 1 .. n /\ ps[c].parent = p /\ rs[c] = 0
        BY DEF Table
      <4> QED
        BY <2>2, <4>1, <4>2, <4>3, <4>4
    <3> QED
      BY <3>1, <3>2
  <2>3. CASE i \in 1 .. n /\ i # p
    <3>1. CASE c = n + 1
      BY <1>4, <1>9, <1>13, <2>3, <3>1 DEF Table
    <3>2. CASE c # n + 1
      <4>1. qs[i].children = ps[i].children
        BY <1>9, <2>3
      <4>2. c \in 1 .. n + 1 <=> c \in 1 .. n
        BY <1>4, <3>2
      <4>3. c \in 1 .. n => qs[c].parent = ps[c].parent
        BY <1>9
      <4>4. InSeq(c, ps[i].children) <=> c \in 1 .. n /\ ps[c].parent = i /\ rs[c] = 0
        BY <2>3 DEF Table
      <4> QED
        BY <4>1, <4>2, <4>3, <4>4
    <3> QED
      BY <3>1, <3>2
  <2> QED
    BY <1>4, <2>1, <2>2, <2>3
<1>16. \A c \in AllPids \ (1 .. n + 1) : rs[c] = 0
  BY <1>4 DEF Table
<1>17. rs \in [AllPids -> Nat]
  BY DEF Table
<1>18. Table(qs, rs, n + 1)
  BY <1>8, <1>14, <1>15, <1>16, <1>17 DEF Table
<1> QED
  BY <1>9, <1>18 DEF qs, as

(* Reaped with the table as a parameter.                                   *)
ReapedFrom(ps, p, c) == [ps EXCEPT ![p].children = RemoveFirst(@, c)]

LEMMA TableReaped ==
  ASSUME NEW n \in 0 .. MaxContexts, NEW ps, NEW rs, Table(ps, rs, n),
         NEW p \in 1 .. n, NEW a \in AllPids, InSeq(a, ps[p].children), ~ps[a].alive
  PROVE  LET qs == ReapedFrom(ps, p, a)
         IN  /\ Table(qs, [rs EXCEPT ![a] = @ + 1], n)
             /\ \A i \in 1 .. n : qs[i].alive = ps[i].alive
<1> DEFINE qs == ReapedFrom(ps, p, a)
           us == [rs EXCEPT ![a] = @ + 1]
<1>1. ps \in [1 .. n -> Procs] /\ ps[p] \in Procs /\ ps[p].children \in Seq(AllPids)
  BY DEF Table, Procs
<1>2. a \in 1 .. n /\ ps[a].parent = p /\ rs[a] = 0
  BY DEF Table
<1>3. /\ us \in [AllPids -> Nat] /\ us[a] = 1
      /\ \A c \in AllPids : c # a => us[c] = rs[c]
  BY <1>2 DEF Table
<1>4. /\ RemoveFirst(ps[p].children, a) \in Seq(AllPids)
      /\ Once(RemoveFirst(ps[p].children, a))
      /\ \A x : InSeq(x, RemoveFirst(ps[p].children, a)) <=> InSeq(x, ps[p].children) /\ x # a
  BY <1>1, RemoveFirstFacts DEF Table
<1>5. qs = [ps EXCEPT ![p] = [ps[p] EXCEPT !.children = RemoveFirst(ps[p].children, a)]]
  BY <1>1 DEF ReapedFrom
<1>6. [ps[p] EXCEPT !.children = RemoveFirst(ps[p].children, a)] \in Procs
  BY <1>1, <1>4 DEF Procs
<1> HIDE DEF qs, us
<1>7. /\ qs \in [1 .. n -> Procs]
      /\ qs[p] = [ps[p] EXCEPT !.children = RemoveFirst(ps[p].children, a)]
      /\ \A i \in 1 .. n : i # p => qs[i] = ps[i]
  BY <1>1, <1>5, <1>6
<1>8. /\ qs[p].children = RemoveFirst(ps[p].children, a)
      /\ qs[p].alive = ps[p].alive /\ qs[p].parent = ps[p].parent
  BY <1>1, <1>7 DEF Procs
<1>9. \A i \in 1 .. n : /\ qs[i].alive = ps[i].alive /\ qs[i].parent = ps[i].parent
                        /\ i # p => qs[i].children = ps[i].children
  BY <1>7, <1>8
<1>10. ASSUME NEW i \in 1 .. n
       PROVE  /\ Once(qs[i].children)
              /\ qs[i].parent \in 1 .. n \cup {NoPid}
              /\ us[i] <= 1 /\ (us[i] = 1 => ~qs[i].alive)
  <2>1. i \in AllPids
    BY ProcessAssumption DEF AllPids
  <2>2. /\ Once(ps[i].children)
        /\ ps[i].parent \in 1 .. n \cup {NoPid}
        /\ rs[i] <= 1 /\ (rs[i] = 1 => ~ps[i].alive)
    BY DEF Table
  <2>3. /\ qs[i].alive = ps[i].alive /\ qs[i].parent = ps[i].parent
        /\ i # p => qs[i].children = ps[i].children
    BY <1>9
  <2>4. Once(qs[i].children)
    BY <1>4, <1>8, <2>2, <2>3
  <2>5. CASE i = a
    BY <1>3, <2>2, <2>3, <2>4, <2>5
  <2>6. CASE i # a
    BY <1>3, <2>1, <2>2, <2>3, <2>4, <2>6
  <2> QED
    BY <2>5, <2>6
<1>11. ASSUME NEW i \in 1 .. n, NEW c \in AllPids
       PROVE  InSeq(c, qs[i].children) <=> c \in 1 .. n /\ qs[c].parent = i /\ us[c] = 0
  <2>1. InSeq(c, ps[i].children) <=> c \in 1 .. n /\ ps[c].parent = i /\ rs[c] = 0
    BY DEF Table
  <2>2. CASE c = a
    <3>1. CASE i = p
      BY <1>3, <1>4, <1>8, <2>2, <3>1
    <3>2. CASE i # p
      <4>1. ~InSeq(a, ps[i].children)
        BY <1>2, <2>1, <2>2, <3>2
      <4>2. qs[i].children = ps[i].children
        BY <1>9, <3>2
      <4> QED
        BY <1>3, <2>2, <4>1, <4>2
    <3> QED
      BY <3>1, <3>2
  <2>3. CASE c # a
    <3>0. ASSUME NEW x \in 1 .. n
          PROVE  /\ qs[x].parent = ps[x].parent
                 /\ x # p => qs[x].children = ps[x].children
      BY <1>9
    <3>1. us[c] = rs[c] /\ (c \in 1 .. n => qs[c].parent = ps[c].parent)
      BY <1>3, <2>3, <3>0
    <3>2. InSeq(c, qs[i].children) <=> InSeq(c, ps[i].children)
      BY <1>4, <1>8, <2>3, <3>0
    <3> QED
      BY <2>1, <3>1, <3>2
  <2> QED
    BY <2>2, <2>3
<1>12. \A c \in AllPids \ (1 .. n) : us[c] = 0
  BY <1>2, <1>3 DEF Table
<1>13. Table(qs, us, n)
  BY <1>3, <1>7, <1>10, <1>11, <1>12 DEF Table
<1> QED
  BY <1>9, <1>13 DEF qs, us

(* What wait4 returns is a dead child that is still on record, or ANY.     *)
LEMMA AnswerFacts ==
  ASSUME NEW n \in 0 .. MaxContexts, Table(procs, reports, n), NEW p \in 1 .. n,
         NEW w \in DOMAIN procs \cup {ANY}, NEW a \in Answer(p, w), a # ANY
  PROVE  a \in AllPids /\ InSeq(a, procs[p].children) /\ ~procs[a].alive
<1>1. /\ DOMAIN procs = 1 .. n /\ n \in Nat /\ 1 .. n \subseteq AllPids
      /\ procs[p].children \in Seq(AllPids)
  BY ProcessAssumption DEF Table, Procs, AllPids
<1>2. CASE w # ANY
  BY <1>1, <1>2 DEF Answer, InSeq
<1>3. CASE w = ANY
  <2>1. DeadChildren(p) # {} /\ a = procs[p].children[Min(DeadChildren(p))]
    BY <1>1, <1>3 DEF Answer
  <2>2. DeadChildren(p) \subseteq Nat
    BY <1>1, SeqIsFunction DEF DeadChildren
  <2>3. PICK k \in DeadChildren(p) : a = procs[p].children[k]
    BY <2>1, <2>2, MinFacts
  <2> QED
    BY <1>1, <2>3, ElementOfSeq, SeqIsFunction DEF DeadChildren, InSeq
<1> QED
  BY <1>2, <1>3

-----------------------------------------------------------------------------
(***************************************************************************)
(* The contexts.                                                           *)
(***************************************************************************)
LEMMA GoodMonotonic ==
  ASSUME NEW n \in 0 .. MaxContexts, NEW c, Good(c, n)
  PROVE  Good(c, n + 1)
<1>1. 1 .. n \subseteq 1 .. n + 1
  OBVIOUS
<1> QED
  BY <1>1 DEF Good

LEMMA AllGoodExcept ==
  ASSUME NEW n \in Nat, NEW cs, AllGood(cs, n), NEW t, NEW v, Good(v, n),
         NEW ds, ds = [cs EXCEPT ![t] = v]
  PROVE  AllGood(ds, n)
<1>1. v \in Contexts /\ cs \in [1 .. n -> Contexts]
  BY DEF AllGood, Good
<1>2. ds \in [1 .. n -> Contexts]
  BY <1>1
<1>3. \A i \in 1 .. n : ds[i] = IF i = t THEN v ELSE cs[i]
  BY <1>1
<1> QED
  BY <1>2, <1>3 DEF AllGood

(* What the end of a pending wait or select leaves alone.                  *)
Like(c, d) == /\ c.pid = d.pid /\ c.rob = d.rob
              /\ c.fetched = d.fetched /\ c.again = d.again

LEMMA PolledGood ==
  ASSUME NEW n \in Nat, NEW c, Good(c, n)
  PROVE  Good(Polled(c), n) /\ Like(Polled(c), c)
<1> DEFINE d == Polled(c)
<1>1. c \in Contexts
  BY DEF Good
<1>2. CASE StillWaits(c)
  <2>1. d = c
    BY <1>2 DEF Polled
  <2> QED
    BY <2>1 DEF Like
<1>3. CASE ~StillWaits(c)
  <2>1. d = [c EXCEPT !.wait        = FALSE,
                      !.waiting_for = IF c.wait THEN NoPid ELSE c.waiting_for,
                      !.select      = StillSelects(c),
                      !.next_check  = IF c.select THEN c.next_check - 1 ELSE c.next_check]
    BY <1>3 DEF Polled
  <2> HIDE DEF d
  <2>2. /\ d.pid = c.pid /\ d.rob = c.rob /\ d.fetched = c.fetched /\ d.again = c.again
        /\ d.wait = FALSE /\ d.waiting_for = IF c.wait THEN NoPid ELSE c.waiting_for
        /\ d.select = StillSelects(c)
        /\ d.next_check = IF c.select THEN c.next_check - 1 ELSE c.next_check
    BY <1>1, <2>1 DEF Contexts
  <2>3. c.next_check \in 0 .. SelectDelay /\ (c.select => c.next_check # 0)
    BY <1>1 DEF Good, Contexts
  <2>4. d.next_check \in 0 .. SelectDelay /\ (d.select => d.next_check # 0)
    <3>1. d.next_check = (IF c.select THEN c.next_check - 1 ELSE c.next_check)
          /\ (d.select <=> c.select /\ c.next_check > 1)
          /\ SelectDelay \in Nat
      BY <2>2, ProcessAssumption DEF StillSelects
    <3>2. PICK k \in 0 .. SelectDelay : k = c.next_check
      BY <2>3
    <3>3. CASE c.select
      <4>1. d.next_check = k - 1 /\ (d.select <=> k > 1) /\ k # 0
        BY <2>3, <3>1, <3>2, <3>3
      <4> QED
        BY <3>1, <4>1
    <3>4. CASE ~c.select
      BY <2>3, <3>1, <3>4
    <3> QED
      BY <3>3, <3>4
  <2>5. d.select \in BOOLEAN /\ d.waiting_for \in AllPids \cup {NoPid, ANY}
    BY <1>1, <2>2 DEF Contexts, StillSelects
  <2>6. d \in Contexts
    BY <1>1, <2>1, <2>2, <2>4, <2>5 DEF Contexts
  <2> QED
    BY <2>2, <2>4, <2>6 DEF Good, Like, d
<1> QED
  BY <1>2, <1>3

LEMMA AfterPollGood ==
  ASSUME NEW n \in Nat, AllGood(contexts, n)
  PROVE  /\ AllGood(AfterPoll, n)
         /\ \A t \in 1 .. n : Like(AfterPoll[t], contexts[t])
<1>1. contexts \in [1 .. n -> Contexts]
  BY DEF AllGood
<1>2. \A t \in 1 .. n : Like(contexts[t], contexts[t])
  BY DEF Like
<1>3. CASE Pos \notin 1 .. n
  <2>1. AfterPoll = contexts
    BY <1>1, <1>3 DEF AfterPoll
  <2> QED
    BY <1>2, <2>1
<1>4. CASE Pos \in 1 .. n
  <2>1. Good(Polled(contexts[Pos]), n) /\ Like(Polled(contexts[Pos]), contexts[Pos])
    BY <1>4, PolledGood DEF AllGood
  <2>2. AfterPoll = [contexts EXCEPT ![Pos] = Polled(contexts[Pos])]
    BY DEF AfterPoll
  <2>3. /\ AllGood(AfterPoll, n)
        /\ AfterPoll[Pos] = Polled(contexts[Pos])
        /\ \A i \in 1 .. n : i # Pos => AfterPoll[i] = contexts[i]
    <3>1. PICK k, v, ds : k = Pos /\ v = Polled(contexts[Pos]) /\ ds = AfterPoll
      OBVIOUS
    <3>2. ds = [contexts EXCEPT ![k] = v] /\ k \in 1 .. n /\ Good(v, n)
      BY <1>4, <2>1, <2>2, <3>1
    <3>3. AllGood(ds, n) /\ ds[k] = v /\ \A i \in 1 .. n : i # k => ds[i] = contexts[i]
      <4>1. AllGood(ds, n)
        BY <3>2, AllGoodExcept
      <4>2. ds[k] = v /\ \A i \in 1 .. n : i # k => ds[i] = contexts[i]
        BY <1>1, <3>2
      <4> QED
        BY <4>1, <4>2
    <3> QED
      BY <3>1, <3>3
  <2> QED
    BY <1>2, <2>1, <2>3
<1> QED
  BY <1>3, <1>4

(* What the instruction that enters the ROB does to its context.           *)
LEMMA EnteredGood ==
  ASSUME NEW n \in Nat, NEW c, Good(c, n), NEW more \in BOOLEAN
  PROVE  /\ Good(Entered(c, more), n) /\ Entered(c, more).pid = c.pid
         /\ Good([Entered(c, more) EXCEPT !.again = NoPid], n)
         /\ [Entered(c, more) EXCEPT !.again = NoPid].pid = c.pid
<1>1. c \in Contexts
  BY DEF Good
<1> QED
  BY <1>1 DEF Good, Entered, Contexts

LEMMA FlushedGood ==
  ASSUME NEW n \in Nat, NEW c, Good(c, n)
  PROVE  Good(Flushed(c), n) /\ Flushed(c).pid = NoPid
<1>1. c \in Contexts
  BY DEF Good
<1> QED
  BY <1>1 DEF Good, Flushed, Contexts

LEMMA PendsGood ==
  ASSUME NEW n \in Nat, NEW c, Good(c, n), NEW w \in AllPids \cup {ANY}
  PROVE  LET d == Entered(c, FALSE)
             x == [d EXCEPT !.wait = TRUE, !.waiting_for = w, !.again = w]
             y == [d EXCEPT !.select = TRUE, !.next_check = SelectDelay]
         IN  Good(x, n) /\ x.pid = c.pid /\ Good(y, n) /\ y.pid = c.pid
<1>1. c \in Contexts /\ w # NoPid
  BY DEF Good, AllPids, ANY, NoPid
<1>2. SelectDelay \in 0 .. SelectDelay /\ SelectDelay # 0
  BY ProcessAssumption
<1> QED
  BY <1>1, <1>2 DEF Good, Entered, Contexts

-----------------------------------------------------------------------------
(***************************************************************************)
(* The lists of the cores.                                                 *)
(***************************************************************************)
LEMMA ApartMeans ==
  ASSUME NEW ids
  PROVE  Apart(ids) <=>
           /\ \A c \in Cores : Once(ids[c])
           /\ \A c, d \in Cores : \A x : InSeq(x, ids[c]) /\ InSeq(x, ids[d]) => c = d
<1>1. Apart(ids) => \A c \in Cores : Once(ids[c])
  BY DEF Apart, Once
<1>2. Apart(ids) => \A c, d \in Cores : \A x : InSeq(x, ids[c]) /\ InSeq(x, ids[d]) => c = d
  BY DEF Apart, InSeq
<1>3. ASSUME \A c \in Cores : Once(ids[c]),
             \A c, d \in Cores : \A x : InSeq(x, ids[c]) /\ InSeq(x, ids[d]) => c = d
      PROVE  Apart(ids)
  BY <1>3 DEF Apart, Once, InSeq
<1> QED
  BY <1>1, <1>2, <1>3

LEMMA ListsSame ==
  ASSUME NEW n \in Nat, NEW ids, NEW cs, Lists(ids, cs, n), NEW ds,
         \A i \in 1 .. n : ds[i].pid = cs[i].pid
  PROVE  Lists(ids, ds, n)
BY DEF Lists

(* A context that has lost its process leaves the list it is on.           *)
LEMMA ListsEjected ==
  ASSUME NEW n \in Nat, NEW ids, NEW cs, Lists(ids, cs, n), NEW ds, NEW u \in 1 .. n,
         ds[u].pid = NoPid,
         \A i \in 1 .. n : i # u => ds[i].pid = cs[i].pid
  PROVE  Lists([c \in Cores |-> RemoveFirst(ids[c], u)], ds, n)
<1> DEFINE js == [c \in Cores |-> RemoveFirst(ids[c], u)]
<1>1. /\ \A c \in Cores : Once(ids[c])
      /\ \A c, d \in Cores : \A x : InSeq(x, ids[c]) /\ InSeq(x, ids[d]) => c = d
  BY ApartMeans DEF Lists
<1>2. ASSUME NEW c \in Cores
      PROVE  /\ js[c] \in Seq(1 .. n) /\ Len(js[c]) <= MaxPerCore /\ Once(js[c])
             /\ \A x : InSeq(x, js[c]) <=> InSeq(x, ids[c]) /\ x # u
  <2>1. ids[c] \in Seq(1 .. n) /\ Len(ids[c]) <= MaxPerCore /\ MaxPerCore \in Nat
    BY ProcessAssumption DEF Lists
  <2>2. LET r == RemoveFirst(ids[c], u)
        IN  /\ r \in Seq(1 .. n) /\ Len(r) \in Nat /\ Len(ids[c]) \in Nat
            /\ Len(r) <= Len(ids[c])
            /\ Once(r)
            /\ \A x : InSeq(x, r) <=> InSeq(x, ids[c]) /\ x # u
    BY <1>1, <2>1, RemoveFirstFacts
  <2>3. js[c] = RemoveFirst(ids[c], u)
    OBVIOUS
  <2> QED
    BY <2>1, <2>2, <2>3
<1>3. js \in [Cores -> Seq(1 .. n)]
  BY <1>2
<1> HIDE DEF js
<1>4. \A c, d \in Cores : \A x : InSeq(x, js[c]) /\ InSeq(x, js[d]) => c = d
  BY <1>1, <1>2
<1>5. Apart(js)
  BY <1>2, <1>4, ApartMeans
<1>6. ASSUME NEW t \in 1 .. n
      PROVE  (\E c \in Cores : InSeq(t, js[c])) <=> ds[t].pid # NoPid
  <2>1. (\E c \in Cores : InSeq(t, ids[c])) <=> cs[t].pid # NoPid
    BY DEF Lists
  <2>2. CASE t = u
    BY <1>2, <2>2
  <2>3. CASE t # u
    BY <1>2, <2>1, <2>3
  <2> QED
    BY <2>2, <2>3
<1>7. \A t, i \in 1 .. n : ds[t].pid = ds[i].pid /\ ds[t].pid # NoPid => t = i
  <2> SUFFICES ASSUME NEW t \in 1 .. n, NEW i \in 1 .. n,
                      ds[t].pid = ds[i].pid, ds[t].pid # NoPid
               PROVE  t = i
    OBVIOUS
  <2>1. t # u /\ i # u
    OBVIOUS
  <2> QED
    BY <2>1 DEF Lists
<1>8. Lists(js, ds, n)
  BY <1>2, <1>3, <1>5, <1>6, <1>7 DEF Lists
<1> QED
  BY <1>8 DEF js

(* A context with a process of its own joins the list of a core with room. *)
LEMMA ListsPlaced ==
  ASSUME NEW n \in Nat, NEW ids, NEW cs, Lists(ids, cs, n), NEW ds, NEW e \in Cores,
         Len(ids[e]) < MaxPerCore,
         \A i \in 1 .. n : ds[i].pid = cs[i].pid /\ ds[i].pid # ds[n + 1].pid,
         ds[n + 1].pid # NoPid
  PROVE  Lists([ids EXCEPT ![e] = Append(@, n + 1)], ds, n + 1)
<1> DEFINE js == [ids EXCEPT ![e] = Append(@, n + 1)]
<1>1. /\ \A c \in Cores : Once(ids[c])
      /\ \A c, d \in Cores : \A x : InSeq(x, ids[c]) /\ InSeq(x, ids[d]) => c = d
  BY ApartMeans DEF Lists
<1>2. /\ 1 .. n \subseteq 1 .. n + 1 /\ n + 1 \in 1 .. n + 1 /\ n + 1 \notin 1 .. n
      /\ \A i \in 1 .. n + 1 : i \in 1 .. n \/ i = n + 1
  OBVIOUS
<1>3. ids \in [Cores -> Seq(1 .. n)] /\ \A c \in Cores : ids[c] \in Seq(1 .. n + 1)
  BY <1>2, SeqMonotonic DEF Lists
<1>4. \A c \in Cores : ~InSeq(n + 1, ids[c])
  <2> SUFFICES ASSUME NEW c \in Cores, NEW i \in DOMAIN ids[c]
               PROVE  ids[c][i] # n + 1
    BY DEF InSeq
  <2>1. ids[c] \in Seq(1 .. n)
    BY <1>3
  <2>2. ids[c][i] \in 1 .. n
    BY <2>1, SeqIsFunction
  <2> QED
    BY <1>2, <2>2
<1>5. js = [c \in Cores |-> IF c = e THEN Append(ids[e], n + 1) ELSE ids[c]]
  BY <1>3
<1> HIDE DEF js
<1>6. /\ Append(ids[e], n + 1) \in Seq(1 .. n + 1)
      /\ Len(ids[e]) \in Nat /\ Len(Append(ids[e], n + 1)) = Len(ids[e]) + 1
      /\ Once(Append(ids[e], n + 1))
      /\ \A x : InSeq(x, Append(ids[e], n + 1)) <=> InSeq(x, ids[e]) \/ x = n + 1
  <2>1. Append(ids[e], n + 1) \in Seq(1 .. n + 1)
    BY <1>2, <1>3, AppendProperties
  <2>2. ids[e] \in Seq(1 .. n + 1)
    BY <1>3
  <2> QED
    BY <1>1, <1>4, <2>1, <2>2, AppendOnce
<1>7. ASSUME NEW c \in Cores
      PROVE  /\ js[c] \in Seq(1 .. n + 1) /\ Len(js[c]) <= MaxPerCore /\ Once(js[c])
             /\ \A x : InSeq(x, js[c]) <=> InSeq(x, ids[c]) \/ (c = e /\ x = n + 1)
  <2>1. CASE c = e
    <3>1. js[c] = Append(ids[e], n + 1)
      BY <1>5, <2>1
    <3>2. Len(js[c]) <= MaxPerCore
      BY <1>6, <3>1, ProcessAssumption
    <3> QED
      BY <1>6, <2>1, <3>1, <3>2
  <2>2. CASE c # e
    <3>1. js[c] = ids[c]
      BY <1>5, <2>2
    <3> QED
      BY <1>1, <1>3, <2>2, <3>1 DEF Lists
  <2> QED
    BY <2>1, <2>2
<1>8. \A c, d \in Cores : \A x : InSeq(x, js[c]) /\ InSeq(x, js[d]) => c = d
  <2> SUFFICES ASSUME NEW c \in Cores, NEW d \in Cores, NEW x,
                      InSeq(x, js[c]), InSeq(x, js[d])
               PROVE  c = d
    OBVIOUS
  <2>1. /\ InSeq(x, ids[c]) \/ (c = e /\ x = n + 1)
        /\ InSeq(x, ids[d]) \/ (d = e /\ x = n + 1)
    BY <1>7
  <2> QED
    BY <1>1, <1>4, <2>1
<1>9. js \in [Cores -> Seq(1 .. n + 1)] /\ Apart(js)
  <2>1. js \in [Cores -> Seq(1 .. n + 1)]
    BY <1>5, <1>7
  <2>2. Apart(js)
    BY <1>7, <1>8, ApartMeans
  <2> QED
    BY <2>1, <2>2
<1>10. ASSUME NEW t \in 1 .. n + 1
       PROVE  (\E c \in Cores : InSeq(t, js[c])) <=> ds[t].pid # NoPid
  <2>1. CASE t = n + 1
    BY <1>7, <2>1
  <2>2. CASE t \in 1 .. n
    <3>1. (\E c \in Cores : InSeq(t, ids[c])) <=> cs[t].pid # NoPid
      BY <2>2 DEF Lists
    <3> QED
      BY <1>2, <1>7, <2>2, <3>1
  <2> QED
    BY <1>2, <2>1, <2>2
<1>11. \A t, i \in 1 .. n + 1 : ds[t].pid = ds[i].pid /\ ds[t].pid # NoPid => t = i
  <2> SUFFICES ASSUME NEW t \in 1 .. n + 1, NEW i \in 1 .. n + 1,
                      ds[t].pid = ds[i].pid, ds[t].pid # NoPid
               PROVE  t = i
    OBVIOUS
  <2>1. CASE t \in 1 .. n /\ i \in 1 .. n
    BY <2>1 DEF Lists
  <2>2. CASE ~(t \in 1 .. n /\ i \in 1 .. n)
    BY <1>2, <2>2
  <2> QED
    BY <2>1, <2>2
<1>12. Lists(js, ds, n + 1)
  BY <1>7, <1>9, <1>10, <1>11 DEF Lists
<1> QED
  BY <1>12 DEF js

-----------------------------------------------------------------------------
(***************************************************************************)
(* The rename loop.                                                        *)
(***************************************************************************)
LEMMA PosInLeft ==
  ASSUME NEW n \in Nat, Control(n), left # <<>>
  PROVE  /\ Pos \in 1 .. Len(left) /\ left[Pos] \in 1 .. n
         /\ Pos - 1 \in 0 .. MaxPerCore - 1
<1>1. left \in Seq(1 .. n) /\ Len(left) <= MaxPerCore /\ MaxPerCore \in Nat
  BY ProcessAssumption DEF Control
<1>2. Len(left) \in Nat /\ Len(left) # 0
  BY <1>1, EmptySeq, LenProperties
<1>3. PICK m \in Nat : m = Len(left) /\ m # 0 /\ m <= MaxPerCore
  BY <1>1, <1>2
<1>4. PICK k \in Nat : k = cur
  BY ProcessAssumption DEF Control
<1>5. k % m \in 0 .. m - 1
  BY <1>3, <1>4
<1>6. PICK r \in 0 .. m - 1 : r = k % m
  BY <1>5
<1>7. Pos = r + 1
  BY <1>3, <1>4, <1>6 DEF Pos
<1>8. Pos \in 1 .. Len(left)
  BY <1>3, <1>6, <1>7
<1>9. left[Pos] \in 1 .. n
  BY <1>1, <1>8, ElementOfSeq
<1>10. Pos - 1 \in 0 .. MaxPerCore - 1
  <2>1. Pos - 1 = r
    BY <1>6, <1>7
  <2>2. r \in 0 .. MaxPerCore - 1
    BY <1>1, <1>3, <1>6
  <2> QED
    BY <2>1, <2>2
<1> QED
  BY <1>8, <1>9, <1>10

LEMMA ServesFacts ==
  ASSUME NEW n \in Nat, Control(n), NEW t, Serves(t)
  PROVE  t \in 1 .. n /\ t = left[Pos] /\ contexts[t].fetched /\ Control(n)'
<1>1. left # <<>> /\ renamed < Width /\ t = left[Pos]
  BY DEF Serves, InLoop
<1>2. left[Pos] \in 1 .. n /\ Pos - 1 \in 0 .. MaxPerCore - 1
  BY <1>1, PosInLeft
<1>3. renamed + 1 \in 0 .. Width
  BY <1>1, ProcessAssumption DEF Control
<1>4. /\ core' = core /\ stage' = stage /\ left' = left /\ sim_cycle' = sim_cycle
      /\ cur' = Pos - 1 /\ renamed' = renamed + 1
  BY DEF Serves
<1> QED
  BY <1>1, <1>2, <1>3, <1>4 DEF Control, Serves

LEMMA ControlMonotonic ==
  ASSUME NEW n \in Nat, Control(n)
  PROVE  Control(n + 1)
<1>1. 1 .. n \subseteq 1 .. n + 1
  OBVIOUS
<1>2. left \in Seq(1 .. n + 1)
  BY <1>1, SeqMonotonic DEF Control
<1> QED
  BY <1>2 DEF Control

(* A context that makes a system call runs a process: its ROB is empty and *)
(* it has something to rename.                                             *)
LEMMA CallerLives ==
  ASSUME NEW n \in Nat, AllGood(contexts, n), Control(n), NEW t, Serves(t), ~contexts[t].rob
  PROVE  contexts[t].pid \in 1 .. n /\ contexts[left[Pos]].pid # NoPid
<1>1. t \in 1 .. n /\ t = left[Pos] /\ contexts[t].fetched
  BY ServesFacts
<1>2. Good(contexts[t], n)
  BY <1>1 DEF AllGood
<1> QED
  BY <1>1, <1>2 DEF Good

(* The served context is the only one that changes, apart from a pending   *)
(* interrupt that ends.                                                    *)
ServedAs(ds, t, v, n) ==
  /\ AllGood(ds, n)
  /\ ds[t] = v
  /\ \A i \in 1 .. n : i # t => ds[i].pid = contexts[i].pid

LEMMA ServedGood ==
  ASSUME NEW n \in Nat, AllGood(contexts, n), NEW t \in 1 .. n, NEW v, Good(v, n),
         NEW ds, ds = [AfterPoll EXCEPT ![t] = v]
  PROVE  ServedAs(ds, t, v, n)
<1>1. PICK cs : cs = AfterPoll
  OBVIOUS
<1>2. AllGood(cs, n) /\ \A i \in 1 .. n : Like(cs[i], contexts[i])
  BY <1>1, AfterPollGood
<1>3. AllGood(ds, n)
  BY <1>1, <1>2, AllGoodExcept
<1>4. ds[t] = v /\ \A i \in 1 .. n : i # t => ds[i] = cs[i]
  BY <1>1, <1>2 DEF AllGood
<1> QED
  BY <1>2, <1>3, <1>4 DEF Like, ServedAs

(* A step after which each context has the process that it had.            *)
LEMMA Keeps ==
  ASSUME NEW n \in Nat, AllGood(contexts, n), Lists(core_ids, contexts, n),
         NEW t \in 1 .. n, NEW v, Good(v, n), v.pid = contexts[t].pid,
         contexts' = [AfterPoll EXCEPT ![t] = v], core_ids' = core_ids
  PROVE  /\ AllGood(contexts', n) /\ Lists(core_ids', contexts', n)
         /\ \A i \in 1 .. n : contexts'[i].pid = contexts[i].pid
<1>1. PICK ds : ds = contexts'
  OBVIOUS
<1>2. /\ AllGood(ds, n) /\ ds[t] = v
      /\ \A i \in 1 .. n : i # t => ds[i].pid = contexts[i].pid
  <2>1. ds = [AfterPoll EXCEPT ![t] = v]
    BY <1>1
  <2>2. ServedAs(ds, t, v, n)
    BY <2>1, ServedGood
  <2> QED
    BY <2>2 DEF ServedAs
<1>3. \A i \in 1 .. n : ds[i].pid = contexts[i].pid
  BY <1>2
<1>4. Lists(core_ids, ds, n)
  BY <1>3, ListsSame
<1> QED
  BY <1>1, <1>2, <1>3, <1>4

(* A step after which context u has no process and is on no list.          *)
LEMMA Ejects ==
  ASSUME NEW n \in Nat, AllGood(contexts, n), Lists(core_ids, contexts, n),
         NEW u \in 1 .. n, NEW ds, AllGood(ds, n), ds[u].pid = NoPid,
         \A i \in 1 .. n : i # u => ds[i].pid = contexts[i].pid,
         contexts' = ds, core_ids' = Ejected(u)
  PROVE  AllGood(contexts', n) /\ Lists(core_ids', contexts', n)
<1>1. Lists([c \in Cores |-> RemoveFirst(core_ids[c], u)], ds, n)
  BY ListsEjected
<1> QED
  BY <1>1 DEF Ejected

(* The answer of a wait4 leaves the table as it should be.                 *)
LEMMA AnswerKeepsTable ==
  ASSUME NEW n \in 0 .. MaxContexts, Table(procs, reports, n), NEW p \in 1 .. n,
         NEW w \in DOMAIN procs \cup {ANY}, NEW a \in Answer(p, w),
         procs' = IF a = ANY THEN procs ELSE Reaped(p, a),
         reports' = IF a = ANY THEN reports ELSE [reports EXCEPT ![a] = @ + 1]
  PROVE  /\ Table(procs', reports', n)
         /\ \A i \in 1 .. n : procs'[i].alive = procs[i].alive
<1>1. CASE a = ANY
  BY <1>1
<1>2. CASE a # ANY
  <2>1. a \in AllPids /\ InSeq(a, procs[p].children) /\ ~procs[a].alive
    BY <1>2, AnswerFacts
  <2>2. procs' = ReapedFrom(procs, p, a) /\ reports' = [reports EXCEPT ![a] = @ + 1]
    BY <1>2 DEF Reaped, ReapedFrom
  <2>3. LET qs == ReapedFrom(procs, p, a)
        IN  /\ Table(qs, [reports EXCEPT ![a] = @ + 1], n)
            /\ \A i \in 1 .. n : qs[i].alive = procs[i].alive
    BY <2>1, TableReaped
  <2> QED
    BY <2>2, <2>3
<1> QED
  BY <1>1, <1>2

LEMMA TurnStep ==
  ASSUME NEW n \in Nat, Shape(n), SkipCore \/ StartTurn \/ Stall \/ EndTurn
  PROVE  Shape(n)' /\ procs' = procs /\ \A i \in 1 .. n : contexts'[i].pid = contexts[i].pid
<1>0. /\ Table(procs, reports, n) /\ AllGood(contexts, n)
      /\ Lists(core_ids, contexts, n) /\ Control(n)
  BY DEF Shape
<1>1. NextCore => core' \in Cores /\ sim_cycle' \in 0 .. Period - 1
  <2> SUFFICES ASSUME NextCore PROVE core' \in Cores /\ sim_cycle' \in 0 .. Period - 1
    OBVIOUS
  <2>1. PICK k \in Nat, m \in Nat, c \in Nat, p \in Nat :
          /\ k = core /\ m = NumCores /\ m # 0 /\ c = sim_cycle /\ p = Period /\ p # 0
          /\ c < p
    BY <1>0, ProcessAssumption, PeriodAssumption DEF Control, Cores
  <2>2. k % m \in 0 .. m - 1 /\ (c + 1) % p \in 0 .. p - 1
    BY <2>1
  <2>3. core' = (k % m) + 1 /\ sim_cycle' = IF k = m THEN (c + 1) % p ELSE c
    BY <2>1 DEF NextCore
  <2>4. (k % m) + 1 \in 1 .. m /\ c \in 0 .. p - 1
    BY <2>1, <2>2
  <2> QED
    BY <2>1, <2>2, <2>3, <2>4 DEF Cores
<1>2. /\ contexts \in [1 .. n -> Contexts] /\ DOMAIN contexts = 1 .. n
      /\ MaxPerCore \in Nat /\ MaxPerCore # 0 /\ Width \in Nat
      /\ core \in Cores
  BY <1>0, ProcessAssumption DEF AllGood, Control
<1>3. CASE SkipCore
  <2>1. /\ procs' = procs /\ contexts' = contexts /\ core_ids' = core_ids /\ stage' = stage
        /\ left' = left /\ cur' = cur /\ renamed' = renamed /\ reports' = reports
        /\ NextCore
    BY <1>3 DEF SkipCore
  <2>2. Control(n)'
    BY <1>0, <1>1, <2>1 DEF Control
  <2> QED
    BY <1>0, <2>1, <2>2 DEF Shape
<1>4. CASE StartTurn
  <2>1. /\ procs' = procs /\ core_ids' = core_ids /\ reports' = reports /\ core' = core
        /\ sim_cycle' = sim_cycle /\ stage' = "rename" /\ left' = core_ids[core]
        /\ cur' = FirstContext(core) /\ renamed' = 0 /\ core_ids[core] # <<>>
    BY <1>4 DEF StartTurn
  <2>2. PICK drained \in SUBSET Range(core_ids[core]) :
          contexts' = [t \in DOMAIN contexts |->
                         [contexts[t] EXCEPT !.rob = @ /\ t \notin drained]]
    BY <1>4 DEF StartTurn
  <2>3. core_ids[core] \in Seq(1 .. n) /\ Len(core_ids[core]) <= MaxPerCore
    BY <1>0, <1>2 DEF Lists
  <2>4. ASSUME NEW t \in 1 .. n
        PROVE  contexts'[t].pid = contexts[t].pid /\ Good(contexts'[t], n)
    <3>1. PICK c : c = contexts[t]
      OBVIOUS
    <3>2. PICK b \in BOOLEAN : b = (t \notin drained)
      OBVIOUS
    <3>3. contexts'[t] = [c EXCEPT !.rob = c.rob /\ b] /\ Good(c, n)
      BY <1>0, <1>2, <2>2, <3>1, <3>2 DEF AllGood
    <3>4. c.pid # NoPid \/ b
      <4>1. t \in drained => \E i \in DOMAIN core_ids[core] : core_ids[core][i] = t
        BY <2>2 DEF Range
      <4>2. t \in drained => contexts[t].pid # NoPid
        BY <1>0, <1>2, <4>1 DEF Lists, InSeq
      <4> QED
        BY <3>1, <3>2, <4>2
    <3>5. c \in Contexts
      BY <3>3 DEF Good
    <3>6. /\ contexts'[t].pid = c.pid /\ contexts'[t] \in Contexts
          /\ contexts'[t].wait = c.wait /\ contexts'[t].waiting_for = c.waiting_for
          /\ contexts'[t].select = c.select /\ contexts'[t].next_check = c.next_check
          /\ contexts'[t].fetched = c.fetched
          /\ (c.rob /\ b => contexts'[t].rob)
      BY <3>3, <3>5 DEF Contexts
    <3> QED
      BY <3>1, <3>3, <3>4, <3>6 DEF Good
  <2>5. AllGood(contexts', n)
    <3>1. contexts' \in [1 .. n -> Contexts]
      BY <1>2, <2>2, <2>4 DEF Good
    <3> QED
      BY <2>4, <3>1 DEF AllGood
  <2>6. Lists(core_ids', contexts', n)
    <3>1. PICK ds : ds = contexts'
      OBVIOUS
    <3>2. Lists(core_ids, ds, n)
      BY <1>0, <2>4, <3>1, ListsSame
    <3> QED
      BY <2>1, <3>1, <3>2
  <2>7. Control(n)'
    <3>1. PICK k \in Nat, m \in Nat \ {0} : /\ k = sim_cycle /\ m = Len(core_ids[core])
                                            /\ m <= MaxPerCore
      <4>1. Len(core_ids[core]) \in Nat /\ Len(core_ids[core]) # 0
        BY <2>1, <2>3, EmptySeq, LenProperties
      <4>2. sim_cycle \in Nat
        BY <1>0, PeriodAssumption DEF Control
      <4> QED
        BY <2>3, <4>1, <4>2
    <3>2. k % m \in 0 .. m - 1
      OBVIOUS
    <3>3. cur' = k % m
      BY <2>1, <3>1 DEF FirstContext
    <3>4. cur' \in 0 .. MaxPerCore - 1
      <4>1. \A j \in 0 .. m - 1 : j \in 0 .. MaxPerCore - 1
        BY <1>2, <3>1
      <4> QED
        BY <3>2, <3>3, <4>1
    <3>5. 0 \in 0 .. Width
      BY <1>2
    <3> QED
      BY <1>0, <2>1, <2>3, <3>4, <3>5 DEF Control
  <2> QED
    BY <1>0, <2>1, <2>4, <2>5, <2>6, <2>7 DEF Shape
<1>5. CASE Stall
  <2>1. /\ procs' = procs /\ core_ids' = core_ids /\ reports' = reports /\ core' = core
        /\ sim_cycle' = sim_cycle /\ stage' = stage /\ renamed' = renamed
        /\ contexts' = AfterPoll /\ left' = RemoveAt(left, Pos) /\ cur' = Pos - 1
        /\ left # <<>>
    BY <1>5 DEF Stall, InLoop
  <2>2. Pos \in 1 .. Len(left) /\ Pos - 1 \in 0 .. MaxPerCore - 1
    BY <1>0, <2>1, PosInLeft
  <2>3. PICK ds : ds = AfterPoll
    OBVIOUS
  <2>4. AllGood(ds, n) /\ \A i \in 1 .. n : ds[i].pid = contexts[i].pid
    BY <1>0, <2>3, AfterPollGood DEF Like
  <2>5. Lists(core_ids, ds, n)
    BY <1>0, <2>4, ListsSame
  <2>6. RemoveAt(left, Pos) \in Seq(1 .. n) /\ Len(RemoveAt(left, Pos)) <= MaxPerCore
    <3>1. PICK k : k = Pos
      OBVIOUS
    <3>2. left \in Seq(1 .. n) /\ Len(left) <= MaxPerCore /\ k \in 1 .. Len(left)
      BY <1>0, <2>2, <3>1 DEF Control
    <3>3. /\ RemoveAt(left, k) \in Seq(1 .. n)
          /\ Len(left) \in Nat /\ Len(RemoveAt(left, k)) = Len(left) - 1
      BY <3>2, RemoveAtFacts
    <3> QED
      BY <1>2, <3>1, <3>2, <3>3
  <2>7. Control(n)'
    BY <1>0, <2>1, <2>2, <2>6 DEF Control
  <2> QED
    BY <1>0, <2>1, <2>3, <2>4, <2>5, <2>7 DEF Shape
<1>6. CASE EndTurn
  <2>1. /\ procs' = procs /\ core_ids' = core_ids /\ reports' = reports /\ NextCore
        /\ stage' = "commit" /\ left' = <<>> /\ cur' = 0 /\ renamed' = 0
    BY <1>6 DEF EndTurn
  <2>2. PICK filled \in SUBSET {t \in Range(core_ids[core]) : MayFetch(contexts[t])} :
          contexts' = [t \in DOMAIN contexts |->
                         [contexts[t] EXCEPT !.fetched = @ \/ t \in filled]]
    BY <1>6 DEF EndTurn
  <2>4. ASSUME NEW t \in 1 .. n
        PROVE  contexts'[t].pid = contexts[t].pid /\ Good(contexts'[t], n)
    <3>1. PICK c : c = contexts[t]
      OBVIOUS
    <3>2. PICK b \in BOOLEAN : b = ~(t \notin filled)
      OBVIOUS
    <3>3. contexts'[t] = [c EXCEPT !.fetched = c.fetched \/ b] /\ Good(c, n)
      BY <1>0, <1>2, <2>2, <3>1, <3>2 DEF AllGood
    <3>4. c.pid # NoPid \/ ~b
      BY <2>2, <3>1, <3>2 DEF MayFetch
    <3>5. c \in Contexts
      BY <3>3 DEF Good
    <3>6. /\ contexts'[t].pid = c.pid /\ contexts'[t] \in Contexts
          /\ contexts'[t].wait = c.wait /\ contexts'[t].waiting_for = c.waiting_for
          /\ contexts'[t].select = c.select /\ contexts'[t].next_check = c.next_check
          /\ contexts'[t].rob = c.rob
          /\ (contexts'[t].fetched => c.fetched \/ b)
      BY <3>3, <3>5 DEF Contexts
    <3> QED
      BY <3>1, <3>3, <3>4, <3>6 DEF Good
  <2>5. AllGood(contexts', n)
    <3>1. contexts' \in [1 .. n -> Contexts]
      BY <1>2, <2>2, <2>4 DEF Good
    <3> QED
      BY <2>4, <3>1 DEF AllGood
  <2>6. Lists(core_ids', contexts', n)
    <3>1. PICK ds : ds = contexts'
      OBVIOUS
    <3>2. Lists(core_ids, ds, n)
      BY <1>0, <2>4, <3>1, ListsSame
    <3> QED
      BY <2>1, <3>1, <3>2
  <2>7. Control(n)'
    <3>1. <<>> \in Seq(1 .. n) /\ Len(<<>>) = 0 /\ 0 \in 0 .. MaxPerCore - 1 /\ 0 \in 0 .. Width
      BY <1>2, EmptySeq
    <3> QED
      BY <1>0, <1>1, <1>2, <2>1, <3>1 DEF Control
  <2> QED
    BY <1>0, <2>1, <2>4, <2>5, <2>6, <2>7 DEF Shape
<1> QED
  BY <1>3, <1>4, <1>5, <1>6

(* What TurnStep says of a step, for the steps of the rename loop that     *)
(* neither kill nor make a process.                                        *)
LEMMA LoopStep ==
  ASSUME NEW n \in 0 .. MaxContexts, Shape(n), NEW t,
         \/ RenameOther(t) \/ ForkFails(t) \/ SelectPends(t)
         \/ \E w \in DOMAIN procs \cup {ANY} : WaitPends(t, w)
  PROVE  Shape(n)' /\ procs' = procs /\ core_ids' = core_ids
         /\ \A i \in 1 .. n : contexts'[i].pid = contexts[i].pid
<1>0. /\ Table(procs, reports, n) /\ AllGood(contexts, n)
      /\ Lists(core_ids, contexts, n) /\ Control(n) /\ n \in Nat
  BY DEF Shape
<1>1. /\ Serves(t) /\ procs' = procs /\ core_ids' = core_ids /\ reports' = reports
  BY DEF RenameOther, ForkFails, SelectPends, WaitPends, MayCall, CallsWait
<1>2. t \in 1 .. n /\ Control(n)'
  BY <1>0, <1>1, ServesFacts
<1>3. PICK c : c = AfterPoll[t]
  OBVIOUS
<1>4. Good(c, n) /\ c.pid = contexts[t].pid
  BY <1>0, <1>2, <1>3, AfterPollGood DEF AllGood, Like
<1>5. \A w \in DOMAIN procs \cup {ANY} : w \in AllPids \cup {ANY}
  BY <1>0, ProcessAssumption DEF Table, AllPids
<1>6. PICK v : v.pid = contexts[t].pid /\ Good(v, n) /\ contexts' = [AfterPoll EXCEPT ![t] = v]
  <2>1. CASE RenameOther(t) \/ ForkFails(t)
    <3>1. PICK more \in BOOLEAN : contexts' = [AfterPoll EXCEPT ![t] = Entered(c, more)]
      BY <1>3, <2>1 DEF RenameOther, ForkFails
    <3> QED
      BY <1>0, <1>4, <3>1, EnteredGood, ZenonT(60)
  <2>2. CASE SelectPends(t)
    <3> DEFINE d == Entered(c, FALSE)
               v == [d EXCEPT !.select = TRUE, !.next_check = SelectDelay]
    <3>1. contexts' = [AfterPoll EXCEPT ![t] = v]
      BY <1>3, <2>2, SMTT(30) DEF SelectPends
    <3>2. Good(v, n) /\ v.pid = c.pid
      <4>1. ANY \in AllPids \cup {ANY}
        OBVIOUS
      <4> QED
        BY <1>0, <1>4, <4>1, PendsGood
    <3> QED
      BY <1>4, <3>1, <3>2
  <2>3. ASSUME NEW w \in DOMAIN procs \cup {ANY}, WaitPends(t, w)
        PROVE  \E v : v.pid = contexts[t].pid /\ Good(v, n)
                      /\ contexts' = [AfterPoll EXCEPT ![t] = v]
    <3> DEFINE d == Entered(c, FALSE)
               v == [d EXCEPT !.wait = TRUE, !.waiting_for = w, !.again = w]
    <3>1. contexts' = [AfterPoll EXCEPT ![t] = v]
      BY <1>3, <2>3 DEF WaitPends
    <3>2. Good(v, n) /\ v.pid = c.pid
      BY <1>0, <1>4, <1>5, PendsGood
    <3> QED
      BY <1>4, <3>1, <3>2
  <2> QED
    BY <2>1, <2>2, <2>3
<1>7. /\ AllGood(contexts', n) /\ Lists(core_ids', contexts', n)
      /\ \A i \in 1 .. n : contexts'[i].pid = contexts[i].pid
  BY <1>0, <1>1, <1>2, <1>6, Keeps
<1> QED
  BY <1>0, <1>1, <1>2, <1>7 DEF Shape

LEMMA WaitStep ==
  ASSUME NEW n \in 0 .. MaxContexts, Shape(n), NEW t,
         NEW w \in DOMAIN procs \cup {ANY}, WaitAnswered(t, w)
  PROVE  /\ Shape(n)' /\ contexts[left[Pos]].pid # NoPid
         /\ \A i \in 1 .. n : procs'[i].alive = procs[i].alive
         /\ \A i \in 1 .. n : contexts'[i].pid = contexts[i].pid
<1>0. /\ Table(procs, reports, n) /\ AllGood(contexts, n)
      /\ Lists(core_ids, contexts, n) /\ Control(n) /\ n \in Nat
  BY DEF Shape
<1>1. Serves(t) /\ ~contexts[t].rob /\ core_ids' = core_ids
  BY DEF WaitAnswered, CallsWait, MayCall
<1>2. t \in 1 .. n /\ Control(n)'
  BY <1>0, <1>1, ServesFacts
<1>3. PICK p : p = contexts[t].pid
  OBVIOUS
<1>4. p \in 1 .. n /\ contexts[left[Pos]].pid # NoPid
  BY <1>0, <1>1, <1>3, CallerLives
<1>5. PICK a \in Answer(p, w) :
        /\ procs' = IF a = ANY THEN procs ELSE Reaped(p, a)
        /\ reports' = IF a = ANY THEN reports ELSE [reports EXCEPT ![a] = @ + 1]
  BY <1>3 DEF WaitAnswered
<1>6. Table(procs', reports', n) /\ \A i \in 1 .. n : procs'[i].alive = procs[i].alive
  BY <1>0, <1>4, <1>5, AnswerKeepsTable
<1>7. PICK more \in BOOLEAN :
        contexts' = [AfterPoll EXCEPT ![t] = [Entered(AfterPoll[t], more) EXCEPT !.again = NoPid]]
  BY DEF WaitAnswered
<1>8. PICK c : c = AfterPoll[t]
  OBVIOUS
<1>9. Good(c, n) /\ c.pid = contexts[t].pid
  BY <1>0, <1>2, <1>8, AfterPollGood DEF AllGood, Like
<1>10. PICK v : v = [Entered(c, more) EXCEPT !.again = NoPid]
  OBVIOUS
<1>11. Good(v, n) /\ v.pid = contexts[t].pid /\ contexts' = [AfterPoll EXCEPT ![t] = v]
  BY <1>0, <1>7, <1>8, <1>9, <1>10, EnteredGood
<1>12. /\ AllGood(contexts', n) /\ Lists(core_ids', contexts', n)
       /\ \A i \in 1 .. n : contexts'[i].pid = contexts[i].pid
  BY <1>0, <1>1, <1>2, <1>11, Keeps
<1> QED
  BY <1>2, <1>4, <1>6, <1>12 DEF Shape

(* A process that is killed, its context u ejected.                        *)
LEMMA LivingKilled ==
  ASSUME NEW n \in Nat, NEW ps, NEW cs, NEW ids, Lists(ids, cs, n), ps \in [1 .. n -> Procs],
         NEW u \in 1 .. n, cs[u].pid \in 1 .. n, Living(ps, cs, n),
         NEW ds, ds[u].pid = NoPid, \A i \in 1 .. n : i # u => ds[i].pid = cs[i].pid
  PROVE  Living(Killed(ps, cs[u].pid), ds, n)
<1>1. PICK q \in 1 .. n : q = cs[u].pid
  OBVIOUS
<1>2. PICK qs : qs = Killed(ps, q)
  OBVIOUS
<1>3. qs = [ps EXCEPT ![q].alive = FALSE]
  BY <1>2 DEF Killed
<1>4. ~qs[q].alive /\ \A p \in 1 .. n : p # q => qs[p] = ps[p]
  BY <1>3 DEF Procs
<1>5. \A p \in 1 .. n : p # NoPid
  BY DEF NoPid
<1>6. ASSUME NEW p \in 1 .. n
      PROVE  qs[p].alive <=> \E t \in 1 .. n : ds[t].pid = p
  <2>1. CASE p = q
    <3>1. \A t \in 1 .. n : cs[t].pid = q => t = u
      BY <1>1, <1>5 DEF Lists
    <3> QED
      BY <1>4, <1>5, <2>1, <3>1
  <2>2. CASE p # q
    <3>1. ps[p].alive <=> \E t \in 1 .. n : cs[t].pid = p
      BY DEF Living
    <3> QED
      BY <1>1, <1>4, <1>5, <2>2, <3>1
  <2> QED
    BY <2>1, <2>2
<1> QED
  BY <1>1, <1>2, <1>6 DEF Living

LEMMA ExitStep ==
  ASSUME NEW n \in 0 .. MaxContexts, Shape(n), NEW t, Exit(t)
  PROVE  /\ Shape(n)' /\ contexts[left[Pos]].pid # NoPid
         /\ Living(procs, contexts, n) => Living(procs', contexts', n)
<1>0. /\ Table(procs, reports, n) /\ AllGood(contexts, n)
      /\ Lists(core_ids, contexts, n) /\ Control(n) /\ n \in Nat
  BY DEF Shape
<1>1. /\ Serves(t) /\ ~contexts[t].rob /\ core_ids' = Ejected(t) /\ reports' = reports
      /\ procs' = Killed(procs, contexts[t].pid)
  BY DEF Exit, MayCall
<1>2. t \in 1 .. n /\ Control(n)'
  BY <1>0, <1>1, ServesFacts
<1>3. contexts[t].pid \in 1 .. n /\ contexts[left[Pos]].pid # NoPid
  BY <1>0, <1>1, CallerLives
<1>4. PICK c, ds : c = AfterPoll[t] /\ ds = contexts'
  OBVIOUS
<1>5. Good(c, n)
  BY <1>0, <1>2, <1>4, AfterPollGood DEF AllGood
<1>6. PICK more \in BOOLEAN : ds = [AfterPoll EXCEPT ![t] = Entered(Flushed(c), more)]
  BY <1>4 DEF Exit
<1>7. PICK f : f = Flushed(c)
  OBVIOUS
<1>8. Good(f, n) /\ f.pid = NoPid
  BY <1>0, <1>5, <1>7, FlushedGood
<1>9. PICK v : v = Entered(f, more)
  OBVIOUS
<1>10. Good(v, n) /\ v.pid = NoPid
  BY <1>0, <1>8, <1>9, EnteredGood
<1>11. ServedAs(ds, t, v, n)
  <2>1. ds = [AfterPoll EXCEPT ![t] = v]
    BY <1>6, <1>7, <1>9
  <2> QED
    BY <1>0, <1>2, <1>10, <2>1, ServedGood
<1>12. /\ AllGood(ds, n) /\ ds[t].pid = NoPid
       /\ \A i \in 1 .. n : i # t => ds[i].pid = contexts[i].pid
  BY <1>10, <1>11 DEF ServedAs
<1>13. AllGood(contexts', n) /\ Lists(core_ids', contexts', n)
  BY <1>0, <1>1, <1>2, <1>4, <1>12, Ejects
<1>14. Table(procs', reports', n)
  BY <1>0, <1>1, TableKilled
<1>15. ASSUME Living(procs, contexts, n) PROVE Living(procs', contexts', n)
  <2>1. procs \in [1 .. n -> Procs]
    BY <1>0 DEF Table
  <2>2. Living(Killed(procs, contexts[t].pid), ds, n)
    BY <1>0, <1>2, <1>3, <1>12, <1>15, <2>1, LivingKilled
  <2> QED
    BY <1>1, <1>4, <2>2
<1> QED
  BY <1>2, <1>3, <1>13, <1>14, <1>15 DEF Shape

LEMMA KillStep ==
  ASSUME NEW n \in 0 .. MaxContexts, Shape(n), NEW t, NEW call, NEW who \in DOMAIN procs,
         Kill(t, call, who)
  PROVE  /\ Shape(n)' /\ contexts[left[Pos]].pid # NoPid
         /\ call = "kill" /\ Living(procs, contexts, n) => Living(procs', contexts', n)
<1>0. /\ Table(procs, reports, n) /\ AllGood(contexts, n)
      /\ Lists(core_ids, contexts, n) /\ Control(n) /\ n \in Nat
      /\ who \in 1 .. n /\ DOMAIN contexts = 1 .. n
  BY DEF Shape, Table, AllGood
<1>u. PICK u : u = CHOOSE i \in DOMAIN contexts : contexts[i].pid = who
  OBVIOUS
<1>1. /\ Serves(t) /\ ~contexts[t].rob /\ core_ids' = Ejected(u) /\ reports' = reports
      /\ procs' = Killed(procs, IF call = "kill" THEN who ELSE NoPid)
      /\ \E i \in DOMAIN contexts : contexts[i].pid = who
  BY <1>u DEF Kill, MayCall
<1>2. t \in 1 .. n /\ Control(n)'
  BY <1>0, <1>1, ServesFacts
<1>3. contexts[left[Pos]].pid # NoPid
  BY <1>0, <1>1, CallerLives
<1>4. u \in 1 .. n /\ contexts[u].pid = who
  BY <1>0, <1>1, <1>u
<1>5. PICK cs, ds : cs = AfterPoll /\ ds = contexts'
  OBVIOUS
<1>6. AllGood(cs, n) /\ \A i \in 1 .. n : cs[i].pid = contexts[i].pid
  BY <1>0, <1>5, AfterPollGood DEF Like
<1>7. PICK more \in BOOLEAN :
        ds = [[cs EXCEPT ![u] = Flushed(@)] EXCEPT ![t] = Entered(@, more)]
  BY <1>5, <1>u DEF Kill
<1>8. PICK f, es : f = Flushed(cs[u]) /\ es = [cs EXCEPT ![u] = f]
  OBVIOUS
<1>9. Good(f, n) /\ f.pid = NoPid
  BY <1>0, <1>4, <1>6, <1>8, FlushedGood DEF AllGood
<1>10. AllGood(es, n)
  BY <1>0, <1>6, <1>8, <1>9, AllGoodExcept
<1>11. es[u].pid = NoPid /\ \A i \in 1 .. n : i # u => es[i].pid = contexts[i].pid
  BY <1>4, <1>6, <1>8, <1>9 DEF AllGood
<1>12. PICK v : v = Entered(es[t], more)
  OBVIOUS
<1>13. Good(v, n) /\ v.pid = es[t].pid
  BY <1>0, <1>2, <1>10, <1>12, EnteredGood DEF AllGood
<1>14. ds = [es EXCEPT ![t] = v]
  BY <1>7, <1>8, <1>12
<1>15. AllGood(ds, n)
  BY <1>0, <1>10, <1>13, <1>14, AllGoodExcept
<1>16. \A i \in 1 .. n : ds[i].pid = es[i].pid
  BY <1>2, <1>10, <1>13, <1>14 DEF AllGood
<1>17. ds[u].pid = NoPid /\ \A i \in 1 .. n : i # u => ds[i].pid = contexts[i].pid
  BY <1>4, <1>11, <1>16
<1>18. AllGood(contexts', n) /\ Lists(core_ids', contexts', n)
  BY <1>0, <1>1, <1>4, <1>5, <1>15, <1>17, Ejects
<1>19. Table(procs', reports', n)
  BY <1>0, <1>1, TableKilled
<1>20. ASSUME call = "kill", Living(procs, contexts, n)
       PROVE  Living(procs', contexts', n)
  <2>1. procs \in [1 .. n -> Procs]
    BY <1>0 DEF Table
  <2>2. Living(Killed(procs, contexts[u].pid), ds, n)
    BY <1>0, <1>4, <1>17, <1>20, <2>1, LivingKilled
  <2> QED
    BY <1>1, <1>4, <1>5, <1>20, <2>2
<1> QED
  BY <1>2, <1>3, <1>18, <1>19, <1>20 DEF Shape

LEMMA ForkStep ==
  ASSUME NEW n \in 0 .. MaxContexts, Shape(n), NEW t, Fork(t)
  PROVE  /\ n + 1 \in 0 .. MaxContexts /\ Shape(n + 1)' /\ contexts[left[Pos]].pid # NoPid
         /\ Living(procs, contexts, n) => Living(procs', contexts', n + 1)
<1>0. /\ Table(procs, reports, n) /\ AllGood(contexts, n)
      /\ Lists(core_ids, contexts, n) /\ Control(n) /\ n \in Nat
      /\ contexts \in [1 .. n -> Contexts] /\ procs \in [1 .. n -> Procs]
  BY DEF Shape, Table, AllGood
<1>1. Len(contexts) = n /\ Len(procs) = n
  BY <1>0, FunctionIsSeq
<1>2. /\ Serves(t) /\ ~contexts[t].rob /\ reports' = reports /\ Len(contexts) < MaxContexts
      /\ CoresWithRoom # {}
      /\ procs' = AddChild(Append(procs, NewProc), contexts[t].pid, n + 1)
      /\ core_ids' = Placed(n + 1)
  BY <1>1 DEF Fork, MayCall
<1>3. n < MaxContexts /\ n + 1 \in 0 .. MaxContexts /\ n + 1 \in AllPids /\ n + 1 # NoPid
  BY <1>0, <1>1, <1>2, ProcessAssumption DEF AllPids, NoPid
<1>4. t \in 1 .. n /\ Control(n)'
  BY <1>0, <1>2, ServesFacts
<1>5. contexts[t].pid \in 1 .. n /\ contexts[left[Pos]].pid # NoPid
  BY <1>0, <1>2, CallerLives
<1>6. PICK cs, ds, c : cs = AfterPoll /\ ds = contexts' /\ c = cs[t]
  OBVIOUS
<1>7. AllGood(cs, n) /\ \A i \in 1 .. n : cs[i].pid = contexts[i].pid
  BY <1>0, <1>6, AfterPollGood DEF Like
<1>8. PICK more \in BOOLEAN :
        ds = Append([cs EXCEPT ![t] = Entered(@, more)],
                    [cs[t] EXCEPT !.pid = n + 1, !.fetched = FALSE])
  BY <1>1, <1>6 DEF Fork
<1>9. PICK v, es, w : /\ v = Entered(c, more) /\ es = [cs EXCEPT ![t] = v]
                      /\ w = [c EXCEPT !.pid = n + 1, !.fetched = FALSE]
  OBVIOUS
<1>10. Good(c, n) /\ c \in Contexts
  BY <1>4, <1>6, <1>7 DEF AllGood, Good
<1>11. Good(v, n) /\ v.pid = contexts[t].pid
  <2>1. c.pid = contexts[t].pid
    BY <1>4, <1>6, <1>7
  <2>2. Good(Entered(c, more), n) /\ Entered(c, more).pid = c.pid
    BY <1>0, <1>10, EnteredGood
  <2> QED
    BY <1>9, <2>1, <2>2
<1>12. AllGood(es, n)
  BY <1>0, <1>7, <1>9, <1>11, AllGoodExcept
<1>13. \A i \in 1 .. n : es[i].pid = contexts[i].pid
  BY <1>4, <1>7, <1>9, <1>11 DEF AllGood
<1>14. Good(w, n + 1) /\ w.pid = n + 1 /\ w \in Contexts
  <2>1. n + 1 \in 1 .. n + 1
    BY <1>0
  <2>2. /\ w.pid = n + 1 /\ w \in Contexts /\ w.wait = c.wait /\ w.select = c.select
        /\ w.waiting_for = c.waiting_for /\ w.next_check = c.next_check
    BY <1>3, <1>9, <1>10 DEF Contexts
  <2> QED
    BY <1>3, <1>10, <2>1, <2>2 DEF Good
<1>15. /\ ds \in [1 .. n + 1 -> Contexts] /\ ds[n + 1] = w
       /\ \A i \in 1 .. n : ds[i] = es[i]
  <2>1. es \in Seq(Contexts) /\ Len(es) = n
    BY <1>0, <1>12, FunctionIsSeq DEF AllGood
  <2>2. ds = Append(es, w)
    BY <1>6, <1>8, <1>9
  <2>3. /\ ds \in Seq(Contexts) /\ Len(ds) = n + 1 /\ ds[n + 1] = w
        /\ \A i \in 1 .. n : ds[i] = es[i]
    BY <1>14, <2>1, <2>2, AppendProperties
  <2> QED
    BY <2>3, SeqIsFunction
<1>16. \A i \in 1 .. n + 1 : i \in 1 .. n \/ i = n + 1
  BY <1>0
<1>17. AllGood(ds, n + 1)
  <2>1. \A i \in 1 .. n : Good(es[i], n + 1)
    BY <1>12, GoodMonotonic DEF AllGood
  <2> QED
    BY <1>14, <1>15, <1>16, <2>1 DEF AllGood
<1>18. PICK e : e = Min(CoresWithRoom)
  OBVIOUS
<1>19. e \in Cores /\ Len(core_ids[e]) < MaxPerCore
  <2>1. CoresWithRoom \subseteq Nat
    BY ProcessAssumption DEF CoresWithRoom, Cores
  <2>2. e \in CoresWithRoom
    BY <1>2, <1>18, <2>1, MinFacts
  <2> QED
    BY <2>2 DEF CoresWithRoom
<1>20. Lists(core_ids', ds, n + 1)
  <2>1. ASSUME NEW i \in 1 .. n
        PROVE  ds[i].pid = contexts[i].pid /\ ds[i].pid # ds[n + 1].pid
    <3>1. ds[i].pid = contexts[i].pid
      BY <1>13, <1>15
    <3>2. contexts[i].pid \in 1 .. n \cup {NoPid}
      BY <1>0 DEF AllGood, Good
    <3> QED
      BY <1>0, <1>3, <1>14, <1>15, <3>1, <3>2
  <2>2. ds[n + 1].pid # NoPid
    BY <1>3, <1>14, <1>15
  <2>3. Lists([core_ids EXCEPT ![e] = Append(@, n + 1)], ds, n + 1)
    BY <1>0, <1>19, <2>1, <2>2, ListsPlaced
  <2> QED
    BY <1>2, <1>18, <2>3 DEF Placed
<1>21. PICK p \in 1 .. n : p = contexts[t].pid
  BY <1>5
<1>22. LET qs == AddChild(Append(procs, NewProc), p, n + 1)
       IN  /\ Table(qs, reports, n + 1)
           /\ qs[n + 1].alive
           /\ \A i \in 1 .. n : qs[i].alive = procs[i].alive
  BY <1>0, <1>3, TableForked
<1>23. /\ Table(procs', reports', n + 1) /\ procs'[n + 1].alive
       /\ \A i \in 1 .. n : procs'[i].alive = procs[i].alive
  BY <1>2, <1>21, <1>22
<1>24. Control(n + 1)'
  <2>1. Control(n + 1)
    BY <1>0, ControlMonotonic
  <2>2. left' = left
    BY <1>2 DEF Serves
  <2> QED
    BY <1>4, <2>1, <2>2 DEF Control
<1>25. ASSUME Living(procs, contexts, n) PROVE Living(procs', contexts', n + 1)
  <2>1. PICK qs : qs = procs'
    OBVIOUS
  <2>2. ASSUME NEW i \in 1 .. n + 1
        PROVE  qs[i].alive <=> \E j \in 1 .. n + 1 : ds[j].pid = i
    <3>1. n + 1 \in 1 .. n + 1 /\ ds[n + 1].pid = n + 1 /\ 1 .. n \subseteq 1 .. n + 1
          /\ n + 1 \notin 1 .. n
      BY <1>0, <1>14, <1>15
    <3>2. CASE i = n + 1
      BY <1>23, <2>1, <3>1, <3>2
    <3>3. CASE i # n + 1
      <4>1. i \in 1 .. n
        BY <1>16, <3>3
      <4>2. qs[i].alive <=> \E j \in 1 .. n : contexts[j].pid = i
        BY <1>23, <1>25, <2>1, <4>1 DEF Living
      <4>3. \A j \in 1 .. n : ds[j].pid = contexts[j].pid
        BY <1>13, <1>15
      <4> QED
        BY <1>16, <3>1, <3>3, <4>2, <4>3
    <3> QED
      BY <3>2, <3>3
  <2>3. Living(qs, ds, n + 1)
    BY <2>2 DEF Living
  <2> QED
    BY <1>6, <2>1, <2>3
<1>26. Shape(n + 1)'
  BY <1>6, <1>17, <1>20, <1>23, <1>24 DEF Shape
<1> QED
  BY <1>3, <1>5, <1>25, <1>26

-----------------------------------------------------------------------------
(***************************************************************************)
(* The initial state: the programs are dealt out to the cores.             *)
(***************************************************************************)
LEMMA Product ==
  ASSUME NEW a \in Nat, NEW b \in Nat, NEW m \in Nat, a <= b
  PROVE  a * m <= b * m
<1>1. PICK d \in Nat : b = a + d
  BY b - a \in Nat
<1>2. (a + d) * m = a * m + d * m /\ a * m \in Nat /\ d * m \in Nat
  OBVIOUS
<1> QED
  BY <1>1, <1>2

(* Core c has d programs, the last of them at most the number of programs. *)
LEMMA DealtLength ==
  ASSUME NEW c \in Cores
  PROVE  LET d == (NumInit + NumCores - c) \div NumCores
         IN  /\ d \in 0 .. MaxPerCore
             /\ d * NumCores <= NumInit + NumCores - c
             /\ NumInit - c < d * NumCores
<1>1. PICK m \in Nat \ {0}, k \in Nat, M \in Nat :
        /\ m = NumCores /\ k = NumInit /\ M = MaxPerCore
        /\ k <= m * M /\ c \in 1 .. m
  BY ProcessAssumption DEF Cores
<1>2. PICK x \in Nat : x = k + m - c
  BY <1>1
<1>3. PICK d \in Int : d = x \div m
  BY <1>1
<1>4. d \in Nat /\ d * m <= x /\ x < d * m + m
  BY <1>1, <1>3
<1>5. d <= M
  <2> SUFFICES ASSUME ~(d <= M) PROVE FALSE
    OBVIOUS
  <2>1. M + 1 \in Nat /\ M + 1 <= d
    BY <1>4
  <2>2. (M + 1) * m <= d * m
    BY <1>4, <2>1, Product
  <2>3. (M + 1) * m = m * M + m /\ m * M \in Nat /\ d * m \in Nat
    BY <1>4
  <2> QED
    BY <1>1, <1>2, <1>4, <2>2, <2>3
<1>6. k - c < d * m
  BY <1>1, <1>2, <1>4
<1> QED
  BY <1>1, <1>2, <1>3, <1>4, <1>5, <1>6

(* Where a program is dealt to is determined by its number.                *)
LEMMA PlaceIsUnique ==
  ASSUME NEW m \in Nat \ {0}, NEW c \in 1 .. m, NEW e \in 1 .. m, NEW i \in Nat, NEW j \in Nat,
         c + i * m = e + j * m
  PROVE  c = e /\ i = j
<1>1. i * m \in Nat /\ j * m \in Nat
  OBVIOUS
<1>2. CASE i < j
  <2>1. (i + 1) * m <= j * m
    BY <1>2, i + 1 \in Nat, i + 1 <= j, Product
  <2>2. (i + 1) * m = i * m + m
    OBVIOUS
  <2> QED
    BY <1>1, <2>1, <2>2
<1>3. CASE j < i
  <2>1. (j + 1) * m <= i * m
    BY <1>3, j + 1 \in Nat, j + 1 <= i, Product
  <2>2. (j + 1) * m = j * m + m
    OBVIOUS
  <2> QED
    BY <1>1, <2>1, <2>2
<1>4. CASE i = j
  BY <1>1, <1>4
<1> QED
  BY <1>2, <1>3, <1>4

LEMMA DealtFacts ==
  ASSUME NEW c \in Cores
  PROVE  /\ Dealt(c) \in Seq(1 .. NumInit) /\ Len(Dealt(c)) <= MaxPerCore
         /\ \A i \in DOMAIN Dealt(c) : i - 1 \in Nat /\ Dealt(c)[i] = c + (i - 1) * NumCores
         /\ \A i \in Nat : c + i * NumCores <= NumInit => i + 1 \in DOMAIN Dealt(c)
<1>1. PICK m \in Nat \ {0}, k \in Nat, M \in Nat :
        m = NumCores /\ k = NumInit /\ M = MaxPerCore /\ c \in 1 .. m
  BY ProcessAssumption DEF Cores
<1>2. PICK d : d = (NumInit + NumCores - c) \div NumCores
  OBVIOUS
<1>3. /\ d \in 0 .. M /\ d * m <= k + m - c /\ k - c < d * m
  BY <1>1, <1>2, DealtLength
<1>4. d \in Nat /\ d <= M /\ c \in Nat /\ c >= 1 /\ c <= m
  BY <1>1, <1>3
<1>5. Dealt(c) = [i \in 1 .. d |-> c + (i - 1) * m]
  BY <1>1, <1>2 DEF Dealt
<1>6. ASSUME NEW i \in 1 .. d
      PROVE  i - 1 \in Nat /\ c + (i - 1) * m \in 1 .. k
  <2>1. PICK j \in Nat : j = i - 1 /\ j + 1 <= d
    BY <1>4
  <2>2. (j + 1) * m <= d * m
    BY <1>4, <2>1, j + 1 \in Nat, Product
  <2>3. (j + 1) * m = j * m + m /\ j * m \in Nat /\ d * m \in Nat
    BY <1>4
  <2>4. c + j * m <= k /\ c + j * m >= 1 /\ c + j * m \in Nat
    BY <1>3, <1>4, <2>2, <2>3
  <2> QED
    BY <2>1, <2>4
<1>7. Dealt(c) \in [1 .. d -> 1 .. k] /\ DOMAIN Dealt(c) = 1 .. d
  BY <1>5, <1>6
<1>8. Dealt(c) \in Seq(1 .. k) /\ Len(Dealt(c)) = d
  BY <1>4, <1>7, FunctionIsSeq
<1>9. ASSUME NEW i \in Nat, c + i * m <= k
      PROVE  i + 1 \in 1 .. d
  <2>1. CASE i + 1 <= d
    BY <1>4, <2>1
  <2>2. CASE d <= i
    <3>1. d * m <= i * m /\ d * m \in Nat /\ i * m \in Nat
      BY <1>4, <2>2, Product
    <3> QED
      BY <1>3, <1>4, <1>9, <3>1
  <2> QED
    BY <1>4, <2>1, <2>2
<1> QED
  BY <1>1, <1>4, <1>5, <1>6, <1>7, <1>8, <1>9

LEMMA DealtLists ==
  LET ids == [c \in Cores |-> Dealt(c)]
  IN  /\ ids \in [Cores -> Seq(1 .. NumInit)]
      /\ \A c \in Cores : Len(ids[c]) <= MaxPerCore
      /\ Apart(ids)
      /\ \A t \in 1 .. NumInit : \E c \in Cores : InSeq(t, ids[c])
<1> DEFINE ids == [c \in Cores |-> Dealt(c)]
<1>1. PICK m \in Nat \ {0} : m = NumCores /\ Cores = 1 .. m
  BY ProcessAssumption DEF Cores
<1>2. ids \in [Cores -> Seq(1 .. NumInit)] /\ \A c \in Cores : Len(ids[c]) <= MaxPerCore
  BY DealtFacts
<1>3. Apart(ids)
  <2> SUFFICES ASSUME NEW c \in Cores, NEW e \in Cores, NEW i \in DOMAIN Dealt(c),
                      NEW j \in DOMAIN Dealt(e), Dealt(c)[i] = Dealt(e)[j]
               PROVE  c = e /\ i = j
    BY DEF Apart
  <2>1. /\ i - 1 \in Nat /\ Dealt(c)[i] = c + (i - 1) * m
        /\ j - 1 \in Nat /\ Dealt(e)[j] = e + (j - 1) * m
    BY <1>1, DealtFacts
  <2>2. PICK x \in Nat, y \in Nat : x = i - 1 /\ y = j - 1
    BY <2>1
  <2>3. c + x * m = e + y * m /\ c \in 1 .. m /\ e \in 1 .. m
    BY <1>1, <2>1, <2>2
  <2>4. c = e /\ x = y
    BY <2>3, PlaceIsUnique
  <2>5. i \in Int /\ j \in Int
    <3>1. Dealt(c) \in Seq(1 .. NumInit) /\ Dealt(e) \in Seq(1 .. NumInit)
      BY DealtFacts
    <3> QED
      BY <3>1, SeqIsFunction
  <2> QED
    BY <2>2, <2>4, <2>5
<1>4. ASSUME NEW t \in 1 .. NumInit PROVE \E c \in Cores : InSeq(t, ids[c])
  <2>1. PICK k \in Nat : k = t - 1
    BY ProcessAssumption
  <2>2. PICK q \in Nat, r \in 0 .. m - 1 : k = q * m + r
    <3>1. PICK q \in Int : q = k \div m
      OBVIOUS
    <3>2. q \in Nat /\ q * m <= k /\ k < q * m + m
      BY <3>1
    <3>3. q * m \in Nat /\ k - q * m \in 0 .. m - 1 /\ k = q * m + (k - q * m)
      BY <3>2
    <3> QED
      BY <3>2, <3>3
  <2>3. q * m \in Nat /\ t = (r + 1) + q * m /\ r + 1 \in 1 .. m /\ t <= NumInit
    BY <2>1, <2>2, ProcessAssumption
  <2>4. PICK c \in Cores : c = r + 1
    BY <1>1, <2>3
  <2>5. c + q * NumCores <= NumInit
    BY <1>1, <2>3, <2>4
  <2>6. q + 1 \in DOMAIN Dealt(c)
    BY <2>5, DealtFacts
  <2>7. Dealt(c)[q + 1] = c + (q + 1 - 1) * NumCores
    BY <2>6, DealtFacts
  <2>8. q + 1 - 1 = q
    OBVIOUS
  <2>9. Dealt(c)[q + 1] = t
    BY <1>1, <2>3, <2>4, <2>7, <2>8
  <2> QED
    BY <2>6, <2>9 DEF InSeq
<1> QED
  BY <1>2, <1>3, <1>4

LEMMA StrongInit ==
  ASSUME Init
  PROVE  Strong
<1> DEFINE n == NumInit
<1>1. /\ n \in Nat /\ n \in 0 .. MaxContexts /\ 1 .. n \subseteq AllPids
      /\ MaxPerCore \in Nat \ {0} /\ Width \in Nat /\ Period \in Nat \ {0} /\ 1 \in Cores
      /\ SelectDelay \in Nat
  BY ProcessAssumption, PeriodAssumption DEF AllPids, Cores
<1> HIDE DEF n
<1>2. /\ procs = [p \in 1 .. n |-> NewProc] /\ reports = [p \in AllPids |-> 0]
      /\ contexts = [t \in 1 .. n |-> NewContext(t)]
      /\ core_ids = [c \in Cores |-> Dealt(c)]
  BY DEF Init, n
<1>3. /\ NewProc \in Procs /\ NewProc.parent = NoPid /\ NewProc.alive
      /\ Once(NewProc.children) /\ \A x : ~InSeq(x, NewProc.children)
  BY EmptySeq DEF NewProc, Procs, Once, InSeq
<1>4. Table(procs, reports, n)
  <2>1. \A p \in 1 .. n : procs[p] = NewProc /\ reports[p] = 0
    BY <1>1, <1>2
  <2>2. \A p \in 1 .. n : NoPid # p
    BY DEF NoPid
  <2>3. procs \in [1 .. n -> Procs] /\ reports \in [AllPids -> Nat]
    BY <1>2, <1>3
  <2>4. \A c \in AllPids \ (1 .. n) : reports[c] = 0
    BY <1>2
  <2> QED
    BY <1>3, <2>1, <2>2, <2>3, <2>4 DEF Table
<1>5. \A t \in 1 .. n : NewContext(t) \in Contexts /\ Good(NewContext(t), n)
                        /\ NewContext(t).pid = t
  BY <1>1 DEF NewContext, Contexts, Good, NoPid
<1>6. AllGood(contexts, n)
  BY <1>2, <1>5 DEF AllGood
<1>7. \A t \in 1 .. n : contexts[t].pid = t /\ t # NoPid
  BY <1>2, <1>5 DEF NoPid
<1>8. Lists(core_ids, contexts, n)
  BY <1>2, <1>7, DealtLists DEF Lists, n
<1>9. Control(n)
  <2>1. <<>> \in Seq(1 .. n) /\ Len(<<>>) = 0
    BY EmptySeq
  <2>2. 0 \in 0 .. MaxPerCore - 1 /\ 0 \in 0 .. Width /\ 0 \in 0 .. Period - 1
        /\ 0 <= MaxPerCore
    BY <1>1
  <2> QED
    BY <1>1, <2>1, <2>2 DEF Init, Control
<1>10. Living(procs, contexts, n)
  BY <1>2, <1>3, <1>7 DEF Living
<1> QED
  BY <1>1, <1>4, <1>6, <1>8, <1>9, <1>10 DEF Strong, Shape, n

-----------------------------------------------------------------------------
(***************************************************************************)
(* The theorems.                                                           *)
(***************************************************************************)
(* One step from a state of the invariant with n processes.                *)
LEMMA StrongStep ==
  ASSUME NEW n \in 0 .. MaxContexts, Shape(n), [Next]_vars
  PROVE  /\ \E k \in 0 .. MaxContexts :
              /\ Shape(k)'
              /\ "thread_kill" \notin Calls /\ Living(procs, contexts, n)
                   => Living(procs', contexts', k)
         /\ procs' # procs \/ core_ids' # core_ids => contexts[left[Pos]].pid # NoPid
<1>0. n \in Nat /\ DOMAIN procs = 1 .. n
  BY DEF Shape, Table
<1>1. Living(procs, contexts, n) /\ (\A i \in 1 .. n : procs'[i].alive = procs[i].alive)
        /\ (\A i \in 1 .. n : contexts'[i].pid = contexts[i].pid)
      => Living(procs', contexts', n)
  BY DEF Living
<1>2. CASE SkipCore \/ StartTurn \/ Stall \/ EndTurn
  <2>1. Shape(n)' /\ procs' = procs /\ \A i \in 1 .. n : contexts'[i].pid = contexts[i].pid
    BY <1>0, <1>2, TurnStep
  <2>2. core_ids' = core_ids
    BY <1>2 DEF SkipCore, StartTurn, Stall, EndTurn
  <2> QED
    BY <1>1, <2>1, <2>2
<1>3. ASSUME NEW t, \/ RenameOther(t) \/ ForkFails(t) \/ SelectPends(t)
                    \/ \E w \in DOMAIN procs \cup {ANY} : WaitPends(t, w)
      PROVE  /\ Shape(n)' /\ procs' = procs /\ core_ids' = core_ids
             /\ Living(procs, contexts, n) => Living(procs', contexts', n)
  <2>1. Shape(n)' /\ procs' = procs /\ core_ids' = core_ids
        /\ \A i \in 1 .. n : contexts'[i].pid = contexts[i].pid
    BY <1>3, LoopStep
  <2> QED
    BY <1>1, <2>1
<1>4. ASSUME NEW t, NEW w \in DOMAIN procs \cup {ANY}, WaitAnswered(t, w)
      PROVE  /\ Shape(n)' /\ contexts[left[Pos]].pid # NoPid
             /\ Living(procs, contexts, n) => Living(procs', contexts', n)
  <2>1. /\ Shape(n)' /\ contexts[left[Pos]].pid # NoPid
        /\ \A i \in 1 .. n : procs'[i].alive = procs[i].alive
        /\ \A i \in 1 .. n : contexts'[i].pid = contexts[i].pid
    BY <1>4, WaitStep
  <2> QED
    BY <1>1, <2>1
<1>5. ASSUME NEW t, NEW call, NEW who \in DOMAIN procs, Kill(t, call, who)
      PROVE  /\ Shape(n)' /\ contexts[left[Pos]].pid # NoPid
             /\ call = "kill" /\ Living(procs, contexts, n) => Living(procs', contexts', n)
  BY <1>5, KillStep
<1>6. ASSUME NEW t, Exit(t)
      PROVE  /\ Shape(n)' /\ contexts[left[Pos]].pid # NoPid
             /\ Living(procs, contexts, n) => Living(procs', contexts', n)
  BY <1>6, ExitStep
<1>7. ASSUME NEW t, Fork(t)
      PROVE  /\ n + 1 \in 0 .. MaxContexts /\ Shape(n + 1)' /\ contexts[left[Pos]].pid # NoPid
             /\ Living(procs, contexts, n) => Living(procs', contexts', n + 1)
  BY <1>7, ForkStep
<1>8. CASE UNCHANGED vars
  <2>1. Shape(n)' /\ procs' = procs /\ contexts' = contexts /\ core_ids' = core_ids
    BY <1>8 DEF vars, Shape, Control
  <2> QED
    BY <2>1
<1>9. CASE \E t \in DOMAIN contexts :
             RenameOther(t) \/ ForkFails(t) \/ SelectPends(t)
             \/ \E w \in DOMAIN procs \cup {ANY} : WaitPends(t, w)
  BY <1>3, <1>9
<1>10. CASE \E t \in DOMAIN contexts : \E w \in DOMAIN procs \cup {ANY} : WaitAnswered(t, w)
  BY <1>4, <1>10
<1>11. CASE \E t \in DOMAIN contexts : Exit(t)
  BY <1>6, <1>11
<1>12. CASE \E t \in DOMAIN contexts : Fork(t)
  BY <1>7, <1>12
<1>13. CASE \E t \in DOMAIN contexts :
              \E call \in {"kill", "thread_kill"}, who \in DOMAIN procs : Kill(t, call, who)
  <2>1. PICK t \in DOMAIN contexts, call \in {"kill", "thread_kill"}, who \in DOMAIN procs :
          Kill(t, call, who)
    BY <1>13
  <2>2. call \in Calls
    BY <2>1 DEF Kill, MayCall
  <2>3. "thread_kill" \notin Calls => call = "kill"
    BY <2>2
  <2> QED
    BY <1>5, <2>1, <2>3
<1> QED
  BY <1>2, <1>8, <1>9, <1>10, <1>11, <1>12, <1>13 DEF Next

LEMMA StrongHolds == Spec => []Strong
<1>1. Init => Strong
  BY StrongInit
<1>2. Strong /\ [Next]_vars => Strong'
  <2> SUFFICES ASSUME Strong, [Next]_vars PROVE Strong'
    OBVIOUS
  <2>1. PICK n \in 0 .. MaxContexts :
          Shape(n) /\ ("thread_kill" \notin Calls => Living(procs, contexts, n))
    BY DEF Strong
  <2>2. PICK k \in 0 .. MaxContexts :
          /\ Shape(k)'
          /\ "thread_kill" \notin Calls /\ Living(procs, contexts, n)
               => Living(procs', contexts', k)
    BY <2>1, StrongStep
  <2> QED
    BY <2>1, <2>2 DEF Strong
<1> QED
  BY <1>1, <1>2, PTL DEF Spec

LEMMA StrongMeans ==
  ASSUME Strong
  PROVE  /\ ProcTypeOK /\ PlacedOnce /\ WaitHasTarget /\ FamilyConsistent /\ ReportedOnce
         /\ "thread_kill" \notin Calls => AliveHasContext
<1>1. PICK n \in 0 .. MaxContexts :
        Shape(n) /\ ("thread_kill" \notin Calls => Living(procs, contexts, n))
  BY DEF Strong
<1>2. /\ Table(procs, reports, n) /\ AllGood(contexts, n)
      /\ Lists(core_ids, contexts, n) /\ Control(n) /\ n \in Nat /\ n <= MaxContexts
  BY <1>1, ProcessAssumption DEF Shape
<1>3. /\ procs \in Seq(Procs) /\ Len(procs) = n /\ DOMAIN procs = 1 .. n
      /\ contexts \in Seq(Contexts) /\ Len(contexts) = n /\ DOMAIN contexts = 1 .. n
  <2>1. procs \in [1 .. n -> Procs] /\ contexts \in [1 .. n -> Contexts]
    BY <1>2 DEF Table, AllGood
  <2> QED
    BY <1>2, <2>1, FunctionIsSeq
<1>4. ProcTypeOK
  BY <1>2, <1>3 DEF ProcTypeOK, Procs, Control, Lists, Table
<1>5. PlacedOnce
  BY <1>2, <1>3 DEF PlacedOnce, OnCore, Lists, Apart, InSeq
<1>6. WaitHasTarget
  BY <1>2, <1>3 DEF WaitHasTarget, AllGood, Good
<1>7. FamilyConsistent
  BY <1>2, <1>3 DEF FamilyConsistent, OnChildren, IsInjective, Table, InSeq, Once
<1>8. ReportedOnce
  BY <1>2, <1>3 DEF ReportedOnce, Table
<1>9. "thread_kill" \notin Calls => AliveHasContext
  BY <1>1, <1>3 DEF AliveHasContext, Living
<1> QED
  BY <1>4, <1>5, <1>6, <1>7, <1>8, <1>9

(* The table of processes, the contexts and the lists of the cores agree,  *)
(* whatever mix of fork, exit, wait4, select and kill the programs make.   *)
(* thread_kill breaks it: it tells the table to kill an address.           *)
THEOREM TablesAgree ==
  ASSUME "thread_kill" \notin Calls
  PROVE  Spec => []ProcessInv
<1>1. Strong => ProcessInv
  BY StrongMeans DEF ProcessInv
<1> QED
  BY <1>1, StrongHolds, PTL

(* Without that hypothesis all of it holds but the agreement on who lives. *)
THEOREM PlacesAgree == Spec => [](ProcTypeOK /\ PlacedOnce /\ WaitHasTarget)
<1>1. Strong => ProcTypeOK /\ PlacedOnce /\ WaitHasTarget
  BY StrongMeans
<1> QED
  BY <1>1, StrongHolds, PTL

(* A death is on record until wait4 reports it, and is reported once.      *)
THEOREM DeathsAreReported == Spec => []DeathsReported
<1>1. Strong => DeathsReported
  BY StrongMeans DEF DeathsReported
<1> QED
  BY <1>1, StrongHolds, PTL

(* is_retval_avail() ends a wait exactly when get_retval() has its answer, *)
(* or when the child that the wait names was reported already.             *)
THEOREM AnswersAreDelivered == Spec => []AnswerIsDelivered
<1>1. Strong => AnswerIsDelivered
  <2> SUFFICES ASSUME Strong, NEW p \in DOMAIN procs, NEW w \in DOMAIN procs \cup {ANY}
               PROVE  IsRetvalAvail(p, w) <=> \/ Answer(p, w) # {}
                                              \/ w # ANY /\ procs[w].parent = p /\ reports[w] = 1
    BY DEF AnswerIsDelivered
  <2>1. FamilyConsistent /\ ReportedOnce /\ ProcTypeOK
    BY StrongMeans
  <2>2. CASE w = ANY
    BY <2>2 DEF IsRetvalAvail, Answer
  <2>3. CASE w # ANY
    <3>1. /\ w \in DOMAIN procs /\ w \in AllPids
          /\ reports[w] \in Nat /\ reports[w] <= 1
          /\ (reports[w] = 1 => ~procs[w].alive)
      <4>1. PICK n \in 0 .. MaxContexts : Table(procs, reports, n)
        BY DEF Strong, Shape
      <4>2. w \in 1 .. n /\ 1 .. n \subseteq AllPids /\ reports \in [AllPids -> Nat]
        BY <2>3, <4>1, ProcessAssumption DEF Table, AllPids
      <4> QED
        BY <4>1, <4>2 DEF Table
    <3>2. OnChildren(p, w) <=> procs[w].parent = p /\ reports[w] = 0
      BY <2>1, <3>1 DEF FamilyConsistent
    <3>3. Answer(p, w) # {} <=> procs[w].parent = p /\ ~procs[w].alive /\ OnChildren(p, w)
      BY <2>3 DEF Answer, OnChildren
    <3>4. reports[w] = 0 \/ reports[w] = 1
      BY <3>1
    <3> QED
      BY <2>3, <3>1, <3>2, <3>3, <3>4 DEF IsRetvalAvail
  <2> QED
    BY <2>2, <2>3
<1> QED
  BY <1>1, StrongHolds, PTL

(* A context that was killed while the loop still had it on its list makes *)
(* no system call.                                                         *)
THEOREM DeadStaySilent == Spec => NoCallFromTheDead
<1>1. Strong /\ [Next]_vars
      => [procs' # procs \/ core_ids' # core_ids => contexts[left[Pos]].pid # NoPid]_vars
  BY StrongStep DEF Strong
<1> QED
  BY <1>1, StrongHolds, PTL DEF Spec, NoCallFromTheDead

=============================================================================
