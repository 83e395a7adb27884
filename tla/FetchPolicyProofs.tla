-------------------------- MODULE FetchPolicyProofs --------------------------
(***************************************************************************)
(* Proofs about FetchPolicy, for every number of contexts, every width and *)
(* every size of the queues.  FetchInv is inductive by itself.  For the    *)
(* slots it needs LoopInv: a context that was cut at a taken branch has    *)
(* left the list or is kept from fetching by discontinuous, and whoever is *)
(* no longer on the list has been served or cannot fetch.                  *)
(***************************************************************************)
EXTENDS FetchPolicy, TLAPS, FiniteSetTheorems, SequenceTheorems

(* What the assumption says of each constant, and of the contexts.         *)
LEMMA ConstantFacts ==
  /\ N \in Nat \ {0} /\ Width \in Nat \ {0}
  /\ IfqSize \in Nat \ {0} /\ RobSize \in Nat \ {0}
  /\ MissLat \in Nat \ {0} /\ Delay \in Nat /\ L1Lat \in Nat
  /\ Contexts \subseteq Nat /\ 0 \in Contexts
  /\ IsFiniteSet(Contexts)
<1>1. /\ N \in Nat \ {0} /\ Width \in Nat \ {0}
      /\ IfqSize \in Nat \ {0} /\ RobSize \in Nat \ {0}
      /\ MissLat \in Nat \ {0} /\ Delay \in Nat /\ L1Lat \in Nat
  BY FetchAssumption
<1>2. IsFiniteSet(0 .. N - 1)
  <2>1. 0 \in Int /\ N - 1 \in Int
    BY <1>1
  <2> QED
    BY <2>1, FS_Interval
<1> QED
  BY <1>1, <1>2 DEF Contexts

(* The first context leaves the list: the rest moves up by one place.      *)
LEMMA TailFacts ==
  ASSUME NEW S, NEW s \in Seq(S), s # <<>>
  PROVE  /\ Tail(s) \in Seq(S) /\ Len(Tail(s)) = Len(s) - 1
         /\ Len(s) \in Nat \ {0} /\ DOMAIN s = 1 .. Len(s)
         /\ DOMAIN Tail(s) = 1 .. Len(s) - 1
         /\ \A i \in DOMAIN Tail(s) : Tail(s)[i] = s[i + 1]
         /\ Head(s) = s[1] /\ Head(s) \in S
<1>1. Len(s) \in Nat /\ DOMAIN s = 1 .. Len(s)
  BY LenProperties
<1>2. Len(s) # 0
  BY EmptySeq
<1>3. /\ Tail(s) \in Seq(S) /\ Len(Tail(s)) = Len(s) - 1
      /\ \A i \in 1 .. Len(Tail(s)) : Tail(s)[i] = s[i + 1]
  BY HeadTailProperties
<1>4. DOMAIN Tail(s) = 1 .. Len(Tail(s))
  BY <1>3, LenProperties
<1>5. Head(s) = s[1] /\ Head(s) \in S
  BY HeadTailProperties
<1> QED
  BY <1>1, <1>2, <1>3, <1>4, <1>5

(* An instruction enters the fetch queue, or leaves it.                    *)
LEMMA QueueFacts ==
  ASSUME NEW S, NEW s \in Seq(S)
  PROVE  /\ Len(s) \in Nat
         /\ \A x \in S : Append(s, x) \in Seq(S) /\ Len(Append(s, x)) = Len(s) + 1
         /\ s # <<>> => Tail(s) \in Seq(S) /\ Len(Tail(s)) = Len(s) - 1
         /\ <<>> \in Seq(S) /\ Len(<<>>) = 0
BY LenProperties, AppendProperties, TailFacts, EmptySeq

-----------------------------------------------------------------------------
LEMMA InitInv == Init => FetchInv
<1> SUFFICES ASSUME Init PROVE FetchInv
  OBVIOUS
<1>1. \A t \in Contexts : ifq[t] = <<>> /\ Len(ifq[t]) = 0 /\ Rob(t) = 0
  BY DEF Init, None, Rob
<1>2. None \in [Contexts -> Nat] /\ None \in [Contexts -> 0 .. IfqSize + RobSize]
      /\ None \in [Contexts -> 0 .. MissLat - 1] /\ None \in [Contexts -> 0 .. L1Lat]
  BY ConstantFacts DEF None
<1>3. ifq \in [Contexts -> Seq(0 .. Delay + MissLat - 1)]
  BY QueueFacts, <1>1 DEF Init
<1>4. FetchTypeOK
  <2>1. left \in Seq(Contexts) \cup {Idle}
    BY DEF Init
  <2>2. IfqSize \in Nat /\ RobSize \in Nat /\ 0 \in Contexts
    BY ConstantFacts
  <2> QED
    BY <1>1, <1>2, <1>3, <2>1, <2>2 DEF Init, FetchTypeOK
<1>5. IcountExact
  BY <1>1 DEF Init, None, IcountExact
<1>6. FetchLimits
  BY ConstantFacts DEF Init, None, FetchLimits, FetchedFrom
<1> QED
  BY <1>4, <1>5, <1>6 DEF FetchInv

(* A stage leaves q, which has n instructions, in the fetch queue of t, and *)
(* r, i and x entries of its ROB renamed, in the issue queue and executed.  *)
Moved(t, q, n, r, i, x) ==
  /\ ifq' = [ifq EXCEPT ![t] = q]
  /\ renamed' = [renamed EXCEPT ![t] = r]
  /\ queued' = [queued EXCEPT ![t] = i]
  /\ executed' = [executed EXCEPT ![t] = x]
  /\ icount' = [icount EXCEPT ![t] = n + r + i]
  /\ DCRA_L1_misses' \in [Contexts -> 0 .. L1Lat]

(* A stage moves instructions of one context without losing count: the     *)
(* loop of fetch() is not running.                                         *)
LEMMA StageStep ==
  ASSUME FetchInv, Outside, NEW t \in Contexts,
         NEW q \in Seq(0 .. Delay + MissLat - 1), NEW n \in Nat,
         NEW r \in Nat, NEW i \in Nat, NEW x \in Nat,
         n = Len(q), n <= Len(ifq[t]), r + i + x <= RobSize,
         Moved(t, q, n, r, i, x)
  PROVE  FetchInv'
<1> USE DEF Moved
<1>1. \A u \in Contexts : Len(ifq[u]) \in Nat
  BY QueueFacts DEF FetchInv, FetchTypeOK
<1>2. Len(ifq[t]) <= IfqSize
  BY DEF FetchInv, FetchTypeOK
<1>3. n + r + i \in 0 .. IfqSize + RobSize
  BY <1>1, <1>2, ConstantFacts
<1>4. FetchTypeOK'
  <2>1. \A u \in Contexts : Len(ifq'[u]) <= IfqSize /\ Rob(u)' <= RobSize
    <3> SUFFICES ASSUME NEW u \in Contexts
                 PROVE  Len(ifq'[u]) <= IfqSize /\ Rob(u)' <= RobSize
      OBVIOUS
    <3>1. CASE u = t
      BY <3>1, <1>1, <1>2, ConstantFacts DEF FetchInv, FetchTypeOK, Rob
    <3>2. CASE u # t
      BY <3>2 DEF FetchInv, FetchTypeOK, Rob
    <3> QED
      BY <3>1, <3>2
  <2> QED
    BY <1>3, <2>1 DEF FetchInv, FetchTypeOK, Outside, loop
<1>5. IcountExact'
  BY DEF FetchInv, FetchTypeOK, IcountExact
<1>6. FetchLimits'
  BY DEF FetchInv, FetchLimits, FetchedFrom, Outside, loop
<1> QED
  BY <1>4, <1>5, <1>6 DEF FetchInv

(* A function is unchanged where it is assigned its own value.             *)
LEMMA Unchanged ==
  ASSUME NEW A, NEW B, NEW f \in [A -> B], NEW a \in A
  PROVE  f = [f EXCEPT ![a] = f[a]]
OBVIOUS

(* What the stages find of context t.                                      *)
LEMMA ContextFacts ==
  ASSUME FetchInv, NEW t \in Contexts
  PROVE  /\ ifq[t] \in Seq(0 .. Delay + MissLat - 1)
         /\ renamed[t] \in Nat /\ queued[t] \in Nat /\ executed[t] \in Nat
         /\ renamed[t] + queued[t] + executed[t] <= RobSize
         /\ Len(ifq[t]) \in Nat /\ Len(ifq[t]) <= IfqSize
         /\ icount[t] \in Int /\ icount[t] = Len(ifq[t]) + renamed[t] + queued[t]
         /\ ifq = [ifq EXCEPT ![t] = ifq[t]]
         /\ renamed = [renamed EXCEPT ![t] = renamed[t]]
         /\ queued = [queued EXCEPT ![t] = queued[t]]
         /\ executed = [executed EXCEPT ![t] = executed[t]]
         /\ icount = [icount EXCEPT ![t] = icount[t]]
         /\ DCRA_L1_misses \in [Contexts -> 0 .. L1Lat]
BY QueueFacts, Unchanged DEF FetchInv, FetchTypeOK, IcountExact, Rob

(* The stages outside fetch() keep every count.                            *)
LEMMA StagesStep ==
  ASSUME FetchInv, NEW t \in Contexts,
         \/ Rename(t) \/ RenameNop(t) \/ RenameRedirected(t)
         \/ Dispatch(t) \/ Execute(t) \/ Commit(t) \/ Rollback(t)
  PROVE  FetchInv'
<1>0. PICK n \in Nat, r \in Nat, q \in Nat, e \in Nat :
      n = Len(ifq[t]) /\ r = renamed[t] /\ q = queued[t] /\ e = executed[t]
  BY ContextFacts
<1>1. /\ icount[t] \in Int /\ icount[t] = n + r + q /\ r + q + e <= RobSize /\ RobSize \in Nat
      /\ Rob(t) = r + q + e
  BY <1>0, ContextFacts, ConstantFacts DEF Rob
<1>11. n \in Nat /\ r \in Nat /\ q \in Nat /\ e \in Nat
  BY <1>0
<1>12. IcountDrained(t) \in Int /\ IcountDrained(t) = r + q
  <2>1. icount[t] - n = r + q
    BY <1>1, <1>11
  <2> QED
    BY <1>0, <1>11, <2>1 DEF IcountDrained
<1>2. ASSUME Ripe(t)
      PROVE  /\ Tail(ifq[t]) \in Seq(0 .. Delay + MissLat - 1)
             /\ n - 1 \in Nat /\ n - 1 = Len(Tail(ifq[t])) /\ n - 1 <= n
  <2>1. ifq[t] # <<>> /\ ifq[t] \in Seq(0 .. Delay + MissLat - 1)
    BY <1>2, ContextFacts DEF Ripe
  <2>2. Len(ifq[t]) # 0 /\ Tail(ifq[t]) \in Seq(0 .. Delay + MissLat - 1)
        /\ Len(Tail(ifq[t])) = Len(ifq[t]) - 1
    BY <2>1, TailFacts
  <2> QED
    BY <1>0, <2>2
<1>3. /\ <<>> \in Seq(0 .. Delay + MissLat - 1) /\ 0 = Len(<<>>) /\ 0 <= n
      /\ ifq[t] \in Seq(0 .. Delay + MissLat - 1) /\ n <= n
  BY <1>0, QueueFacts, ContextFacts
<1>4. CASE Rename(t)
  <2>1. Ripe(t) /\ Rob(t) < RobSize /\ Outside
    BY <1>4 DEF Rename
  <2>2. /\ r + 1 \in Nat /\ (r + 1) + q + e <= RobSize
        /\ icount[t] = (n - 1) + (r + 1) + q
    BY <1>1, <2>1
  <2>3. Moved(t, Tail(ifq[t]), n - 1, r + 1, q, e)
    BY <1>0, <1>4, <2>2, ContextFacts DEF Rename, Moved
  <2> QED
    BY <1>0, <1>2, <2>1, <2>2, <2>3, StageStep, Zenon
<1>5. CASE RenameNop(t)
  <2>1. Ripe(t) /\ Outside
    BY <1>5 DEF RenameNop
  <2>2. icount[t] - 1 = (n - 1) + r + q /\ r + q + e <= RobSize
    BY <1>1
  <2>3. Moved(t, Tail(ifq[t]), n - 1, r, q, e)
    BY <1>0, <1>5, <2>2, ContextFacts DEF RenameNop, Moved
  <2> QED
    BY <1>0, <1>2, <2>1, <2>2, <2>3, StageStep, Zenon
<1>6. CASE RenameRedirected(t)
  <2>1. Rob(t) < RobSize /\ Outside
    BY <1>6 DEF RenameRedirected
  <2>2. /\ r + 1 \in Nat /\ (r + 1) + q + e <= RobSize
        /\ IcountDrained(t) + 1 = 0 + (r + 1) + q
    BY <1>1, <1>11, <1>12, <2>1
  <2>3. Moved(t, <<>>, 0, r + 1, q, e)
    BY <1>0, <1>6, <2>2, ContextFacts DEF RenameRedirected, Moved
  <2> QED
    BY <1>0, <1>3, <2>1, <2>2, <2>3, StageStep, ZenonT(60)
<1>7. CASE Dispatch(t)
  <2>1. r > 0 /\ Outside
    BY <1>0, <1>7 DEF Dispatch
  <2>2. /\ r - 1 \in Nat /\ q + 1 \in Nat /\ (r - 1) + (q + 1) + e <= RobSize
        /\ icount[t] = n + (r - 1) + (q + 1)
    BY <1>1, <2>1
  <2>3. Moved(t, ifq[t], n, r - 1, q + 1, e)
    BY <1>0, <1>7, <2>2, ContextFacts DEF Dispatch, Moved
  <2> QED
    BY <1>0, <1>3, <2>1, <2>2, <2>3, StageStep, ZenonT(60)
<1>8. CASE Execute(t)
  <2>1. q > 0 /\ Outside
    BY <1>0, <1>8 DEF Execute
  <2>2. /\ q - 1 \in Nat /\ e + 1 \in Nat /\ r + (q - 1) + (e + 1) <= RobSize
        /\ icount[t] - 1 = n + r + (q - 1)
    BY <1>1, <2>1
  <2>3. DCRA_L1_misses' \in [Contexts -> 0 .. L1Lat]
    <3>1. PICK lat \in {0, L1Lat} :
            DCRA_L1_misses' = [DCRA_L1_misses EXCEPT ![t] = IF lat > @ THEN lat ELSE @]
      BY <1>8 DEF Execute
    <3> QED
      BY <3>1, ContextFacts, ConstantFacts, 0 \in 0 .. L1Lat, L1Lat \in 0 .. L1Lat
  <2>4. Moved(t, ifq[t], n, r, q - 1, e + 1)
    BY <1>0, <1>8, <2>2, <2>3, ContextFacts DEF Execute, Moved
  <2> QED
    BY <1>0, <1>3, <2>1, <2>2, <2>4, StageStep, Zenon
<1>9. CASE Commit(t)
  <2>1. e > 0 /\ Outside
    BY <1>0, <1>9 DEF Commit
  <2>2. e - 1 \in Nat /\ r + q + (e - 1) <= RobSize
    BY <1>1, <2>1
  <2>3. Moved(t, ifq[t], n, r, q, e - 1)
    BY <1>0, <1>1, <1>9, ContextFacts DEF Commit, Moved
  <2> QED
    BY <1>0, <1>3, <2>1, <2>2, <2>3, StageStep, Zenon
<1>10. CASE Rollback(t)
  <2>1. PICK rr \in 0 .. r, qq \in 0 .. q - 1, ee \in 0 .. e :
          /\ renamed' = [renamed EXCEPT ![t] = rr]
          /\ queued' = [queued EXCEPT ![t] = qq]
          /\ executed' = [executed EXCEPT ![t] = ee + 1]
          /\ icount' = [icount EXCEPT ![t] = IcountDrained(t) - (r - rr) - (q - qq)]
    BY <1>0, <1>10, ZenonT(60) DEF Rollback
  <2>2. /\ rr \in Nat /\ qq \in Nat /\ ee + 1 \in Nat
        /\ rr + qq + (ee + 1) <= RobSize
        /\ IcountDrained(t) - (r - rr) - (q - qq) = 0 + rr + qq
    BY <1>1, <1>11, <1>12
  <2>3. Outside
    BY <1>10 DEF Rollback
  <2>4. Moved(t, <<>>, 0, rr, qq, ee + 1)
    BY <1>0, <1>10, <2>1, <2>2, ContextFacts DEF Rollback, Moved
  <2> QED
    BY <1>0, <1>3, <2>2, <2>3, <2>4, StageStep, ZenonT(60)
<1> QED
  BY <1>4, <1>5, <1>6, <1>7, <1>8, <1>9, <1>10

-----------------------------------------------------------------------------
(* The loop of fetch().                                                    *)

(* No list of contexts is the mark that fetch() is not running.            *)
LEMMA NotIdle == \A s \in Seq(Contexts) : s # Idle
<1> SUFFICES ASSUME NEW s \in Seq(Contexts), s = Idle PROVE FALSE
  OBVIOUS
<1>1. s # <<>> /\ Head(s) = -1
  BY DEF Idle
<1>2. Head(s) \in Contexts
  BY <1>1, TailFacts
<1> QED
  BY <1>1, <1>2, ConstantFacts

(* A list of SetToSeqs(S) has every member of S, once.                     *)
LEMMA ArrangementFacts ==
  ASSUME NEW S \in SUBSET Contexts, NEW s \in SetToSeqs(S)
  PROVE  /\ s \in Seq(Contexts)
         /\ \A i, j \in DOMAIN s : i # j => s[i] # s[j]
         /\ \A t \in S : \E i \in DOMAIN s : s[i] = t
<1> DEFINE D == 1 .. Cardinality(S)
<1>1. IsFiniteSet(S) /\ Cardinality(S) \in Nat
  BY ConstantFacts, FS_Subset, FS_CardinalityType
<1>2. s \in [D -> S] /\ \A i, j \in D : i # j => s[i] # s[j]
  BY DEF SetToSeqs
<1>3. IsFiniteSet(D) /\ Cardinality(D) = Cardinality(S)
  BY <1>1, FS_Interval
<1>4. s \in Injection(D, S)
  BY <1>2 DEF Injection, IsInjective
<1>5. s \in Surjection(D, S)
  BY <1>1, <1>3, <1>4, FS_Injection
<1>6. \A t \in S : \E i \in D : s[i] = t
  BY <1>5 DEF Surjection
<1>7. s \in Seq(Contexts)
  BY <1>1, <1>2, SeqDef
<1> QED
  BY <1>2, <1>6, <1>7

(* RR_fetch() turns the list: each context has one place on it.            *)
LEMMA RotationFacts ==
  ASSUME cycle \in Contexts
  PROVE  LET s == RR_fetch(ContextIds)
         IN  /\ s \in Seq(Contexts)
             /\ \A i, j \in DOMAIN s : i # j => s[i] # s[j]
             /\ \A t \in Contexts : \E i \in DOMAIN s : s[i] = t
<1> DEFINE s == RR_fetch(ContextIds)
<1>1. N \in Nat \ {0} /\ cycle \in 0 .. N - 1
  BY ConstantFacts DEF Contexts
<1>2. ASSUME NEW i \in 1 .. N
      PROVE  s[i] = IF cycle + i - 1 < N THEN cycle + i - 1 ELSE cycle + i - 1 - N
  <2>1. cycle + i - 1 \in Nat /\ cycle + i - 1 < 2 * N
    BY <1>1
  <2>2. (cycle + i - 1) % N = IF cycle + i - 1 < N THEN cycle + i - 1 ELSE cycle + i - 1 - N
    BY <1>1, <2>1
  <2>3. ((cycle + i - 1) % N) + 1 \in 1 .. N
    BY <1>1, <2>2
  <2>4. s[i] = ContextIds[((cycle + i - 1) % N) + 1]
    BY DEF RR_fetch
  <2>5. \A k \in 1 .. N : ContextIds[k] = k - 1
    BY DEF ContextIds
  <2>6. PICK x \in 0 .. N - 1 : x = (cycle + i - 1) % N
    BY <1>1, <2>3
  <2>7. x + 1 \in 1 .. N /\ s[i] = ContextIds[x + 1]
    BY <1>1, <2>4, <2>6
  <2>8. s[i] = x
    BY <1>1, <2>5, <2>7
  <2> QED
    BY <2>2, <2>6, <2>8
<1>3. DOMAIN s = 1 .. N
  BY DEF RR_fetch
<1>4. \A i \in 1 .. N : s[i] \in Contexts
  BY <1>1, <1>2 DEF Contexts
<1>5. s \in Seq(Contexts)
  <2>1. s = [i \in 1 .. N |-> s[i]]
    BY DEF RR_fetch
  <2>2. s \in [1 .. N -> Contexts]
    BY <1>4, <2>1
  <2> QED
    BY <1>1, <2>2, SeqDef
<1>6. ASSUME NEW i \in 1 .. N, NEW j \in 1 .. N, i # j PROVE s[i] # s[j]
  BY <1>1, <1>2, <1>6
<1>7. ASSUME NEW t \in Contexts PROVE \E i \in 1 .. N : s[i] = t
  <2> DEFINE i == IF t >= cycle THEN t - cycle + 1 ELSE t - cycle + 1 + N
  <2>1. i \in 1 .. N
    BY <1>1 DEF Contexts
  <2>2. s[i] = t
    BY <1>1, <1>2, <2>1 DEF Contexts
  <2> QED
    BY <2>1, <2>2
<1> QED
  BY <1>3, <1>5, <1>6, <1>7

(* Every policy makes a list on which a context is at most once, and only  *)
(* dcra_fetch() leaves contexts out: those that wait for a miss.           *)
LEMMA OrderFacts ==
  ASSUME FetchInv, NEW s \in Orders
  PROVE  /\ s \in Seq(Contexts)
         /\ \A i, j \in DOMAIN s : i # j => s[i] # s[j]
         /\ \A t \in Contexts : \/ \E i \in DOMAIN s : s[i] = t
                                \/ policy = "dcra" /\ Decayed(DCRA_L1_misses[t]) > 0
<1>1. policy \in {"icount", "round_robin", "dcra"}
  BY FetchAssumption DEF FetchInv, FetchTypeOK
<1>2. CASE policy = "icount"
  <2>1. s \in SetToSeqs(Contexts)
    BY <1>2 DEF Orders, ByIcount
  <2> QED
    BY <2>1, ArrangementFacts
<1>3. CASE policy = "round_robin"
  <2>1. s = RR_fetch(ContextIds)
    BY <1>3 DEF Orders
  <2> QED
    BY <2>1, RotationFacts DEF FetchInv, FetchTypeOK
<1>4. CASE policy = "dcra"
  <2> DEFINE S == {t \in Contexts : ~Blocked(t)}
  <2>1. s \in SetToSeqs(S)
    BY <1>4 DEF Orders, dcra_fetch, ByIcount
  <2>2. S \in SUBSET Contexts
    OBVIOUS
  <2>3. /\ s \in Seq(Contexts)
        /\ \A i, j \in DOMAIN s : i # j => s[i] # s[j]
        /\ \A t \in S : \E i \in DOMAIN s : s[i] = t
    BY <2>1, <2>2, ArrangementFacts, ZenonT(60)
  <2>4. \A t \in Contexts : t \in S \/ Decayed(DCRA_L1_misses[t]) > 0
    <3> SUFFICES ASSUME NEW t \in Contexts, t \notin S
                 PROVE  Decayed(DCRA_L1_misses[t]) > 0
      OBVIOUS
    <3>1. Decayed(DCRA_L1_misses[t]) # 0
      BY DEF Blocked, Fast
    <3>2. DCRA_L1_misses[t] \in Nat
      BY ConstantFacts DEF FetchInv, FetchTypeOK
    <3> QED
      BY <3>1, <3>2 DEF Decayed
  <2> QED
    BY <1>4, <2>3, <2>4
<1> QED
  BY <1>1, <1>2, <1>3, <1>4

(* A list without its first context.                                       *)
LEMMA OffList ==
  ASSUME NEW s \in Seq(Contexts), s # <<>>,
         \A i, j \in DOMAIN s : i # j => s[i] # s[j]
  PROVE  /\ \A i, j \in DOMAIN Tail(s) : i # j => Tail(s)[i] # Tail(s)[j]
         /\ ~ \E i \in DOMAIN Tail(s) : Tail(s)[i] = Head(s)
         /\ \A t : (\E i \in DOMAIN s : s[i] = t) =>
                     t = Head(s) \/ \E i \in DOMAIN Tail(s) : Tail(s)[i] = t
         /\ \A t : (\E i \in DOMAIN Tail(s) : Tail(s)[i] = t) => \E i \in DOMAIN s : s[i] = t
<1>1. /\ Tail(s) \in Seq(Contexts)
      /\ Len(s) \in Nat \ {0} /\ DOMAIN s = 1 .. Len(s)
      /\ DOMAIN Tail(s) = 1 .. Len(s) - 1
      /\ \A i \in DOMAIN Tail(s) : Tail(s)[i] = s[i + 1]
      /\ Head(s) = s[1]
  BY TailFacts
<1>2. \A i \in DOMAIN Tail(s) : i \in Int /\ i + 1 \in DOMAIN s /\ i + 1 # 1
  BY <1>1
<1>3. \A i \in DOMAIN s : i # 1 => i - 1 \in DOMAIN Tail(s) /\ (i - 1) + 1 = i
  BY <1>1
<1>4. \A i \in DOMAIN s : i # 1 => Tail(s)[i - 1] = s[i]
  BY <1>1, <1>3
<1>5. \A i, j \in DOMAIN Tail(s) : i # j => i + 1 # j + 1
  BY <1>1
<1>6. 1 \in DOMAIN s
  BY <1>1
<1>7. \A i, j \in DOMAIN Tail(s) : i # j => Tail(s)[i] # Tail(s)[j]
  BY <1>1, <1>2, <1>5
<1>8. ~ \E i \in DOMAIN Tail(s) : Tail(s)[i] = Head(s)
  BY <1>1, <1>2, <1>6
<1>9. ASSUME NEW i \in DOMAIN s
      PROVE  s[i] = Head(s) \/ \E j \in DOMAIN Tail(s) : Tail(s)[j] = s[i]
  BY <1>1, <1>3, <1>4
<1>10. ASSUME NEW i \in DOMAIN Tail(s) PROVE \E j \in DOMAIN s : s[j] = Tail(s)[i]
  BY <1>1, <1>2
<1> QED
  BY <1>7, <1>8, <1>9, <1>10

-----------------------------------------------------------------------------
(* FetchInv through the loop of fetch().                                   *)
LEMMA StartFetchStep ==
  ASSUME FetchInv, StartFetch
  PROVE  FetchInv'
<1>1. left' \in Seq(Contexts)
  BY OrderFacts DEF StartFetch
<1>2. DCRA_L1_misses' \in [Contexts -> 0 .. L1Lat]
  <2>1. DCRA_L1_misses \in [Contexts -> 0 .. L1Lat] /\ L1Lat \in Nat
    BY ConstantFacts DEF FetchInv, FetchTypeOK
  <2>2. \A t \in Contexts : Decayed(DCRA_L1_misses[t]) \in 0 .. L1Lat
    BY <2>1 DEF Decayed
  <2> QED
    BY <2>1, <2>2 DEF StartFetch
<1> QED
  BY <1>1, <1>2 DEF FetchInv, FetchTypeOK, IcountExact, FetchLimits, FetchedFrom, Rob, StartFetch

LEMMA SkipStep ==
  ASSUME FetchInv, Skip
  PROVE  FetchInv'
<1>1. left \in Seq(Contexts) /\ left # <<>>
  BY DEF FetchInv, FetchTypeOK, Skip, Fetching
<1>2. left' \in Seq(Contexts)
  BY <1>1, TailFacts DEF Skip
<1> QED
  BY <1>2 DEF FetchInv, FetchTypeOK, IcountExact, FetchLimits, FetchedFrom, Rob, Skip, pipeline

(* fetch() goes back to the two contexts that have fetched, or to a second *)
(* one when only one has.                                                  *)
LEMMA SlotsOfTwo ==
  ASSUME FetchInv, NEW t \in Contexts, ~ThirdContext, t = Head(left),
         fetched' = [fetched EXCEPT ![t] = @ + 1], slot' = slot + 1
  PROVE  \E a, b \in Contexts : /\ FetchedFrom' \subseteq {a, b}
                                /\ slot' = fetched'[a] + IF a = b THEN 0 ELSE fetched'[b]
<1>1. PICK a \in Contexts, b \in Contexts :
        /\ FetchedFrom \subseteq {a, b}
        /\ slot = fetched[a] + IF a = b THEN 0 ELSE fetched[b]
  BY DEF FetchInv, FetchLimits
<1>2. /\ fetched \in [Contexts -> Nat] /\ slot \in Nat
      /\ \A u \in Contexts : u \notin FetchedFrom => fetched[u] = 0
      /\ fetched'[t] = fetched[t] + 1 /\ fetched[t] \in Nat
      /\ \A u \in Contexts : u # t => fetched'[u] = fetched[u]
  <2>1. fetched \in [Contexts -> Nat] /\ slot \in Nat
    BY DEF FetchInv, FetchTypeOK
  <2> QED
    BY <2>1 DEF FetchedFrom
<1>3. FetchedFrom' \subseteq FetchedFrom \cup {t}
  BY <1>2 DEF FetchedFrom
<1>4. CASE t \in {a, b}
  <2>1. FetchedFrom' \subseteq {a, b}
    BY <1>1, <1>3, <1>4
  <2>2. slot' = fetched'[a] + IF a = b THEN 0 ELSE fetched'[b]
    BY <1>1, <1>2, <1>4
  <2> QED
    BY <2>1, <2>2
<1>5. CASE t \notin {a, b}
  <2>1. t \notin FetchedFrom
    BY <1>1, <1>5
  <2>2. ~(a # b /\ FetchedFrom = {a, b})
    <3>1. ASSUME a # b PROVE Cardinality({a, b}) = 2
      <4>1. IsFiniteSet({b}) /\ Cardinality({b}) = 1
        BY FS_Singleton
      <4>2. Cardinality({b} \cup {a}) = 2
        BY <3>1, <4>1, FS_AddElement, 1 + 1 = 2, a \notin {b}
      <4>3. {b} \cup {a} = {a, b}
        OBVIOUS
      <4> QED
        BY <4>2, <4>3
    <3> QED
      BY <3>1, <2>1 DEF ThirdContext
  <2>3. PICK c \in {a, b} : FetchedFrom \subseteq {c} /\ slot = fetched[c]
    <3>1. CASE a \in FetchedFrom /\ a # b
      <4>1. b \notin FetchedFrom
        BY <1>1, <2>2, <3>1
      <4> QED
        BY <1>1, <1>2, <3>1, <4>1
    <3>2. CASE a \notin FetchedFrom /\ a # b
      <4>1. FetchedFrom \subseteq {b} /\ fetched[a] = 0
        BY <1>1, <1>2, <3>2
      <4>2. slot = fetched[b]
        BY <1>1, <1>2, <3>2, <4>1
      <4> QED
        BY <4>1, <4>2
    <3>3. CASE a = b
      BY <1>1, <1>2, <3>3
    <3> QED
      BY <3>1, <3>2, <3>3
  <2>4. c \in Contexts /\ c # t /\ fetched'[c] = fetched[c] /\ fetched[t] = 0
    BY <1>2, <1>5, <2>1, <2>3
  <2>5. FetchedFrom' \subseteq {c, t} /\ slot' = fetched'[c] + fetched'[t]
    BY <1>2, <1>3, <2>3, <2>4
  <2> QED
    BY <2>4, <2>5
<1> QED
  BY <1>4, <1>5

LEMMA FetchOneStep ==
  ASSUME FetchInv, NEW t \in Contexts, FetchOne(t)
  PROVE  FetchInv'
<1>1. PICK lat \in {1} \cup {MissLat : c \in Large \cap {t}}, taken \in BOOLEAN :
       /\ ifq' = [ifq EXCEPT ![t] = Append(@, Delay + lat - 1)]
       /\ fetch_issue_delay' = [fetch_issue_delay EXCEPT ![t] = @ + lat - 1]
       /\ discontinuous' = FlagAfter(taken)
       /\ broke' = IF taken THEN broke \cup {t} ELSE broke
  BY DEF FetchOne
<1>2. /\ t = Head(left) /\ ~ThirdContext /\ slot < Width /\ left # Idle /\ left # <<>>
      /\ Len(ifq[t]) # IfqSize /\ ~(fetch_issue_delay[t] > 0)
      /\ icount' = [icount EXCEPT ![t] = @ + 1]
      /\ fetched' = [fetched EXCEPT ![t] = @ + 1]
      /\ slot' = slot + 1
      /\ UNCHANGED <<policy, cycle, renamed, queued, executed, DCRA_L1_misses, passed>>
  BY DEF FetchOne, Fetching, Cut
<1>3. lat \in 1 .. MissLat /\ Delay + lat - 1 \in 0 .. Delay + MissLat - 1
  BY ConstantFacts
<1>4. /\ ifq[t] \in Seq(0 .. Delay + MissLat - 1) /\ Len(ifq[t]) \in Nat /\ Len(ifq[t]) < IfqSize
      /\ renamed[t] \in Nat /\ queued[t] \in Nat /\ executed[t] \in Nat
      /\ renamed[t] + queued[t] + executed[t] <= RobSize
      /\ icount[t] \in Int /\ icount[t] = Len(ifq[t]) + renamed[t] + queued[t]
  <2>1. Len(ifq[t]) \in Nat /\ Len(ifq[t]) <= IfqSize /\ IfqSize \in Nat
    BY ContextFacts, ConstantFacts
  <2>2. Len(ifq[t]) < IfqSize
    BY <1>2, <2>1
  <2> QED
    BY <2>2, ContextFacts
<1>5. /\ ifq'[t] \in Seq(0 .. Delay + MissLat - 1) /\ Len(ifq'[t]) = Len(ifq[t]) + 1
      /\ \A u \in Contexts : u # t => ifq'[u] = ifq[u]
      /\ ifq' \in [Contexts -> Seq(0 .. Delay + MissLat - 1)]
  <2>1. /\ Append(ifq[t], Delay + lat - 1) \in Seq(0 .. Delay + MissLat - 1)
        /\ Len(Append(ifq[t], Delay + lat - 1)) = Len(ifq[t]) + 1
    BY <1>3, <1>4, QueueFacts
  <2> QED
    BY <1>1, <2>1 DEF FetchInv, FetchTypeOK
<1>6. icount[t] + 1 \in 0 .. IfqSize + RobSize
  <2>1. PICK n \in Nat, r \in Nat, q \in Nat, e \in Nat :
          /\ n < IfqSize /\ icount[t] = n + r + q /\ r + q + e <= RobSize
    BY <1>4
  <2>2. n \in Nat /\ r \in Nat /\ q \in Nat /\ e \in Nat /\ IfqSize \in Nat /\ RobSize \in Nat
    BY <2>1, ConstantFacts
  <2>3. n + r + q + 1 \in 0 .. IfqSize + RobSize
    BY <2>1, <2>2
  <2> QED
    BY <2>1, <2>3
<1>7. fetch_issue_delay' \in [Contexts -> 0 .. MissLat - 1]
  <2>0. fetch_issue_delay \in [Contexts -> 0 .. MissLat - 1] /\ MissLat \in Nat
    BY ConstantFacts DEF FetchInv, FetchTypeOK
  <2>1. fetch_issue_delay[t] = 0
    BY <1>2, <2>0
  <2>2. fetch_issue_delay[t] + lat - 1 \in 0 .. MissLat - 1
    BY <1>3, <2>1, ConstantFacts
  <2> QED
    BY <1>1, <2>2 DEF FetchInv, FetchTypeOK
<1>8. left' \in Seq(Contexts)
  <2>1. left \in Seq(Contexts)
    BY <1>2 DEF FetchInv, FetchTypeOK
  <2> QED
    BY <1>2, <2>1, TailFacts DEF FetchOne
<1>9. FetchTypeOK'
  <2>1. \A u \in Contexts : Len(ifq'[u]) <= IfqSize /\ Rob(u)' <= RobSize
    <3>1. \A u \in Contexts : Len(ifq[u]) <= IfqSize /\ Rob(u)' <= RobSize
      BY <1>2 DEF FetchInv, FetchTypeOK, Rob
    <3>2. Len(ifq[t]) + 1 <= IfqSize
      BY <1>4, ConstantFacts
    <3> QED
      BY <1>5, <3>1, <3>2
  <2>2. discontinuous' \in BOOLEAN
    BY <1>1 DEF FlagAfter
  <2>3. broke' \subseteq Contexts
    BY <1>1 DEF FetchInv, FetchTypeOK
  <2>4. /\ icount' \in [Contexts -> 0 .. IfqSize + RobSize]
        /\ fetched' \in [Contexts -> Nat] /\ slot' \in Nat
    <3>1. /\ icount \in [Contexts -> 0 .. IfqSize + RobSize]
          /\ fetched \in [Contexts -> Nat] /\ slot \in Nat
      BY DEF FetchInv, FetchTypeOK
    <3> QED
      BY <1>2, <1>6, <3>1
  <2> QED
    BY <1>2, <1>5, <1>7, <1>8, <2>1, <2>2, <2>3, <2>4 DEF FetchInv, FetchTypeOK
<1>10. IcountExact'
  <2> SUFFICES ASSUME NEW u \in Contexts
               PROVE  icount'[u] = Len(ifq'[u]) + renamed[u] + queued[u]
    BY <1>2 DEF IcountExact
  <2>1. CASE u = t
    <3>1. icount'[t] = icount[t] + 1
      BY <1>2 DEF FetchInv, FetchTypeOK
    <3>2. icount[t] + 1 = Len(ifq[t]) + 1 + renamed[t] + queued[t]
      BY <1>4, SMTT(30)
    <3> QED
      BY <1>5, <2>1, <3>1, <3>2
  <2>2. CASE u # t
    BY <1>2, <1>5, <2>2 DEF FetchInv, FetchTypeOK, IcountExact
  <2> QED
    BY <2>1, <2>2
<1>11. FetchLimits'
  <2>1. slot' <= Width
    BY <1>2, ConstantFacts DEF FetchInv, FetchTypeOK
  <2> QED
    BY <1>2, <2>1, SlotsOfTwo DEF FetchLimits
<1> QED
  BY <1>9, <1>10, <1>11 DEF FetchInv

LEMMA EndFetchStep ==
  ASSUME FetchInv, EndFetch
  PROVE  FetchInv'
<1>1. cycle' \in Contexts
  <2>1. cycle + 1 \in Nat /\ cycle' = (cycle + 1) % N
    BY ConstantFacts DEF EndFetch, FetchInv, FetchTypeOK
  <2> QED
    BY <2>1, ConstantFacts DEF Contexts
<1>2. \A t \in Contexts :
        /\ Len(ifq[t]) \in Nat
        /\ ifq'[t] \in Seq(0 .. Delay + MissLat - 1)
        /\ Len(ifq'[t]) = Len(ifq[t])
  <2> SUFFICES ASSUME NEW t \in Contexts
               PROVE  /\ Len(ifq[t]) \in Nat
                      /\ ifq'[t] \in Seq(0 .. Delay + MissLat - 1)
                      /\ Len(ifq'[t]) = Len(ifq[t])
    OBVIOUS
  <2>1. /\ ifq[t] \in Seq(0 .. Delay + MissLat - 1)
        /\ Len(ifq[t]) \in Nat /\ DOMAIN ifq[t] = 1 .. Len(ifq[t])
    BY LenProperties DEF FetchInv, FetchTypeOK
  <2>2. \A k \in 1 .. Len(ifq[t]) : ifq[t][k] \in 0 .. Delay + MissLat - 1
    BY <2>1, ElementOfSeq
  <2>3. \A k \in 1 .. Len(ifq[t]) : Decayed(ifq[t][k]) \in 0 .. Delay + MissLat - 1
    BY <2>2, ConstantFacts DEF Decayed
  <2>4. ifq'[t] = [k \in 1 .. Len(ifq[t]) |-> Decayed(ifq[t][k])]
    BY <2>1 DEF EndFetch
  <2>5. ifq'[t] \in [1 .. Len(ifq[t]) -> 0 .. Delay + MissLat - 1]
    BY <2>3, <2>4
  <2>6. ifq'[t] \in Seq(0 .. Delay + MissLat - 1)
    BY <2>1, <2>5, SeqDef
  <2> QED
    BY <2>1, <2>5, <2>6, LenProperties
<1>3. ifq' \in [Contexts -> Seq(0 .. Delay + MissLat - 1)]
  BY <1>2 DEF EndFetch
<1>4. fetch_issue_delay' \in [Contexts -> 0 .. MissLat - 1]
  <2>1. fetch_issue_delay \in [Contexts -> 0 .. MissLat - 1] /\ MissLat \in Nat
    BY ConstantFacts DEF FetchInv, FetchTypeOK
  <2>2. \A t \in Contexts : Decayed(fetch_issue_delay[t]) \in 0 .. MissLat - 1
    BY <2>1 DEF Decayed
  <2> QED
    BY <2>2 DEF EndFetch
<1>5. FetchTypeOK'
  <2>1. \A t \in Contexts : Len(ifq'[t]) <= IfqSize /\ Rob(t)' <= RobSize
    BY <1>2 DEF FetchInv, FetchTypeOK, Rob, EndFetch
  <2> QED
    BY <1>1, <1>3, <1>4, <2>1 DEF FetchInv, FetchTypeOK, EndFetch, None
<1>6. IcountExact'
  BY <1>2 DEF FetchInv, IcountExact, EndFetch
<1>7. FetchLimits'
  BY ConstantFacts DEF FetchLimits, FetchedFrom, EndFetch, None
<1> QED
  BY <1>5, <1>6, <1>7 DEF FetchInv

(* Every step keeps the counts exact.                                      *)
LEMMA NextStep == FetchInv /\ [Next]_vars => FetchInv'
<1> SUFFICES ASSUME FetchInv, [Next]_vars PROVE FetchInv'
  OBVIOUS
<1>1. ASSUME NEW t \in Contexts,
             \/ Rename(t) \/ RenameNop(t) \/ RenameRedirected(t)
             \/ Dispatch(t) \/ Execute(t) \/ Commit(t) \/ Rollback(t)
      PROVE  FetchInv'
  BY <1>1, StagesStep
<1>2. ASSUME NEW t \in Contexts, FetchOne(t) PROVE FetchInv'
  BY <1>2, FetchOneStep
<1>3. CASE StartFetch
  BY <1>3, StartFetchStep
<1>4. CASE Skip
  BY <1>4, SkipStep
<1>5. CASE EndFetch
  BY <1>5, EndFetchStep
<1>6. CASE UNCHANGED vars
  BY <1>6 DEF vars, pipeline, loop, FetchInv, FetchTypeOK, IcountExact, FetchLimits, FetchedFrom, Rob
<1> QED
  BY <1>1, <1>2, <1>3, <1>4, <1>5, <1>6 DEF Next

(* The counts of fetched instructions agree with each other and with the   *)
(* limits of fetch(), for every number of contexts and size of the queues. *)
THEOREM CountsAreExact == Spec => []FetchInv
<1>1. Init => FetchInv
  BY InitInv
<1>2. FetchInv /\ [Next]_vars => FetchInv'
  BY NextStep
<1> QED
  BY <1>1, <1>2, PTL DEF Spec

-----------------------------------------------------------------------------
(* The slots of a cycle.                                                   *)

OnList(t) == \E i \in DOMAIN left : left[i] = t

CannotFetch(t) == \/ fetched[t] > 0
                  \/ Len(ifq[t]) = IfqSize
                  \/ fetch_issue_delay[t] > 0
                  \/ policy = "dcra" /\ DCRA_L1_misses[t] > 0

(* While fetch() runs, a context is on the list at most once; who is off   *)
(* it has fetched or cannot; who was cut at a taken branch is off it, or   *)
(* first with discontinuous raised; and the flag is only up for a first    *)
(* context that has fetched.                                               *)
Running == /\ \A i, j \in DOMAIN left : i # j => left[i] # left[j]
           /\ \A t \in Contexts : OnList(t) \/ CannotFetch(t)
           /\ \A t \in broke : ~OnList(t) \/ (discontinuous /\ Head(left) = t)
           /\ discontinuous => left # <<>> /\ fetched[Head(left)] > 0

LoopInv == /\ left = Idle => slot = 0 /\ fetched = None /\ broke = {} /\ ~discontinuous
           /\ left # Idle => Running

LEMMA InitLoop == Init => LoopInv
BY DEF Init, LoopInv

(* No stage works while fetch() runs.                                      *)
LEMMA OutsideLoop == LoopInv /\ Outside => LoopInv'
BY DEF LoopInv, Outside, loop

LEMMA StartFetchLoop ==
  ASSUME FetchInv, LoopInv, StartFetch
  PROVE  LoopInv'
<1>1. /\ left' \in Seq(Contexts)
      /\ \A i, j \in DOMAIN left' : i # j => left'[i] # left'[j]
      /\ \A t \in Contexts : \/ \E i \in DOMAIN left' : left'[i] = t
                             \/ policy = "dcra" /\ Decayed(DCRA_L1_misses[t]) > 0
  BY OrderFacts DEF StartFetch
<1>2. left' # Idle
  BY <1>1, NotIdle
<1>3. \A t \in Contexts : OnList(t)' \/ CannotFetch(t)'
  <2> SUFFICES ASSUME NEW t \in Contexts, ~OnList(t)'
               PROVE  CannotFetch(t)'
    OBVIOUS
  <2>1. policy = "dcra" /\ Decayed(DCRA_L1_misses[t]) > 0
    BY <1>1 DEF OnList
  <2>2. policy' = "dcra" /\ DCRA_L1_misses'[t] = Decayed(DCRA_L1_misses[t])
    BY <2>1 DEF StartFetch
  <2> QED
    BY <2>1, <2>2 DEF CannotFetch
<1>4. broke' = {} /\ ~discontinuous'
  BY DEF StartFetch, LoopInv
<1> QED
  BY <1>1, <1>2, <1>3, <1>4 DEF LoopInv, Running

(* The first context leaves the list: if it cannot fetch, the loop goes on *)
(* as it should.                                                           *)
LEMMA LeaveLoop ==
  ASSUME Running, left \in Seq(Contexts), left # <<>>, left' = Tail(left),
         NEW h \in Contexts, h = Head(left),
         ~discontinuous', broke' \subseteq broke \cup {h}, broke \subseteq Contexts,
         \A t \in Contexts : CannotFetch(t) => CannotFetch(t)',
         CannotFetch(h)'
  PROVE  LoopInv'
<1>1. left' \in Seq(Contexts) /\ left' # Idle
  BY TailFacts, NotIdle
<1>2. /\ \A i, j \in DOMAIN left' : i # j => left'[i] # left'[j]
      /\ ~ \E i \in DOMAIN left' : left'[i] = h
      /\ \A t : (\E i \in DOMAIN left : left[i] = t) =>
                  t = h \/ \E i \in DOMAIN left' : left'[i] = t
      /\ \A t : (\E i \in DOMAIN left' : left'[i] = t) => \E i \in DOMAIN left : left[i] = t
  BY OffList, ZenonT(60) DEF Running
<1>3. /\ ~OnList(h)'
      /\ \A t : OnList(t) => t = h \/ OnList(t)'
      /\ \A t : OnList(t)' => OnList(t)
  BY <1>2 DEF OnList
<1>4. \A t \in Contexts : OnList(t)' \/ CannotFetch(t)'
  BY <1>3 DEF Running
<1>5. \A t \in broke' : ~OnList(t)'
  BY <1>3 DEF Running
<1> QED
  BY <1>1, <1>2, <1>4, <1>5 DEF LoopInv, Running

LEMMA SkipLoop ==
  ASSUME FetchInv, LoopInv, Skip
  PROVE  LoopInv'
<1>1. /\ left # Idle /\ left # <<>> /\ left' = Tail(left) /\ ~discontinuous'
      /\ Cut(Head(left))
      /\ UNCHANGED <<policy, ifq, fetch_issue_delay, DCRA_L1_misses, fetched, broke>>
  BY DEF Skip, Fetching, pipeline
<1>2. left \in Seq(Contexts) /\ Running
  BY <1>1 DEF FetchInv, FetchTypeOK, LoopInv
<1>3. \A t \in Contexts : CannotFetch(t) => CannotFetch(t)'
  BY <1>1 DEF CannotFetch
<1>4. PICK h \in Contexts : h = Head(left)
  BY <1>1, <1>2, TailFacts
<1>5. CannotFetch(h)
  BY <1>1, <1>2, <1>4 DEF CannotFetch, Cut, Running
<1>6. broke' \subseteq broke \cup {h} /\ broke \subseteq Contexts
  BY <1>1 DEF FetchInv, FetchTypeOK
<1> QED
  BY <1>1, <1>2, <1>3, <1>4, <1>5, <1>6, LeaveLoop

LEMMA FetchOneLoop ==
  ASSUME FetchInv, LoopInv, NEW t \in Contexts, FetchOne(t)
  PROVE  LoopInv'
<1>1. PICK taken \in BOOLEAN :
       /\ discontinuous' = FlagAfter(taken)
       /\ broke' = IF taken THEN broke \cup {t} ELSE broke
  BY DEF FetchOne
<1>2. /\ t = Head(left) /\ left # Idle /\ left # <<>> /\ ~discontinuous
      /\ Len(ifq[t]) # IfqSize /\ ~(fetch_issue_delay[t] > 0)
      /\ fetched' = [fetched EXCEPT ![t] = @ + 1]
      /\ left' = IF HalfUsed /\ Len(left) > 1 THEN Tail(left) ELSE left
      /\ policy' = policy /\ DCRA_L1_misses' = DCRA_L1_misses
  BY DEF FetchOne, Fetching, Cut
<1>3. left \in Seq(Contexts) /\ Running
  BY <1>2 DEF FetchInv, FetchTypeOK, LoopInv
<1>4. fetched \in [Contexts -> Nat] /\ fetched'[t] > 0
      /\ \A u \in Contexts : u # t => fetched'[u] = fetched[u]
  <2>1. fetched \in [Contexts -> Nat]
    BY DEF FetchInv, FetchTypeOK
  <2> QED
    BY <1>2, <2>1
<1>5. \A u \in Contexts : u # t => ifq'[u] = ifq[u] /\ fetch_issue_delay'[u] = fetch_issue_delay[u]
  BY DEF FetchOne, FetchInv, FetchTypeOK
<1>6. \A u \in Contexts : CannotFetch(u) => CannotFetch(u)'
  BY <1>2, <1>4, <1>5 DEF CannotFetch
<1>7. CannotFetch(t)'
  BY <1>4 DEF CannotFetch
<1>8. CASE HalfUsed /\ Len(left) > 1
  <2>1. /\ ~discontinuous' /\ left' = Tail(left)
        /\ broke' \subseteq broke \cup {t} /\ broke \subseteq Contexts
    BY <1>1, <1>2, <1>8 DEF FlagAfter, FetchInv, FetchTypeOK
  <2> QED
    BY <1>2, <1>3, <1>6, <1>7, <2>1, LeaveLoop
<1>9. CASE ~(HalfUsed /\ Len(left) > 1)
  <2>1. discontinuous' = taken /\ left' = left
    BY <1>1, <1>2, <1>9 DEF FlagAfter
  <2>2. \A u : OnList(u)' <=> OnList(u)
    BY <2>1 DEF OnList
  <2>3. \A u \in Contexts : OnList(u)' \/ CannotFetch(u)'
    BY <1>3, <1>6, <2>2 DEF Running
  <2>4. \A u \in broke : ~OnList(u)
    BY <1>2, <1>3 DEF Running
  <2>5. \A u \in broke' : ~OnList(u)' \/ (discontinuous' /\ Head(left') = u)
    BY <1>1, <1>2, <2>1, <2>2, <2>4
  <2> QED
    BY <1>2, <1>3, <1>4, <2>1, <2>3, <2>5 DEF LoopInv, Running
<1> QED
  BY <1>8, <1>9

LEMMA EndFetchLoop == EndFetch => LoopInv'
BY DEF EndFetch, LoopInv

LEMMA LoopStep == FetchInv /\ LoopInv /\ [Next]_vars => LoopInv'
<1> SUFFICES ASSUME FetchInv, LoopInv, [Next]_vars PROVE LoopInv'
  OBVIOUS
<1>1. ASSUME NEW t \in Contexts,
             \/ Rename(t) \/ RenameNop(t) \/ RenameRedirected(t)
             \/ Dispatch(t) \/ Execute(t) \/ Commit(t) \/ Rollback(t)
      PROVE  LoopInv'
  BY <1>1, OutsideLoop DEF Rename, RenameNop, RenameRedirected, Dispatch, Execute, Commit, Rollback
<1>2. ASSUME NEW t \in Contexts, FetchOne(t) PROVE LoopInv'
  BY <1>2, FetchOneLoop
<1>3. CASE StartFetch
  BY <1>3, StartFetchLoop
<1>4. CASE Skip
  BY <1>4, SkipLoop
<1>5. CASE EndFetch
  BY <1>5, EndFetchLoop
<1>6. CASE UNCHANGED vars
  BY <1>6 DEF vars, pipeline, loop, LoopInv, Running, OnList, CannotFetch
<1> QED
  BY <1>1, <1>2, <1>3, <1>4, <1>5, <1>6 DEF Next

(* A context cut at a taken branch is not the one that fetches.            *)
LEMMA CutFetchesNoMore ==
  ASSUME FetchInv, LoopInv, [Next]_vars
  PROVE  [\A t \in broke : ~EndFetch => fetched'[t] = fetched[t]]_vars
<1> SUFFICES ASSUME Next, NEW t \in broke, ~EndFetch
             PROVE  fetched'[t] = fetched[t]
  BY DEF vars, loop
<1>1. t \in Contexts /\ fetched \in [Contexts -> Nat]
  BY DEF FetchInv, FetchTypeOK
<1>2. CASE fetched' = fetched
  BY <1>2
<1>3. CASE \E u \in Contexts : FetchOne(u)
  <2>1. PICK u \in Contexts : FetchOne(u)
    BY <1>3
  <2>2. left # Idle /\ left # <<>> /\ u = Head(left) /\ ~discontinuous
        /\ fetched' = [fetched EXCEPT ![u] = @ + 1]
    BY <2>1 DEF FetchOne, Fetching, Cut
  <2>3. ~OnList(t)
    BY <2>2 DEF LoopInv, Running
  <2>4. left \in Seq(Contexts)
    BY <2>2 DEF FetchInv, FetchTypeOK
  <2>5. u = left[1] /\ 1 \in DOMAIN left
    BY <2>2, <2>4, TailFacts
  <2>6. t # u
    BY <2>3, <2>5 DEF OnList
  <2> QED
    BY <1>1, <2>2, <2>6
<1> QED
  BY <1>2, <1>3 DEF Next, Rename, RenameNop, RenameRedirected, Dispatch, Execute, Commit,
       Rollback, Outside, loop, StartFetch, Skip

(* fetch() ends early only when the list is used up, or at a third context. *)
LEMMA EndsWithWorkDone ==
  ASSUME FetchInv, LoopInv, EndFetch, slot < Width, NEW t \in Contexts
  PROVE  \/ fetched[t] > 0
         \/ Len(ifq[t]) = IfqSize
         \/ fetch_issue_delay[t] > 0
         \/ policy = "dcra" /\ DCRA_L1_misses[t] > 0
         \/ Cardinality(FetchedFrom) = 2
<1>1. Running
  BY DEF LoopInv, EndFetch
<1>2. CASE left = <<>>
  BY <1>1, <1>2 DEF Running, OnList, CannotFetch
<1>3. CASE left # <<>>
  <2>1. Fetching
    BY <1>3 DEF Fetching, EndFetch
  <2> QED
    BY <2>1 DEF EndFetch, ThirdContext
<1> QED
  BY <1>2, <1>3

(* The slots of a cycle go to those who may have them, and to all of them, *)
(* whatever the policy: no context fetches past its taken branch, and no   *)
(* slot is left empty that somebody on the list could have used.           *)
THEOREM SlotsAreWellSpent == Spec => SlotsWellSpent
<1>1. Init => FetchInv /\ LoopInv
  BY InitInv, InitLoop
<1>2. FetchInv /\ LoopInv /\ [Next]_vars => FetchInv' /\ LoopInv'
  BY NextStep, LoopStep
<1>3. FetchInv /\ LoopInv /\ [Next]_vars =>
        [\A t \in broke : ~EndFetch => fetched'[t] = fetched[t]]_vars
  BY CutFetchesNoMore
<1>4. FetchInv /\ LoopInv /\ [Next]_vars =>
        [EndFetch /\ slot < Width =>
           \A t \in Contexts : \/ fetched[t] > 0
                               \/ Len(ifq[t]) = IfqSize
                               \/ fetch_issue_delay[t] > 0
                               \/ policy = "dcra" /\ DCRA_L1_misses[t] > 0
                               \/ Cardinality(FetchedFrom) = 2]_vars
  BY EndsWithWorkDone
<1>5. Spec => OneBlockPerCycle
  BY <1>1, <1>2, <1>3, PTL DEF Spec, OneBlockPerCycle
<1>6. Spec => WorkConserving
  BY <1>1, <1>2, <1>4, PTL DEF Spec, WorkConserving
<1> QED
  BY <1>5, <1>6 DEF SlotsWellSpent

=============================================================================
