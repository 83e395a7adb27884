---------------------------- MODULE FrontEndProofs ----------------------------
(***************************************************************************)
(* Proofs about FrontEnd, in layers: what undoing a sequence of entries    *)
(* gives, the fetch ring as a sequence, the return stack, the tables of    *)
(* counters, the target buffer with its linked lists, the predictor, the   *)
(* chain of predictions in the queue; then the inductive invariant         *)
(* FollowsTheProgram, one lemma for each action, and the theorems.         *)
(***************************************************************************)
EXTENDS FrontEnd, TLAPS, WellFoundedInduction, FiniteSetTheorems

-----------------------------------------------------------------------------
(* The least of a set of numbers.                                          *)
LEMMA LeastNumber ==
  ASSUME NEW T, T \subseteq Nat, T # {}
  PROVE  \E x \in T : \A y \in T : x <= y
<1>. DEFINE R == {p \in Nat \X Nat : p[1] < p[2]}
<1>1. IsWellFoundedOn(R, Nat)
  BY NatLessThanWellFounded DEF OpToRel
<1>2. PICK x \in T : \A y \in T : ~ (<<y, x>> \in R)
  <2>. HIDE DEF R
  <2>. QED  BY <1>1, WFMin, Zenon
<1>3. \A y \in T : x <= y
  <2>. SUFFICES ASSUME NEW y \in T PROVE x <= y  OBVIOUS
  <2>1. <<y, x>> \notin R  BY <1>2
  <2>2. <<y, x>> \in Nat \X Nat  OBVIOUS
  <2>3. ~(y < x)  BY <2>1, <2>2
  <2>. QED  BY <2>3
<1>. QED  BY <1>3

(* Counting up from 0.                                                     *)
LEMMA CountingUp ==
  ASSUME NEW n \in Nat, NEW T, 0 \in T, \A k \in 1 .. n : k - 1 \in T => k \in T
  PROVE  0 .. n \subseteq T
<1>. SUFFICES ASSUME (0 .. n) \ T # {} PROVE FALSE  OBVIOUS
<1>1. PICK x \in (0 .. n) \ T : \A y \in (0 .. n) \ T : x <= y
  BY LeastNumber, (0 .. n) \ T \subseteq Nat
<1>. QED  BY <1>1

-----------------------------------------------------------------------------
(***************************************************************************)
(* Undoing the dropped entries one by one, youngest first, leaves at each  *)
(* register and address what the oldest entry that wrote there has kept.   *)
(***************************************************************************)
Keeps == [regs_index : Regs \cup {NoIndex}, regs_R : Values, is_store : BOOLEAN,
          addr : Values, previous_mem : Values]

Youngest(keeps, n) == {k \in DOMAIN keeps : k > Len(keeps) - n}
WritersOf(keeps, n, r) == {k \in Youngest(keeps, n) : keeps[k].regs_index = r}
StoresTo(keeps, n, a) ==
  {k \in Youngest(keeps, n) : keeps[k].is_store /\ keeps[k].addr = a}
Least(W) == CHOOSE x \in W : \A y \in W : x <= y

OldestKept(m, keeps, n) ==
  [reg |-> [r \in Regs |-> IF WritersOf(keeps, n, r) = {} THEN m.reg[r]
                           ELSE keeps[Least(WritersOf(keeps, n, r))].regs_R],
   mem |-> [a \in Values |-> IF StoresTo(keeps, n, a) = {} THEN m.mem[a]
                             ELSE keeps[Least(StoresTo(keeps, n, a))].previous_mem]]

LEMMA LeastIs ==
  ASSUME NEW W, W \subseteq Nat, NEW x \in W, \A y \in W : x <= y
  PROVE  Least(W) = x
<1>1. \A z \in W : (\A y \in W : z <= y) => z = x  OBVIOUS
<1>. QED  BY <1>1 DEF Least

LEMMA KeptOfOldest ==
  ASSUME NEW m \in Machines, NEW keeps \in Seq(Keeps), NEW n \in 1 .. Len(keeps)
  PROVE  OldestKept(m, keeps, n)
           = Undone(keeps[Len(keeps) - n + 1], OldestKept(m, keeps, n - 1))
<1>. DEFINE k0 == Len(keeps) - n + 1
            e == keeps[k0]
            u == OldestKept(m, keeps, n - 1)
<1>1. /\ k0 \in DOMAIN keeps /\ e \in Keeps
      /\ Youngest(keeps, n) = Youngest(keeps, n - 1) \cup {k0}
      /\ Youngest(keeps, n - 1) \subseteq Nat
      /\ \A k \in Youngest(keeps, n) : k0 <= k /\ k \in Nat
      /\ k0 \notin Youngest(keeps, n - 1)
  BY DEF Youngest
<1>2. ASSUME NEW r \in Regs
      PROVE  OldestKept(m, keeps, n).reg[r] = Undone(e, u).reg[r]
  <2>1. CASE e.regs_index = r
    <3>1. k0 \in WritersOf(keeps, n, r)  BY <1>1, <2>1 DEF WritersOf
    <3>2. Least(WritersOf(keeps, n, r)) = k0
      <4>1. WritersOf(keeps, n, r) \subseteq Nat  BY <1>1 DEF WritersOf
      <4>2. \A k \in WritersOf(keeps, n, r) : k0 <= k  BY <1>1 DEF WritersOf
      <4>. HIDE DEF k0
      <4>. QED  BY LeastIs, <3>1, <4>1, <4>2
    <3>3. OldestKept(m, keeps, n).reg[r] = e.regs_R  BY <3>1, <3>2 DEF OldestKept
    <3>4. e.regs_index # NoIndex  BY <2>1, RegsAssumption
    <3>. QED  BY <3>3, <3>4, <2>1 DEF Undone, OldestKept
  <2>2. CASE e.regs_index # r
    <3>1. WritersOf(keeps, n, r) = WritersOf(keeps, n - 1, r)
      BY <1>1, <2>2 DEF WritersOf
    <3>2. OldestKept(m, keeps, n).reg[r] = u.reg[r]  BY <3>1 DEF OldestKept
    <3>3. DOMAIN u.reg = Regs  BY DEF OldestKept
    <3>. QED  BY <3>2, <3>3, <2>2 DEF Undone
  <2>. QED  BY <2>1, <2>2
<1>3. ASSUME NEW a \in Values
      PROVE  OldestKept(m, keeps, n).mem[a] = Undone(e, u).mem[a]
  <2>1. CASE e.is_store /\ e.addr = a
    <3>1. k0 \in StoresTo(keeps, n, a)  BY <1>1, <2>1 DEF StoresTo
    <3>2. Least(StoresTo(keeps, n, a)) = k0
      <4>1. StoresTo(keeps, n, a) \subseteq Nat  BY <1>1 DEF StoresTo
      <4>2. \A k \in StoresTo(keeps, n, a) : k0 <= k  BY <1>1 DEF StoresTo
      <4>. HIDE DEF k0
      <4>. QED  BY LeastIs, <3>1, <4>1, <4>2
    <3>3. OldestKept(m, keeps, n).mem[a] = e.previous_mem  BY <3>1, <3>2 DEF OldestKept
    <3>. QED  BY <3>3, <2>1 DEF Undone, OldestKept
  <2>2. CASE ~ (e.is_store /\ e.addr = a)
    <3>1. StoresTo(keeps, n, a) = StoresTo(keeps, n - 1, a)
      BY <1>1, <2>2 DEF StoresTo
    <3>2. OldestKept(m, keeps, n).mem[a] = u.mem[a]  BY <3>1 DEF OldestKept
    <3>3. DOMAIN u.mem = Values  BY DEF OldestKept
    <3>. QED  BY <3>2, <3>3, <2>2 DEF Undone
  <2>. QED  BY <2>1, <2>2
<1>4. Undone(e, u) = [reg |-> [r \in Regs |-> Undone(e, u).reg[r]],
                      mem |-> [a \in Values |-> Undone(e, u).mem[a]]]
  <2>1. Undone(e, u).reg = [r \in Regs |-> Undone(e, u).reg[r]]
    BY DEF Undone, OldestKept
  <2>2. Undone(e, u).mem = [a \in Values |-> Undone(e, u).mem[a]]
    BY DEF Undone, OldestKept
  <2>3. Undone(e, u) = [reg |-> Undone(e, u).reg, mem |-> Undone(e, u).mem]
    BY DEF Undone
  <2>. QED  BY <2>1, <2>2, <2>3
<1>5. OldestKept(m, keeps, n)
        = [reg |-> [r \in Regs |-> OldestKept(m, keeps, n).reg[r]],
           mem |-> [a \in Values |-> OldestKept(m, keeps, n).mem[a]]]
  BY DEF OldestKept
<1>6. [r \in Regs |-> OldestKept(m, keeps, n).reg[r]] = [r \in Regs |-> Undone(e, u).reg[r]]
  <2>. HIDE DEF e, u
  <2>. QED  BY <1>2
<1>7. [a \in Values |-> OldestKept(m, keeps, n).mem[a]]
        = [a \in Values |-> Undone(e, u).mem[a]]
  <2>. HIDE DEF e, u
  <2>. QED  BY <1>3
<1>8. OldestKept(m, keeps, n) = Undone(e, u)
  <2>. HIDE DEF e, u
  <2>. QED  BY <1>4, <1>5, <1>6, <1>7
<1>. QED  BY <1>8

(* The recursive definition of AllUndone has this solution, and no other.  *)
LEMMA AllUndoneIs ==
  ASSUME NEW m \in Machines, NEW keeps \in Seq(Keeps)
  PROVE  AllUndone(m, keeps) = OldestKept(m, keeps, Len(keeps))
<1>. DEFINE P(g) == g = [n \in 0 .. Len(keeps) |->
                           IF n = 0 THEN m ELSE Undone(keeps[Len(keeps) - n + 1], g[n - 1])]
            f == [n \in 0 .. Len(keeps) |-> OldestKept(m, keeps, n)]
            g == CHOOSE h : P(h)
<1>1. P(f)
  <2>1. f[0] = m
    <3>1. Youngest(keeps, 0) = {}  BY DEF Youngest
    <3>2. \A r, a : WritersOf(keeps, 0, r) = {} /\ StoresTo(keeps, 0, a) = {}
      BY <3>1 DEF WritersOf, StoresTo
    <3>3. f[0] = [reg |-> [r \in Regs |-> m.reg[r]], mem |-> [a \in Values |-> m.mem[a]]]
      <4>1. f[0] = OldestKept(m, keeps, 0)  OBVIOUS
      <4>. HIDE DEF f
      <4>. QED  BY <4>1, <3>2 DEF OldestKept
    <3>. QED  BY <3>3 DEF Machines
  <2>2. \A n \in 1 .. Len(keeps) : f[n] = Undone(keeps[Len(keeps) - n + 1], f[n - 1])
    BY KeptOfOldest
  <2>3. f = [n \in 0 .. Len(keeps) |-> f[n]]  OBVIOUS
  <2>. HIDE DEF f
  <2>4. \A n \in 0 .. Len(keeps) :
          f[n] = IF n = 0 THEN m ELSE Undone(keeps[Len(keeps) - n + 1], f[n - 1])
    BY <2>1, <2>2
  <2>5. [n \in 0 .. Len(keeps) |-> f[n]]
          = [n \in 0 .. Len(keeps) |->
               IF n = 0 THEN m ELSE Undone(keeps[Len(keeps) - n + 1], f[n - 1])]
    BY <2>4
  <2>. QED  BY <2>3, <2>5
<1>2. P(g)
  <2>. HIDE DEF P, f
  <2>. QED  BY <1>1
<1>3. AllUndone(m, keeps) = g[Len(keeps)]
  BY DEF AllUndone
<1>4. 0 .. Len(keeps) \subseteq {n \in 0 .. Len(keeps) : f[n] = g[n]}
  <2>. DEFINE T == {n \in 0 .. Len(keeps) : f[n] = g[n]}
  <2>1. \A n \in 0 .. Len(keeps) :
          /\ f[n] = IF n = 0 THEN m ELSE Undone(keeps[Len(keeps) - n + 1], f[n - 1])
          /\ g[n] = IF n = 0 THEN m ELSE Undone(keeps[Len(keeps) - n + 1], g[n - 1])
    <3>. HIDE DEF f, g
    <3>. QED  BY <1>1, <1>2
  <2>. HIDE DEF f, g
  <2>2. 0 \in T /\ \A k \in 1 .. Len(keeps) : k - 1 \in T => k \in T
    BY <2>1
  <2>. HIDE DEF T
  <2>3. 0 .. Len(keeps) \subseteq T
    BY <2>2, CountingUp, Len(keeps) \in Nat, Zenon
  <2>. QED  BY <2>3 DEF T
<1>5. Len(keeps) \in 0 .. Len(keeps)  OBVIOUS
<1>6. f[Len(keeps)] = g[Len(keeps)]
  <2>. HIDE DEF f, g
  <2>. QED  BY <1>4, <1>5
<1>7. f[Len(keeps)] = OldestKept(m, keeps, Len(keeps))  BY <1>5
<1>. QED
  <2>. HIDE DEF f, g
  <2>. QED  BY <1>3, <1>6, <1>7

-----------------------------------------------------------------------------
(***************************************************************************)
(* What the entries of a wrong path keep is enough to come back to right:  *)
(* at each place, what the oldest writer kept, or what is there.           *)
(***************************************************************************)
RestoresReg(keeps, m, right, r) ==
  \/ m.reg[r] = right.reg[r] /\ \A k \in DOMAIN keeps : keeps[k].regs_index # r
  \/ \E k \in DOMAIN keeps :
       /\ keeps[k].regs_index = r /\ keeps[k].regs_R = right.reg[r]
       /\ \A j \in DOMAIN keeps : keeps[j].regs_index = r => k <= j

Stores(keep, a) == keep.is_store /\ keep.addr = a

RestoresMem(keeps, m, right, a) ==
  \/ m.mem[a] = right.mem[a] /\ \A k \in DOMAIN keeps : ~ Stores(keeps[k], a)
  \/ \E k \in DOMAIN keeps :
       /\ Stores(keeps[k], a) /\ keeps[k].previous_mem = right.mem[a]
       /\ \A j \in DOMAIN keeps : Stores(keeps[j], a) => k <= j

Restores(keeps, m, right) ==
  /\ \A r \in Regs \ {Zero} : RestoresReg(keeps, m, right, r)
  /\ \A a \in Values : RestoresMem(keeps, m, right, a)

(* Equal but for the zero register, which is zeroed before it is read.     *)
SameState(m, right) ==
  /\ \A r \in Regs \ {Zero} : m.reg[r] = right.reg[r]
  /\ \A a \in Values : m.mem[a] = right.mem[a]

LEMMA SameIsZeroed ==
  ASSUME NEW m \in Machines, NEW right \in Machines
  PROVE  SameState(m, right) <=> Zeroed(m) = Zeroed(right)
<1>1. ASSUME SameState(m, right) PROVE Zeroed(m) = Zeroed(right)
  <2>1. [m.reg EXCEPT ![Zero] = 0] = [right.reg EXCEPT ![Zero] = 0]
    BY <1>1 DEF SameState, Machines
  <2>2. m.mem = right.mem
    BY <1>1 DEF SameState, Machines
  <2>3. /\ Zeroed(m) = [reg |-> [m.reg EXCEPT ![Zero] = 0], mem |-> m.mem]
        /\ Zeroed(right) = [reg |-> [right.reg EXCEPT ![Zero] = 0], mem |-> right.mem]
    BY DEF Zeroed, Machines
  <2>. QED  BY <2>1, <2>2, <2>3
<1>2. ASSUME Zeroed(m) = Zeroed(right) PROVE SameState(m, right)
  <2>1. /\ \A r \in Regs \ {Zero} : Zeroed(m).reg[r] = m.reg[r] /\ Zeroed(right).reg[r] = right.reg[r]
        /\ \A a \in Values : Zeroed(m).mem[a] = m.mem[a] /\ Zeroed(right).mem[a] = right.mem[a]
    BY DEF Zeroed, Machines
  <2>. QED  BY <1>2, <2>1 DEF SameState
<1>. QED  BY <1>1, <1>2

LEMMA ValuesFacts == 0 \in Values /\ \A n \in Nat : n % Size \in Values
BY RegsAssumption DEF Values

LEMMA ZeroedState ==
  ASSUME NEW m \in Machines
  PROVE  /\ Zeroed(m) \in Machines
         /\ Zeroed(m) = [reg |-> [m.reg EXCEPT ![Zero] = 0], mem |-> m.mem]
         /\ Zeroed(m).reg[Zero] = 0
         /\ \A r \in Regs \ {Zero} : Zeroed(m).reg[r] = m.reg[r]
<1>1. Zeroed(m) = [reg |-> [m.reg EXCEPT ![Zero] = 0], mem |-> m.mem]
  BY DEF Zeroed, Machines
<1>2. m.reg \in [Regs -> Values] /\ m.mem \in [Values -> Values]  BY DEF Machines
<1>3. [m.reg EXCEPT ![Zero] = 0] \in [Regs -> Values]  BY <1>2, ValuesFacts
<1>4. Zeroed(m) \in Machines  BY <1>1, <1>2, <1>3 DEF Machines
<1>5. Zeroed(m).reg = [m.reg EXCEPT ![Zero] = 0]  BY <1>1
<1>. QED  BY <1>1, <1>2, <1>4, <1>5, RegsAssumption

(* What an instruction writes, and where.                                  *)
LEMMA ExecutedIs ==
  ASSUME NEW m \in Machines, NEW does \in Effects
  PROVE  /\ Executed(m, does) \in Machines
         /\ Saved(m, does) \in Keeps
         /\ \A r \in Regs \ {Zero} :
              Saved(m, does).regs_index # r => Executed(m, does).reg[r] = m.reg[r]
         /\ \A r \in Regs \ {Zero} :
              Saved(m, does).regs_index = r => Saved(m, does).regs_R = m.reg[r]
         /\ \A a \in Values :
              ~ Stores(Saved(m, does), a) => Executed(m, does).mem[a] = m.mem[a]
         /\ \A a \in Values :
              Stores(Saved(m, does), a) => Saved(m, does).previous_mem = m.mem[a]
<1>. DEFINE z == Zeroed(m)
            value == z.reg[does.from]
            k == Saved(m, does)
<1>1. /\ z \in Machines /\ z = [reg |-> z.reg, mem |-> m.mem]
      /\ z.mem = m.mem
      /\ \A r \in Regs \ {Zero} : z.reg[r] = m.reg[r]
  BY ZeroedState
<1>2. /\ does.to \in Regs /\ does.from \in Regs
      /\ does.do \in {"nothing", "add", "load", "store"}
  BY DEF Effects
<1>3. /\ z.reg \in [Regs -> Values] /\ z.mem \in [Values -> Values]
      /\ m.mem \in [Values -> Values]
  BY <1>1 DEF Machines
<1>4. /\ k.regs_index = IF does.do \in {"add", "load"} /\ does.to # Zero THEN does.to ELSE NoIndex
      /\ k.regs_R = z.reg[does.to] /\ k.is_store = (does.do = "store")
      /\ k.addr = z.reg[does.to] /\ k.previous_mem = m.mem[z.reg[does.to]]
      /\ k \in Keeps
  <2>1. k = Kept(z, does)  BY DEF Saved
  <2>2. z.reg[does.to] \in Values /\ m.mem[z.reg[does.to]] \in Values  BY <1>2, <1>3
  <2>3. k = [regs_index   |-> IF does.do \in {"add", "load"} /\ does.to # Zero
                              THEN does.to ELSE NoIndex,
             regs_R       |-> z.reg[does.to],
             is_store     |-> does.do = "store",
             addr         |-> z.reg[does.to],
             previous_mem |-> m.mem[z.reg[does.to]]]
    <3>. HIDE DEF z, k
    <3>. QED  BY <2>1, <1>1 DEF Kept
  <2>. HIDE DEF z, k
  <2>4. k \in Keeps  BY <2>2, <2>3, <1>2 DEF Keeps
  <2>. QED  BY <2>3, <2>4
<1>5. value \in Values /\ (value + 1) % Size \in Values
  <2>1. value \in Values  BY <1>2, <1>3
  <2>2. value + 1 \in Nat  BY <2>1 DEF Values
  <2>. QED  BY <2>1, <2>2, ValuesFacts
<1>. DEFINE x == Executed(m, does)
<1>6. /\ x \in Machines
      /\ \A r \in Regs : does.to # r \/ does.do \notin {"add", "load"} => x.reg[r] = z.reg[r]
      /\ \A a \in Values : does.do # "store" \/ z.reg[does.to] # a => x.mem[a] = z.mem[a]
  <2>1. CASE does.do = "add"
    <3>1. x = [z EXCEPT !.reg[does.to] = (value + 1) % Size]  BY <2>1 DEF Executed
    <3>2. x = [reg |-> [z.reg EXCEPT ![does.to] = (value + 1) % Size], mem |-> z.mem]
      <4>. HIDE DEF x, z, value
      <4>. QED  BY <3>1, <1>1
    <3>. HIDE DEF x, z, value
    <3>. QED  BY <3>2, <1>2, <1>3, <1>5, <2>1 DEF Machines
  <2>2. CASE does.do = "load"
    <3>1. x = [z EXCEPT !.reg[does.to] = z.mem[value]]  BY <2>2 DEF Executed
    <3>2. x = [reg |-> [z.reg EXCEPT ![does.to] = z.mem[value]], mem |-> z.mem]
      <4>. HIDE DEF x, z, value
      <4>. QED  BY <3>1, <1>1
    <3>. HIDE DEF x, z, value
    <3>. QED  BY <3>2, <1>2, <1>3, <1>5, <2>2 DEF Machines
  <2>3. CASE does.do = "store"
    <3>1. x = [z EXCEPT !.mem[z.reg[does.to]] = value]  BY <2>3 DEF Executed
    <3>2. x = [reg |-> z.reg, mem |-> [z.mem EXCEPT ![z.reg[does.to]] = value]]
      <4>. HIDE DEF x, z, value
      <4>. QED  BY <3>1, <1>1
    <3>. HIDE DEF x, z, value
    <3>. QED  BY <3>2, <1>2, <1>3, <1>5, <2>3 DEF Machines
  <2>4. CASE does.do = "nothing"
    <3>1. x = z  BY <2>4 DEF Executed
    <3>. HIDE DEF x, z, value
    <3>. QED  BY <3>1, <1>1, <2>4
  <2>. QED  BY <1>2, <2>1, <2>2, <2>3, <2>4
<1>7. NoIndex \notin Regs  BY RegsAssumption
<1>. HIDE DEF x, z, value, k
<1>8. \A r \in Regs \ {Zero} : k.regs_index # r => x.reg[r] = m.reg[r]
  BY <1>1, <1>2, <1>4, <1>6, <1>7
<1>9. \A r \in Regs \ {Zero} : k.regs_index = r => k.regs_R = m.reg[r]
  BY <1>1, <1>2, <1>4, <1>7
<1>10. \A a \in Values : ~ Stores(k, a) => x.mem[a] = m.mem[a]
  BY <1>1, <1>4, <1>6 DEF Stores
<1>11. \A a \in Values : Stores(k, a) => k.previous_mem = m.mem[a]
  BY <1>4 DEF Stores
<1>. QED  BY <1>4, <1>6, <1>8, <1>9, <1>10, <1>11 DEF x, k

LEMMA RestoresAtFirst ==
  ASSUME NEW m \in Machines, NEW right \in Machines, Zeroed(m) = Zeroed(right)
  PROVE  Restores(<<>>, m, right)
<1>1. SameState(m, right)  BY SameIsZeroed
<1>. QED  BY <1>1 DEF SameState, Restores, RestoresReg, RestoresMem

LEMMA RestoresLater ==
  ASSUME NEW m \in Machines, NEW right \in Machines, NEW does \in Effects,
         NEW keeps \in Seq(Keeps), Restores(keeps, m, right)
  PROVE  Restores(Append(keeps, Saved(m, does)), Executed(m, does), right)
<1>. DEFINE k == Saved(m, does)
            x == Executed(m, does)
            more == Append(keeps, k)
            n == Len(keeps) + 1
<1>1. k \in Keeps  BY ExecutedIs
<1>. HIDE DEF k
<1>2. /\ DOMAIN more = 1 .. n /\ n \in Nat /\ DOMAIN keeps = 1 .. n - 1
      /\ \A j \in DOMAIN keeps : j \in DOMAIN more /\ more[j] = keeps[j] /\ j < n /\ j \in Nat
      /\ more[n] = k /\ n \in DOMAIN more
      /\ \A j \in DOMAIN more : j \in Nat /\ (j = n \/ j \in DOMAIN keeps)
  BY <1>1
<1>. HIDE DEF more, n, x
<1>3. ASSUME NEW r \in Regs \ {Zero} PROVE RestoresReg(more, x, right, r)
  <2>1. RestoresReg(keeps, m, right, r)  BY DEF Restores
  <2>2. /\ k.regs_index # r => x.reg[r] = m.reg[r]
        /\ k.regs_index = r => k.regs_R = m.reg[r]
    BY ExecutedIs DEF k, x
  <2>3. CASE m.reg[r] = right.reg[r] /\ \A j \in DOMAIN keeps : keeps[j].regs_index # r
    <3>1. CASE k.regs_index # r
      <4>1. \A j \in DOMAIN more : more[j].regs_index # r  BY <1>2, <2>3, <3>1
      <4>. QED  BY <2>2, <2>3, <3>1, <4>1 DEF RestoresReg
    <3>2. CASE k.regs_index = r
      <4>1. \A j \in DOMAIN more : more[j].regs_index = r => n <= j  BY <1>2, <2>3
      <4>2. more[n].regs_index = r /\ more[n].regs_R = right.reg[r]  BY <1>2, <2>2, <2>3, <3>2
      <4>. QED  BY <1>2, <4>1, <4>2 DEF RestoresReg
    <3>. QED  BY <3>1, <3>2
  <2>4. ASSUME NEW i \in DOMAIN keeps,
               keeps[i].regs_index = r /\ keeps[i].regs_R = right.reg[r],
               \A j \in DOMAIN keeps : keeps[j].regs_index = r => i <= j
        PROVE  RestoresReg(more, x, right, r)
    <3>1. \A j \in DOMAIN more : more[j].regs_index = r => i <= j  BY <1>2, <2>4
    <3>2. more[i].regs_index = r /\ more[i].regs_R = right.reg[r]  BY <1>2, <2>4
    <3>. QED  BY <1>2, <3>1, <3>2 DEF RestoresReg
  <2>. QED  BY <2>1, <2>3, <2>4 DEF RestoresReg
<1>4. ASSUME NEW a \in Values PROVE RestoresMem(more, x, right, a)
  <2>1. RestoresMem(keeps, m, right, a)  BY DEF Restores
  <2>2. /\ ~ Stores(k, a) => x.mem[a] = m.mem[a]
        /\ Stores(k, a) => k.previous_mem = m.mem[a]
    BY ExecutedIs DEF k, x
  <2>3. CASE m.mem[a] = right.mem[a] /\ \A j \in DOMAIN keeps : ~ Stores(keeps[j], a)
    <3>1. CASE ~ Stores(k, a)
      <4>1. \A j \in DOMAIN more : ~ Stores(more[j], a)  BY <1>2, <2>3, <3>1
      <4>. QED  BY <2>2, <2>3, <3>1, <4>1 DEF RestoresMem
    <3>2. CASE Stores(k, a)
      <4>1. \A j \in DOMAIN more : Stores(more[j], a) => n <= j  BY <1>2, <2>3
      <4>2. Stores(more[n], a) /\ more[n].previous_mem = right.mem[a]  BY <1>2, <2>2, <2>3, <3>2
      <4>. QED  BY <1>2, <4>1, <4>2 DEF RestoresMem
    <3>. QED  BY <3>1, <3>2
  <2>4. ASSUME NEW i \in DOMAIN keeps,
               Stores(keeps[i], a) /\ keeps[i].previous_mem = right.mem[a],
               \A j \in DOMAIN keeps : Stores(keeps[j], a) => i <= j
        PROVE  RestoresMem(more, x, right, a)
    <3>1. \A j \in DOMAIN more : Stores(more[j], a) => i <= j  BY <1>2, <2>4
    <3>2. Stores(more[i], a) /\ more[i].previous_mem = right.mem[a]  BY <1>2, <2>4
    <3>. QED  BY <1>2, <3>1, <3>2 DEF RestoresMem
  <2>. QED  BY <2>1, <2>3, <2>4 DEF RestoresMem
<1>. QED  BY <1>3, <1>4 DEF Restores, more, x, k

LEMMA RestoresAtLast ==
  ASSUME NEW m \in Machines, NEW right \in Machines,
         NEW keeps \in Seq(Keeps), Restores(keeps, m, right)
  PROVE  /\ AllUndone(m, keeps) \in Machines
         /\ Zeroed(AllUndone(m, keeps)) = Zeroed(right)
<1>. DEFINE u == OldestKept(m, keeps, Len(keeps))
<1>1. AllUndone(m, keeps) = u  BY AllUndoneIs
<1>2. Youngest(keeps, Len(keeps)) = DOMAIN keeps /\ DOMAIN keeps \subseteq Nat
  <2>1. Len(keeps) \in Nat /\ DOMAIN keeps = 1 .. Len(keeps)  OBVIOUS
  <2>2. \A j \in 1 .. Len(keeps) : j > Len(keeps) - Len(keeps)  BY <2>1
  <2>. QED  BY <2>1, <2>2 DEF Youngest
<1>3. ASSUME NEW r \in Regs
      PROVE  /\ u.reg[r] \in Values
             /\ r # Zero => u.reg[r] = right.reg[r]
  <2>. DEFINE W == WritersOf(keeps, Len(keeps), r)
  <2>1. W = {j \in DOMAIN keeps : keeps[j].regs_index = r} /\ W \subseteq Nat
    BY <1>2 DEF WritersOf
  <2>2. u.reg[r] = IF W = {} THEN m.reg[r] ELSE keeps[Least(W)].regs_R
    BY DEF OldestKept
  <2>. HIDE DEF u, W
  <2>3. W # {} => Least(W) \in W
    BY <2>1, LeastNumber, LeastIs, SMTT(30)
  <2>4. u.reg[r] \in Values
    <3>1. m.reg[r] \in Values  BY DEF Machines
    <3>2. \A j \in DOMAIN keeps : keeps[j].regs_R \in Values
      <4>. SUFFICES ASSUME NEW j \in DOMAIN keeps PROVE keeps[j].regs_R \in Values  OBVIOUS
      <4>1. keeps[j] \in Keeps  OBVIOUS
      <4>. QED  BY <4>1 DEF Keeps
    <3>. QED  BY <2>1, <2>2, <2>3, <3>1, <3>2
  <2>5. ASSUME r # Zero PROVE u.reg[r] = right.reg[r]
    <3>1. RestoresReg(keeps, m, right, r)  BY <2>5 DEF Restores
    <3>2. CASE m.reg[r] = right.reg[r] /\ \A j \in DOMAIN keeps : keeps[j].regs_index # r
      BY <2>1, <2>2, <3>2
    <3>3. ASSUME NEW i \in DOMAIN keeps,
                 keeps[i].regs_index = r /\ keeps[i].regs_R = right.reg[r],
                 \A j \in DOMAIN keeps : keeps[j].regs_index = r => i <= j
          PROVE  u.reg[r] = right.reg[r]
      <4>1. i \in W /\ \A j \in W : i <= j  BY <2>1, <3>3
      <4>2. Least(W) = i  BY <2>1, <4>1, LeastIs
      <4>. QED  BY <2>2, <3>3, <4>1, <4>2
    <3>. QED  BY <3>1, <3>2, <3>3 DEF RestoresReg
  <2>. QED  BY <2>4, <2>5
<1>4. ASSUME NEW a \in Values
      PROVE  /\ u.mem[a] \in Values
             /\ u.mem[a] = right.mem[a]
  <2>. DEFINE W == StoresTo(keeps, Len(keeps), a)
  <2>1. W = {j \in DOMAIN keeps : Stores(keeps[j], a)} /\ W \subseteq Nat
    BY <1>2 DEF StoresTo, Stores
  <2>2. u.mem[a] = IF W = {} THEN m.mem[a] ELSE keeps[Least(W)].previous_mem
    BY DEF OldestKept
  <2>. HIDE DEF u, W
  <2>5. u.mem[a] = right.mem[a]
    <3>1. RestoresMem(keeps, m, right, a)  BY DEF Restores
    <3>2. CASE m.mem[a] = right.mem[a] /\ \A j \in DOMAIN keeps : ~ Stores(keeps[j], a)
      BY <2>1, <2>2, <3>2
    <3>3. ASSUME NEW i \in DOMAIN keeps,
                 Stores(keeps[i], a) /\ keeps[i].previous_mem = right.mem[a],
                 \A j \in DOMAIN keeps : Stores(keeps[j], a) => i <= j
          PROVE  u.mem[a] = right.mem[a]
      <4>1. i \in W /\ \A j \in W : i <= j  BY <2>1, <3>3
      <4>2. Least(W) = i  BY <2>1, <4>1, LeastIs
      <4>. QED  BY <2>2, <3>3, <4>1, <4>2
    <3>. QED  BY <3>1, <3>2, <3>3 DEF RestoresMem
  <2>6. right.mem[a] \in Values  BY DEF Machines
  <2>. QED  BY <2>5, <2>6
<1>5. u \in Machines
  <2>1. u = [reg |-> u.reg, mem |-> u.mem] /\ u.reg = [r \in Regs |-> u.reg[r]]
        /\ u.mem = [a \in Values |-> u.mem[a]]
    BY DEF OldestKept
  <2>. HIDE DEF u
  <2>2. u.reg \in [Regs -> Values]  BY <2>1, <1>3
  <2>3. u.mem \in [Values -> Values]  BY <2>1, <1>4
  <2>. QED  BY <2>1, <2>2, <2>3 DEF Machines
<1>. HIDE DEF u
<1>6. SameState(u, right)  BY <1>3, <1>4 DEF SameState
<1>. QED  BY <1>1, <1>5, <1>6, SameIsZeroed

(* The right path and the machine stay the same.                           *)
LEMMA ExecutedSame ==
  ASSUME NEW m, NEW right, NEW does, Zeroed(m) = Zeroed(right)
  PROVE  Executed(m, does) = Executed(right, does)
BY DEF Executed

-----------------------------------------------------------------------------
(***************************************************************************)
(* The ring is a sequence.                                                 *)
(***************************************************************************)
Places == 0 .. IfqSize - 1

LEMMA RingSize == IfqSize \in Nat \ {0}
BY IfqAssumption

LEMMA WrapIs ==
  ASSUME NEW a \in Places, NEW b \in 0 .. IfqSize
  PROVE  /\ Wrap(a + b) \in Places
         /\ Wrap(a + b) = IF a + b < IfqSize THEN a + b ELSE a + b - IfqSize
<1>1. CASE IfqSize = 1  BY <1>1 DEF Wrap, Places
<1>2. CASE IfqSize = 2  BY <1>2 DEF Wrap, Places
<1>3. CASE IfqSize = 4  BY <1>3 DEF Wrap, Places
<1>4. CASE IfqSize = 8  BY <1>4 DEF Wrap, Places
<1>5. CASE IfqSize = 16  BY <1>5 DEF Wrap, Places
<1>6. CASE IfqSize = 32  BY <1>6 DEF Wrap, Places
<1>7. CASE IfqSize = 64  BY <1>7 DEF Wrap, Places
<1>. QED  BY <1>1, <1>2, <1>3, <1>4, <1>5, <1>6, <1>7, IfqAssumption

Nth(r, i) == r.slots[Wrap(r.head + i - 1)]

Rings(S) == [slots : [Places -> S \cup {Vacant}], head : Places, tail : Places,
             num : 0 .. IfqSize]

RingOK(r, S) ==
  /\ r \in Rings(S)
  /\ r.tail = Wrap(r.head + r.num)
  /\ \A i \in 1 .. r.num : Nth(r, i) \in S

LEMMA ContentsIs ==
  ASSUME NEW S, NEW r, RingOK(r, S)
  PROVE  /\ Contents(r) \in Seq(S) /\ Len(Contents(r)) = r.num
         /\ r.num \in Nat
         /\ \A i \in 1 .. r.num : Contents(r)[i] = Nth(r, i)
         /\ r.num > 0 => Oldest(r) = Contents(r)[1] /\ Oldest(r) \in S
<1>1. r.num \in Nat /\ r.head \in Places /\ 0 \in 0 .. IfqSize
  BY RingSize DEF RingOK, Rings
<1>2. Contents(r) = [i \in 1 .. r.num |-> Nth(r, i)]  BY DEF Contents, Nth
<1>3. \A i \in 1 .. r.num : Nth(r, i) \in S  BY DEF RingOK
<1>4. Contents(r) \in Seq(S) /\ Len(Contents(r)) = r.num  BY <1>1, <1>2, <1>3
<1>5. Wrap(r.head) = r.head
  <2>1. r.head + 0 = r.head /\ r.head < IfqSize  BY <1>1, RingSize DEF Places
  <2>2. Wrap(r.head + 0) = r.head  BY <1>1, <2>1, WrapIs
  <2>. QED  BY <2>1, <2>2
<1>6. r.num > 0 => Oldest(r) = Nth(r, 1)
  <2>1. r.head + 1 - 1 = r.head  BY <1>1 DEF Places
  <2>. QED  BY <1>5, <2>1 DEF Nth, Oldest
<1>. QED  BY <1>1, <1>2, <1>3, <1>4, <1>6

LEMMA LargerRing ==
  ASSUME NEW S, NEW T, S \subseteq T, NEW r, RingOK(r, S)
  PROVE  RingOK(r, T)
<1>1. r.slots \in [Places -> T \cup {Vacant}]  BY DEF RingOK, Rings
<1>2. r \in Rings(T)
  BY <1>1 DEF RingOK, Rings
<1>. QED  BY <1>2 DEF RingOK

LEMMA NewRingIs ==
  ASSUME NEW S
  PROVE  RingOK(NewRing, S) /\ Contents(NewRing) = <<>>
<1>1. 0 \in Places /\ 0 + 0 = 0 /\ 0 < IfqSize /\ 0 \in 0 .. IfqSize  BY RingSize DEF Places
<1>2. Wrap(0 + 0) = 0  BY <1>1, WrapIs
<1>3. RingOK(NewRing, S)  BY <1>1, <1>2 DEF RingOK, Rings, NewRing, Places
<1>. QED  BY <1>3, ContentsIs DEF NewRing

LEMMA EnqueuedFields ==
  ASSUME NEW S, NEW r \in Rings(S), NEW x \in S, r.num + 1 \in 0 .. IfqSize,
         Wrap(r.tail + 1) \in Places
  PROVE  LET e == Enqueued(r, x)
         IN /\ e \in Rings(S)
            /\ e.slots = [r.slots EXCEPT ![r.tail] = x] /\ e.head = r.head
            /\ e.tail = Wrap(r.tail + 1) /\ e.num = r.num + 1
<1>. DEFINE a == [r.slots EXCEPT ![r.tail] = x]
            e == [r EXCEPT !.slots = a, !.tail = Wrap(r.tail + 1), !.num = r.num + 1]
<1>1. Enqueued(r, x) = e  BY DEF Enqueued, Rings
<1>2. a \in [Places -> S \cup {Vacant}]  BY DEF Rings
<1>. HIDE DEF a
<1>3. e \in Rings(S)  BY <1>2 DEF Rings
<1>4. e.slots = a /\ e.head = r.head /\ e.tail = Wrap(r.tail + 1) /\ e.num = r.num + 1
  BY DEF Rings
<1>. QED  BY <1>1, <1>3, <1>4 DEF a

LEMMA DequeuedFields ==
  ASSUME NEW S, NEW r \in Rings(S), r.num - 1 \in 0 .. IfqSize,
         Wrap(r.head + 1) \in Places
  PROVE  LET e == Dequeued(r)
         IN /\ e \in Rings(S)
            /\ e.slots = [r.slots EXCEPT ![r.head] = Vacant] /\ e.head = Wrap(r.head + 1)
            /\ e.tail = r.tail /\ e.num = r.num - 1
<1>. DEFINE a == [r.slots EXCEPT ![r.head] = Vacant]
            e == [r EXCEPT !.slots = a, !.head = Wrap(r.head + 1), !.num = r.num - 1]
<1>1. Dequeued(r) = e  BY DEF Dequeued, Rings
<1>2. a \in [Places -> S \cup {Vacant}]  BY DEF Rings
<1>. HIDE DEF a
<1>3. e \in Rings(S)  BY <1>2 DEF Rings
<1>4. e.slots = a /\ e.tail = r.tail /\ e.head = Wrap(r.head + 1) /\ e.num = r.num - 1
  BY DEF Rings
<1>. QED  BY <1>1, <1>3, <1>4 DEF a

LEMMA DrainedFields ==
  ASSUME NEW S, NEW r \in Rings(S), Wrap(r.head + r.num) \in Places
  PROVE  LET e == Drained(r)
         IN /\ e \in Rings(S)
            /\ e.head = Wrap(r.head + r.num) /\ e.tail = r.tail /\ e.num = 0
<1>. DEFINE a == [i \in DOMAIN r.slots |-> Vacant]
            e == [r EXCEPT !.slots = a, !.head = Wrap(r.head + r.num), !.num = 0]
<1>1. Drained(r) = e  BY DEF Drained, Rings
<1>2. a \in [Places -> S \cup {Vacant}]  BY DEF Rings
<1>. HIDE DEF a
<1>3. 0 \in 0 .. IfqSize  BY RingSize
<1>4. e \in Rings(S)  BY <1>2, <1>3 DEF Rings
<1>5. e.tail = r.tail /\ e.head = Wrap(r.head + r.num) /\ e.num = 0
  BY DEF Rings
<1>. QED  BY <1>1, <1>4, <1>5

LEMMA StepOn ==
  ASSUME NEW N \in Nat \ {0}, NEW h \in 0 .. N - 1, NEW h1 \in Int, NEW i \in 1 .. N,
         NEW w \in Int, NEW w1 \in Int,
         h1 = IF h + 1 < N THEN h + 1 ELSE h + 1 - N,
         w1 = IF h1 + (i - 1) < N THEN h1 + (i - 1) ELSE h1 + (i - 1) - N,
         w = IF h + i < N THEN h + i ELSE h + i - N
  PROVE  w1 = w /\ (i < N => w # h)
OBVIOUS

LEMMA EnqueuedIs ==
  ASSUME NEW S, NEW r, RingOK(r, S), NEW x \in S, r.num # IfqSize
  PROVE  /\ RingOK(Enqueued(r, x), S)
         /\ Contents(Enqueued(r, x)) = Append(Contents(r), x)
<1>. DEFINE e == Enqueued(r, x)
<1>1. /\ r.num \in Nat /\ r.num < IfqSize /\ r.head \in Places /\ r.tail \in Places
      /\ r.num + 1 \in 0 .. IfqSize /\ r.num \in 0 .. IfqSize /\ 1 \in 0 .. IfqSize
      /\ r.slots \in [Places -> S \cup {Vacant}]
      /\ r.tail = Wrap(r.head + r.num)
      /\ r \in Rings(S)
  BY RingSize DEF RingOK, Rings
<1>0. Wrap(r.tail + 1) \in Places  BY <1>1, WrapIs
<1>2. /\ e \in Rings(S)
      /\ e.slots = [r.slots EXCEPT ![r.tail] = x] /\ e.head = r.head
      /\ e.tail = Wrap(r.tail + 1) /\ e.num = r.num + 1
  BY <1>0, <1>1, EnqueuedFields
<1>. HIDE DEF e
<1>4. Wrap(r.tail + 1) = Wrap(r.head + (r.num + 1)) /\ Wrap(r.tail + 1) \in Places
  <2>1. /\ r.tail = IF r.head + r.num < IfqSize THEN r.head + r.num
                    ELSE r.head + r.num - IfqSize
        /\ Wrap(r.tail + 1) = IF r.tail + 1 < IfqSize THEN r.tail + 1
                              ELSE r.tail + 1 - IfqSize
        /\ Wrap(r.head + (r.num + 1)) = IF r.head + (r.num + 1) < IfqSize
                                        THEN r.head + (r.num + 1)
                                        ELSE r.head + (r.num + 1) - IfqSize
        /\ Wrap(r.tail + 1) \in Places
    BY <1>1, WrapIs
  <2>. QED  BY <2>1, <1>1, RingSize, SMTT(30) DEF Places
<1>5. \A i \in 1 .. r.num : Nth(e, i) = Nth(r, i)
  <2>. SUFFICES ASSUME NEW i \in 1 .. r.num PROVE Nth(e, i) = Nth(r, i)  OBVIOUS
  <2>1. /\ i - 1 \in 0 .. IfqSize /\ r.head + i - 1 = r.head + (i - 1)
        /\ i - 1 < r.num /\ 0 <= i - 1
    BY <1>1, RingSize DEF Places
  <2>2. Wrap(r.head + i - 1) # r.tail /\ Wrap(r.head + i - 1) \in Places
    <3>1. /\ r.tail = IF r.head + r.num < IfqSize THEN r.head + r.num
                      ELSE r.head + r.num - IfqSize
          /\ Wrap(r.head + (i - 1)) = IF r.head + (i - 1) < IfqSize THEN r.head + (i - 1)
                                      ELSE r.head + (i - 1) - IfqSize
          /\ Wrap(r.head + (i - 1)) \in Places
      BY <1>1, <2>1, WrapIs
    <3>. QED  BY <3>1, <2>1, <1>1, RingSize, SMTT(30) DEF Places
  <2>. QED  BY <1>1, <1>2, <2>2 DEF Nth
<1>6. Nth(e, r.num + 1) = x
  <2>1. r.head + (r.num + 1) - 1 = r.head + r.num  BY <1>1 DEF Places
  <2>. QED  BY <1>1, <1>2, <2>1 DEF Nth
<1>7. RingOK(e, S)
  <2>1. \A i \in 1 .. r.num + 1 : i = r.num + 1 \/ i \in 1 .. r.num  BY <1>1
  <2>2. \A i \in 1 .. r.num : Nth(r, i) \in S  BY DEF RingOK
  <2>3. \A i \in 1 .. r.num + 1 : Nth(e, i) \in S  BY <1>5, <1>6, <2>1, <2>2
  <2>. HIDE DEF e
  <2>. QED  BY <1>2, <1>4, <2>3 DEF RingOK
<1>. HIDE DEF e
<1>8. e.num = r.num + 1  BY <1>2
<1>9. /\ Contents(e) \in Seq(S) /\ Len(Contents(e)) = r.num + 1
      /\ \A i \in 1 .. r.num + 1 : Contents(e)[i] = Nth(e, i)
  BY <1>7, <1>8, ContentsIs
<1>10. /\ Contents(r) \in Seq(S) /\ Len(Contents(r)) = r.num
       /\ \A i \in 1 .. r.num : Contents(r)[i] = Nth(r, i)
  BY ContentsIs
<1>11. Contents(e) = Append(Contents(r), x)
  BY <1>1, <1>5, <1>6, <1>9, <1>10
<1>. QED  BY <1>7, <1>11 DEF e

LEMMA DequeuedIs ==
  ASSUME NEW S, NEW r, RingOK(r, S), r.num > 0
  PROVE  /\ RingOK(Dequeued(r), S)
         /\ Contents(Dequeued(r)) = Tail(Contents(r))
<1>. DEFINE e == Dequeued(r)
<1>1. /\ r.num \in Nat /\ r.num <= IfqSize /\ r.head \in Places /\ r.tail \in Places
      /\ r.num - 1 \in 0 .. IfqSize /\ r.num \in 0 .. IfqSize /\ 1 \in 0 .. IfqSize
      /\ r.slots \in [Places -> S \cup {Vacant}]
      /\ r.tail = Wrap(r.head + r.num)
      /\ r \in Rings(S)
  BY RingSize DEF RingOK, Rings
<1>0. Wrap(r.head + 1) \in Places  BY <1>1, WrapIs
<1>2. /\ e \in Rings(S)
      /\ e.slots = [r.slots EXCEPT ![r.head] = Vacant] /\ e.head = Wrap(r.head + 1)
      /\ e.tail = r.tail /\ e.num = r.num - 1
  BY <1>0, <1>1, DequeuedFields
<1>. HIDE DEF e
<1>4. /\ Wrap(r.head + 1) = IF r.head + 1 < IfqSize THEN r.head + 1
                            ELSE r.head + 1 - IfqSize
      /\ Wrap(r.head + 1) \in Places
  BY <1>1, WrapIs
<1>5. \A i \in 1 .. r.num - 1 : Nth(e, i) = Nth(r, i + 1)
  <2>. SUFFICES ASSUME NEW i \in 1 .. r.num - 1 PROVE Nth(e, i) = Nth(r, i + 1)  OBVIOUS
  <2>1. /\ i - 1 \in 0 .. IfqSize /\ i \in 0 .. IfqSize /\ i < r.num /\ 0 < i
    BY <1>1, RingSize
  <2>0. /\ Wrap(r.head + 1) + i - 1 = Wrap(r.head + 1) + (i - 1)
        /\ r.head + (i + 1) - 1 = r.head + i
    <3>1. r.head \in Int /\ Wrap(r.head + 1) \in Int  BY <1>1, <1>4, RingSize DEF Places
    <3>. QED  BY <3>1
  <2>2. /\ Wrap(Wrap(r.head + 1) + (i - 1)) =
             IF Wrap(r.head + 1) + (i - 1) < IfqSize THEN Wrap(r.head + 1) + (i - 1)
             ELSE Wrap(r.head + 1) + (i - 1) - IfqSize
        /\ Wrap(r.head + i) = IF r.head + i < IfqSize THEN r.head + i
                              ELSE r.head + i - IfqSize
        /\ Wrap(r.head + i) \in Places
    BY <1>1, <1>4, <2>1, WrapIs
  <2>3. /\ Wrap(Wrap(r.head + 1) + (i - 1)) = Wrap(r.head + i)
        /\ Wrap(r.head + i) # r.head
    <3>1. /\ r.head \in 0 .. IfqSize - 1 /\ Wrap(r.head + 1) \in Int
          /\ Wrap(r.head + i) \in Int /\ i \in 1 .. IfqSize /\ i < IfqSize
          /\ Wrap(Wrap(r.head + 1) + (i - 1)) \in Int
      <4>1. Wrap(Wrap(r.head + 1) + (i - 1)) \in Places  BY <1>4, <2>1, WrapIs
      <4>. QED  BY <1>1, <1>4, <2>1, <2>2, <4>1, RingSize, SMTT(30) DEF Places
    <3>. QED  BY <3>1, <1>4, <2>2, RingSize, StepOn
  <2>. QED  BY <1>1, <1>2, <2>0, <2>1, <2>2, <2>3 DEF Nth
<1>6. r.tail = Wrap(Wrap(r.head + 1) + (r.num - 1))
  <2>1. /\ Wrap(Wrap(r.head + 1) + (r.num - 1)) =
             IF Wrap(r.head + 1) + (r.num - 1) < IfqSize THEN Wrap(r.head + 1) + (r.num - 1)
             ELSE Wrap(r.head + 1) + (r.num - 1) - IfqSize
        /\ r.tail = IF r.head + r.num < IfqSize THEN r.head + r.num
                    ELSE r.head + r.num - IfqSize
        /\ Wrap(Wrap(r.head + 1) + (r.num - 1)) \in Places
    BY <1>1, <1>4, WrapIs
  <2>2. /\ r.head \in 0 .. IfqSize - 1 /\ Wrap(r.head + 1) \in Int
        /\ r.tail \in Int /\ r.num \in 1 .. IfqSize
        /\ Wrap(Wrap(r.head + 1) + (r.num - 1)) \in Int
    BY <1>1, <1>4, <2>1, RingSize DEF Places
  <2>. QED  BY <2>1, <2>2, <1>4, RingSize, StepOn
<1>7. RingOK(e, S)
  <2>2. \A i \in 1 .. r.num : Nth(r, i) \in S  BY DEF RingOK
  <2>3. \A i \in 1 .. r.num - 1 : i + 1 \in 1 .. r.num  BY <1>1
  <2>. HIDE DEF e
  <2>. QED  BY <1>2, <1>5, <1>6, <2>2, <2>3 DEF RingOK
<1>. HIDE DEF e
<1>8. e.num = r.num - 1  BY <1>2
<1>9. /\ Contents(e) \in Seq(S) /\ Len(Contents(e)) = r.num - 1
      /\ \A i \in 1 .. r.num - 1 : Contents(e)[i] = Nth(e, i)
  BY <1>7, <1>8, ContentsIs
<1>10. /\ Contents(r) \in Seq(S) /\ Len(Contents(r)) = r.num
       /\ \A i \in 1 .. r.num : Contents(r)[i] = Nth(r, i)
  BY ContentsIs
<1>11. Contents(e) = Tail(Contents(r))
  <2>1. /\ Tail(Contents(r)) \in Seq(S) /\ Len(Tail(Contents(r))) = r.num - 1
        /\ \A i \in 1 .. r.num - 1 : Tail(Contents(r))[i] = Contents(r)[i + 1]
    BY <1>1, <1>10
  <2>2. \A i \in 1 .. r.num - 1 : Contents(e)[i] = Contents(r)[i + 1]
    BY <1>1, <1>5, <1>9, <1>10
  <2>. QED  BY <1>9, <2>1, <2>2
<1>. QED  BY <1>7, <1>11 DEF e

LEMMA DrainedIs ==
  ASSUME NEW S, NEW r, RingOK(r, S)
  PROVE  RingOK(Drained(r), S) /\ Contents(Drained(r)) = <<>>
<1>. DEFINE e == Drained(r)
<1>1. /\ r.num \in 0 .. IfqSize /\ r.head \in Places /\ r.tail \in Places
      /\ r.slots \in [Places -> S \cup {Vacant}]
      /\ r.tail = Wrap(r.head + r.num) /\ 0 \in 0 .. IfqSize
      /\ r \in Rings(S)
  BY RingSize DEF RingOK, Rings
<1>0. Wrap(r.head + r.num) \in Places  BY <1>1
<1>2. e \in Rings(S) /\ e.head = Wrap(r.head + r.num) /\ e.tail = r.tail /\ e.num = 0
  BY <1>0, <1>1, DrainedFields
<1>. HIDE DEF e
<1>3. Wrap(r.tail + 0) = r.tail
  <2>1. r.tail + 0 = r.tail /\ r.tail < IfqSize  BY <1>1, RingSize DEF Places
  <2>2. Wrap(r.tail + 0) = r.tail  BY <1>1, <2>1, WrapIs
  <2>. QED  BY <2>1, <2>2
<1>4. RingOK(e, S)
  <2>. QED  BY <1>1, <1>2, <1>3 DEF RingOK
<1>5. e.num = 0  BY <1>2
<1>. HIDE DEF e
<1>6. Contents(e) \in Seq(S) /\ Len(Contents(e)) = 0  BY <1>4, <1>5, ContentsIs
<1>. QED  BY <1>4, <1>6 DEF e

-----------------------------------------------------------------------------
(***************************************************************************)
(* The program, and where its instructions go.                             *)
(***************************************************************************)
LEMMA ProgramFacts ==
  ASSUME option \in Options
  PROVE  /\ kind \in Kinds /\ RobSize \in Nat \ {0}
         /\ Program \in Seq([op : STRING, targets : SUBSET Nat, does : Effects])
         /\ Len(Program) \in Nat /\ DOMAIN Program = 1 .. Len(Program)
         /\ Entry \in DOMAIN Program
         /\ \A pc \in DOMAIN Program : Program[pc].targets \subseteq DOMAIN Program
<1>1. /\ option.kind \in Kinds /\ option.rob_size \in Nat \ {0}
      /\ option.program \in Seq([op : STRING, targets : SUBSET Nat, does : Effects])
      /\ Entry \in DOMAIN option.program
      /\ \A pc \in DOMAIN option.program :
           option.program[pc].targets \subseteq DOMAIN option.program
  BY ProgramAssumption
<1>2. Len(option.program) \in Nat /\ DOMAIN option.program = 1 .. Len(option.program)
  <2>. DEFINE S == [op : STRING, targets : SUBSET Nat, does : Effects]
  <2>1. option.program \in Seq(S)  BY <1>1
  <2>. HIDE DEF S
  <2>. QED  BY <2>1
<1>. QED  BY <1>1, <1>2 DEF kind, RobSize, Program

LEMMA AddressFacts ==
  ASSUME option \in Options
  PROVE  /\ DOMAIN Program \subseteq Addresses /\ DOMAIN Program \subseteq Nat \ {0}
         /\ \A pc \in DOMAIN Program : pc + 1 \in Addresses
         /\ Unknown \in Addresses /\ Unknown \notin DOMAIN Program /\ Unknown # 0
         /\ 0 \notin Addresses /\ Addresses \subseteq Int /\ Entry \in Addresses
<1>1. /\ Len(Program) \in Nat /\ DOMAIN Program = 1 .. Len(Program)
      /\ Entry \in DOMAIN Program
  BY ProgramFacts
<1>2. Addresses = 1 .. Len(Program) \cup {Len(Program) + 1, 0 - 1} /\ Unknown = 0 - 1
  BY <1>1 DEF Addresses, Unknown
<1>. QED  BY <1>1, <1>2

LEMMA OpsOfText ==
  ASSUME NEW pc, IsCtrl(OpAt(pc))
  PROVE  pc \in DOMAIN Program /\ InText(pc) /\ Next4(pc) = pc + 1
BY DEF OpAt, IsCtrl, InText, Next4

LEMMA OpsAreCtrl ==
  ASSUME NEW op
  PROVE  /\ IsCond(op) => IsCtrl(op) /\ IsDirect(op) /\ ~ IsReturn(op) /\ ~ IsCall(op)
         /\ IsReturn(op) => IsCtrl(op) /\ ~ IsCall(op) /\ ~ IsDirect(op)
         /\ IsCall(op) => IsCtrl(op)
         /\ IsDirect(op) => IsCtrl(op)
         /\ op = "trap" => ~ IsCtrl(op)
BY DEF IsCond, IsCtrl, IsDirect, IsReturn, IsCall

LEMMA Next4Is ==
  ASSUME option \in Options, NEW pc \in Addresses
  PROVE  Next4(pc) \in Addresses
BY AddressFacts DEF Next4, InText

LEMMA OutcomesAre ==
  ASSUME option \in Options, NEW pc \in Addresses
  PROVE  /\ Outcomes(pc) \subseteq Addresses
         /\ IsCtrl(OpAt(pc)) =>
              \A next \in Outcomes(pc) : next # pc + 1 => next \in Program[pc].targets
         /\ IsDirect(OpAt(pc)) =>
              \A next \in Outcomes(pc) : next = Next4(pc) \/ next \in Program[pc].targets
<1>1. CASE IsCtrl(OpAt(pc))
  <2>1. pc \in DOMAIN Program /\ Next4(pc) = pc + 1  BY <1>1, OpsOfText
  <2>2. Program[pc].targets \subseteq Addresses /\ Next4(pc) \in Addresses
    BY <2>1, ProgramFacts, AddressFacts
  <2>3. Outcomes(pc) = IF IsCond(OpAt(pc)) THEN Program[pc].targets \cup {Next4(pc)}
                       ELSE Program[pc].targets
    BY <1>1 DEF Outcomes
  <2>. QED  BY <2>1, <2>2, <2>3
<1>2. CASE ~ IsCtrl(OpAt(pc))
  <2>1. Outcomes(pc) = {Next4(pc)}  BY <1>2, OpsAreCtrl DEF Outcomes
  <2>2. ~ IsDirect(OpAt(pc))  BY <1>2, OpsAreCtrl
  <2>. QED  BY <1>2, <2>1, <2>2, Next4Is
<1>. QED  BY <1>1, <1>2

LEMMA DoesIs ==
  ASSUME option \in Options, NEW pc
  PROVE  DoesAt(pc) \in Effects
<1>1. Nothing \in Effects  BY RegsAssumption DEF Nothing, Effect, Effects
<1>2. ASSUME InText(pc) PROVE Program[pc].does \in Effects
  <2>1. Program[pc] \in [op : STRING, targets : SUBSET Nat, does : Effects]
    <3>. DEFINE S == [op : STRING, targets : SUBSET Nat, does : Effects]
    <3>1. Program \in Seq(S) /\ pc \in DOMAIN Program  BY <1>2, ProgramFacts DEF InText
    <3>. HIDE DEF S
    <3>2. Program[pc] \in S  BY <3>1
    <3>. QED  BY <3>2 DEF S
  <2>. QED  BY <2>1
<1>. QED  BY <1>1, <1>2 DEF DoesAt

-----------------------------------------------------------------------------
(***************************************************************************)
(* The return stack.                                                       *)
(***************************************************************************)
StackSize == IF kind \in Dynamic THEN RasSize ELSE 0
Tops      == IF StackSize = 0 THEN {0} ELSE 0 .. StackSize - 1
StacksNow == [size : {StackSize}, tos : Tops,
              stack : [0 .. StackSize - 1 -> Addresses \cup {0}]]

(* The top after the push or pop of an instruction that found it at top.   *)
TopAfter(op, top) ==
  CASE StackSize = 0 -> top
    [] StackSize # 0 /\ IsReturn(op) -> (top + StackSize - 1) % StackSize
    [] StackSize # 0 /\ IsCall(op) -> (top + 1) % StackSize
    [] OTHER -> top

LEMMA StackSizes == StackSize \in {0, 1, 2, 4, 8, 16, 32}
BY RasAssumption DEF StackSize, PowersOfTwo

LEMMA TopsMove ==
  ASSUME NEW top \in Tops, StackSize # 0
  PROVE  /\ (top + StackSize - 1) % StackSize \in Tops
         /\ (top + 1) % StackSize \in Tops
<1>1. CASE StackSize = 1  BY <1>1 DEF Tops
<1>2. CASE StackSize = 2  BY <1>2 DEF Tops
<1>3. CASE StackSize = 4  BY <1>3 DEF Tops
<1>4. CASE StackSize = 8  BY <1>4 DEF Tops
<1>5. CASE StackSize = 16  BY <1>5 DEF Tops
<1>6. CASE StackSize = 32  BY <1>6 DEF Tops
<1>. QED  BY <1>1, <1>2, <1>3, <1>4, <1>5, <1>6, StackSizes

LEMMA StacksMove ==
  ASSUME option \in Options, NEW s \in StacksNow
  PROVE  /\ s.size = StackSize /\ s.tos \in Tops /\ TOS(s) = s.tos
         /\ StackSize # 0 => /\ Popped(s) \in StacksNow
                             /\ TOS(Popped(s)) = (s.tos + StackSize - 1) % StackSize
                             /\ Top(s) \in Addresses \cup {0}
         /\ \A r \in Addresses \cup {0} :
              StackSize # 0 => /\ Pushed(s, r) \in StacksNow
                               /\ TOS(Pushed(s, r)) = (s.tos + 1) % StackSize
         /\ \A t \in Tops : Recovered(s, t) \in StacksNow /\ TOS(Recovered(s, t)) = t
         /\ Cleared(s) \in StacksNow /\ TOS(Cleared(s)) = 0
<1>1. /\ s.size = StackSize /\ s.tos \in Tops
      /\ s.stack \in [0 .. StackSize - 1 -> Addresses \cup {0}]
  BY DEF StacksNow
<1>2. \A t \in Tops : StackSize = 0 => t = 0  BY DEF Tops
<1>3. TOS(s) = s.tos  BY <1>1, <1>2 DEF TOS
<1>4. \A x \in StacksNow : TOS(x) = x.tos
  <2>1. \A x \in StacksNow : x.size = StackSize /\ x.tos \in Tops  BY DEF StacksNow
  <2>. QED  BY <1>2, <2>1 DEF TOS
<1>5. \A t \in Tops, f \in [0 .. StackSize - 1 -> Addresses \cup {0}] :
        /\ [s EXCEPT !.tos = t] \in StacksNow /\ [s EXCEPT !.tos = t].tos = t
        /\ [s EXCEPT !.tos = t, !.stack = f] \in StacksNow
        /\ [s EXCEPT !.tos = t, !.stack = f].tos = t
  <2>. SUFFICES ASSUME NEW t \in Tops, NEW f \in [0 .. StackSize - 1 -> Addresses \cup {0}]
                PROVE /\ [s EXCEPT !.tos = t] \in StacksNow /\ [s EXCEPT !.tos = t].tos = t
                      /\ [s EXCEPT !.tos = t, !.stack = f] \in StacksNow
                      /\ [s EXCEPT !.tos = t, !.stack = f].tos = t
    OBVIOUS
  <2>. DEFINE A == [0 .. StackSize - 1 -> Addresses \cup {0}]
  <2>1. f \in A  OBVIOUS
  <2>2. s \in [size : {StackSize}, tos : Tops, stack : A]  BY DEF StacksNow
  <2>3. StacksNow = [size : {StackSize}, tos : Tops, stack : A]  BY DEF StacksNow
  <2>. HIDE DEF A
  <2>. QED  BY <2>1, <2>2, <2>3
<1>6. ASSUME StackSize # 0
      PROVE  /\ Popped(s) \in StacksNow
             /\ TOS(Popped(s)) = (s.tos + StackSize - 1) % StackSize
             /\ Top(s) \in Addresses \cup {0}
  <2>1. Popped(s) = [s EXCEPT !.tos = (s.tos + StackSize - 1) % StackSize]
    BY <1>1 DEF Popped, StacksNow
  <2>2. s.tos \in 0 .. StackSize - 1  BY <1>1, <1>6 DEF Tops
  <2>. QED  BY <1>1, <1>4, <1>5, <1>6, <2>1, <2>2, TopsMove, ZenonT(60) DEF Top
<1>7. ASSUME NEW r \in Addresses \cup {0}, StackSize # 0
      PROVE  /\ Pushed(s, r) \in StacksNow
             /\ TOS(Pushed(s, r)) = (s.tos + 1) % StackSize
  <2>. DEFINE t == (s.tos + 1) % StackSize
              f == [s.stack EXCEPT ![t] = r]
  <2>1. Pushed(s, r) = [s EXCEPT !.tos = t, !.stack = f]
    BY <1>1 DEF Pushed, StacksNow
  <2>2. t \in Tops  BY <1>1, <1>7, TopsMove
  <2>3. f \in [0 .. StackSize - 1 -> Addresses \cup {0}]  BY <1>1
  <2>. HIDE DEF t, f
  <2>4. Pushed(s, r) \in StacksNow /\ Pushed(s, r).tos = t  BY <1>5, <2>1, <2>2, <2>3, ZenonT(60)
  <2>. QED  BY <1>4, <2>4 DEF t
<1>8. \A t \in Tops : Recovered(s, t) \in StacksNow /\ TOS(Recovered(s, t)) = t
  BY <1>1, <1>4, <1>5 DEF Recovered
<1>9. Cleared(s) \in StacksNow /\ TOS(Cleared(s)) = 0
  <2>. DEFINE f == [i \in 0 .. StackSize - 1 |-> 0]
  <2>1. Cleared(s) = [s EXCEPT !.tos = 0, !.stack = f]  BY <1>1 DEF Cleared, StacksNow
  <2>2. 0 \in Tops  BY StackSizes DEF Tops
  <2>3. f \in [0 .. StackSize - 1 -> Addresses \cup {0}]  OBVIOUS
  <2>. HIDE DEF f
  <2>4. [s EXCEPT !.tos = 0, !.stack = f] \in StacksNow /\ [s EXCEPT !.tos = 0, !.stack = f].tos = 0
    BY <1>5, <2>2, <2>3
  <2>5. Cleared(s) \in StacksNow /\ Cleared(s).tos = 0  BY <2>1, <2>4
  <2>. QED  BY <1>4, <2>5
<1>. QED  BY <1>1, <1>3, <1>6, <1>7, <1>8, <1>9

-----------------------------------------------------------------------------
(***************************************************************************)
(* The tables of counters.                                                 *)
(***************************************************************************)
Counters(size) == [0 .. size - 1 -> 0 .. 3]
Tables(Q) == [bimod : Counters(BimodSize), meta : Counters(MetaSize),
              l2 : Counters(L2Size), shiftregs : Q]

LEMMA CountedIs ==
  ASSUME NEW size, NEW f \in Counters(size), NEW i, NEW up
  PROVE  [f EXCEPT ![i] = Counted(@, up)] \in Counters(size)
<1>1. \A n \in 0 .. 3 : Counted(n, up) \in 0 .. 3  BY DEF Counted
<1>2. CASE i \in 0 .. size - 1
  <2>1. Counted(f[i], up) \in 0 .. 3  BY <1>1, <1>2 DEF Counters
  <2>. QED  BY <2>1 DEF Counters
<1>3. CASE i \notin 0 .. size - 1
  <2>1. [f EXCEPT ![i] = Counted(@, up)] = f  BY <1>3 DEF Counters
  <2>. QED  BY <2>1
<1>. QED  BY <1>2, <1>3

LEMMA TrainedIs ==
  ASSUME NEW Q, NEW t \in Tables(Q), NEW p, NEW up
  PROVE  Trained(t, p, up) \in Tables(Q)
<1>1. /\ t.bimod \in Counters(BimodSize) /\ t.meta \in Counters(MetaSize)
      /\ t.l2 \in Counters(L2Size)
  BY DEF Tables
<1>2. /\ \A f \in Counters(BimodSize) : [t EXCEPT !.bimod = f] \in Tables(Q)
      /\ \A f \in Counters(MetaSize) : [t EXCEPT !.meta = f] \in Tables(Q)
      /\ \A f \in Counters(L2Size) : [t EXCEPT !.l2 = f] \in Tables(Q)
  BY DEF Tables
<1>3. CASE p.table = "bimod"
  <2>. DEFINE f == [t.bimod EXCEPT ![p.i] = Counted(@, up)]
  <2>1. Trained(t, p, up) = [t EXCEPT !.bimod = f]  BY <1>3 DEF Trained
  <2>2. f \in Counters(BimodSize)  BY <1>1, CountedIs
  <2>. HIDE DEF f
  <2>. QED  BY <1>2, <2>1, <2>2
<1>4. CASE p.table = "meta"
  <2>. DEFINE f == [t.meta EXCEPT ![p.i] = Counted(@, up)]
  <2>1. Trained(t, p, up) = [t EXCEPT !.meta = f]  BY <1>4 DEF Trained
  <2>2. f \in Counters(MetaSize)  BY <1>1, CountedIs
  <2>. HIDE DEF f
  <2>. QED  BY <1>2, <2>1, <2>2
<1>5. CASE p.table = "l2"
  <2>. DEFINE f == [t.l2 EXCEPT ![p.i] = Counted(@, up)]
  <2>1. Trained(t, p, up) = [t EXCEPT !.l2 = f]  BY <1>5 DEF Trained
  <2>2. f \in Counters(L2Size)  BY <1>1, CountedIs
  <2>. HIDE DEF f
  <2>. QED  BY <1>2, <2>1, <2>2
<1>6. CASE p.table \notin {"bimod", "meta", "l2"}
  BY <1>6 DEF Trained
<1>. QED  BY <1>3, <1>4, <1>5, <1>6

LEMMA LearnedIs ==
  ASSUME NEW Q, NEW t \in Tables(Q), NEW knd, NEW pc, NEW cond, NEW dir, NEW taken
  PROVE  \E Q2 : Learned(knd, t, pc, cond, dir, taken) \in Tables(Q2)
<1>1. PICK Q2 : t \in Tables(Q2) /\ Shifted(t, pc, taken) \in Tables(Q2)
  <2>. DEFINE f == [t.shiftregs EXCEPT ![L1Index(pc)] =
                      (2 * @ + (IF taken THEN 1 ELSE 0)) % (2 ^ ShiftWidth)]
  <2>1. Shifted(t, pc, taken) = [t EXCEPT !.shiftregs = f]  BY DEF Shifted
  <2>. HIDE DEF f
  <2>2. t \in Tables(Q \cup {f}) /\ [t EXCEPT !.shiftregs = f] \in Tables(Q \cup {f})
    BY DEF Tables
  <2>. QED  BY <2>1, <2>2
<1>. DEFINE shifted == IF ShiftsHistory(knd, cond) THEN Shifted(t, pc, taken) ELSE t
            first == Trained(shifted, dir.pdir1, taken)
            second == Trained(first, dir.pdir2, taken)
<1>2. shifted \in Tables(Q2)  BY <1>1
<1>. HIDE DEF shifted
<1>3. first \in Tables(Q2)  BY <1>2, TrainedIs
<1>. HIDE DEF first
<1>4. second \in Tables(Q2)  BY <1>3, TrainedIs
<1>. HIDE DEF second
<1>5. MetaTrained(second, dir, taken) \in Tables(Q2)
  <2>1. \/ MetaTrained(second, dir, taken) = second
        \/ MetaTrained(second, dir, taken)
             = Trained(second, dir.pmeta, dir.twolev = taken)
    BY DEF MetaTrained
  <2>. QED  BY <1>4, <2>1, TrainedIs
<1>6. Learned(knd, t, pc, cond, dir, taken) = MetaTrained(second, dir, taken)
  BY DEF Learned, second, first, shifted
<1>. QED  BY <1>5, <1>6

-----------------------------------------------------------------------------
(***************************************************************************)
(* The target buffer: pos is the order of the ways of a set from the most  *)
(* recently used on, of which prev and next are the neighbours.            *)
(***************************************************************************)
Permutes(pos) ==
  /\ pos \in [Ways -> Ways]
  /\ \A i \in Ways : \E w \in Ways : pos[w] = i
  /\ \A v, w \in Ways : pos[v] = pos[w] => v = w

Neighbours(set, pos) ==
  /\ \A w \in Ways : set[w].next \in Ways \cup {NoWay} /\ set[w].prev \in Ways \cup {NoWay}
  /\ \A v, w \in Ways : set[v].next = w <=> pos[w] = pos[v] + 1
  /\ \A v, w \in Ways : set[v].prev = w <=> pos[v] = pos[w] + 1
  /\ \A w \in Ways : set[w].next = NoWay <=> pos[w] = BtbAssoc - 1
  /\ \A w \in Ways : set[w].prev = NoWay <=> pos[w] = 0

Ordered(set) == \E pos : Permutes(pos) /\ Neighbours(set, pos)

LEMMA WayFacts ==
  /\ BtbAssoc \in Nat \ {0} /\ Ways \subseteq Nat /\ NoWay \notin Ways
  /\ 0 \in Ways /\ BtbAssoc - 1 \in Ways
  /\ \A w \in Ways : 0 <= w /\ w < BtbAssoc
  /\ \A w \in Nat : w < BtbAssoc => w \in Ways
BY BtbAssumption DEF Ways, NoWay

(* The position of each way when w has moved to the front.                 *)
Moved(pos, w) == [v \in Ways |-> IF v = w THEN 0
                                 ELSE IF pos[v] < pos[w] THEN pos[v] + 1 ELSE pos[v]]

LEMMA MovedPermutes ==
  ASSUME NEW pos, Permutes(pos), NEW w \in Ways
  PROVE  Permutes(Moved(pos, w))
<1>1. pos \in [Ways -> Ways] /\ \A v \in Ways : pos[v] \in Nat /\ pos[v] < BtbAssoc
  BY WayFacts DEF Permutes
<1>2. \A v \in Ways : Moved(pos, w)[v] = IF v = w THEN 0
                                         ELSE IF pos[v] < pos[w] THEN pos[v] + 1 ELSE pos[v]
  BY DEF Moved
<1>3. \A v \in Ways : Moved(pos, w)[v] \in Ways
  BY <1>1, <1>2, WayFacts
<1>4. Moved(pos, w) \in [Ways -> Ways]  BY <1>3 DEF Moved
<1>5. ASSUME NEW i \in Ways PROVE \E v \in Ways : Moved(pos, w)[v] = i
  <2>1. CASE i = 0  BY <1>2, <2>1
  <2>2. CASE i # 0 /\ i <= pos[w]
    <3>1. i - 1 \in Ways  BY <2>2, WayFacts
    <3>2. PICK v \in Ways : pos[v] = i - 1  BY <3>1 DEF Permutes
    <3>3. v # w /\ pos[v] < pos[w] /\ pos[v] + 1 = i  BY <1>1, <2>2, <3>2, WayFacts
    <3>. QED  BY <1>2, <3>3
  <2>3. CASE i > pos[w]
    <3>1. PICK v \in Ways : pos[v] = i  BY DEF Permutes
    <3>2. v # w /\ ~ (pos[v] < pos[w])  BY <1>1, <2>3, <3>1, WayFacts
    <3>. QED  BY <1>2, <3>1, <3>2
  <2>. QED  BY <1>1, <2>1, <2>2, <2>3, WayFacts
<1>6. ASSUME NEW v \in Ways, NEW x \in Ways, Moved(pos, w)[v] = Moved(pos, w)[x]
      PROVE  v = x
  <2>1. pos[v] = pos[x] => v = x  BY DEF Permutes
  <2>2. pos[v] = pos[w] => v = w  BY DEF Permutes
  <2>3. pos[x] = pos[w] => x = w  BY DEF Permutes
  <2>. QED  BY <1>1, <1>2, <1>6, <2>1, <2>2, <2>3
<1>. QED  BY <1>4, <1>5, <1>6 DEF Permutes

LEMMA HeadIs ==
  ASSUME NEW set, NEW pos, Permutes(pos), Neighbours(set, pos)
  PROVE  \E h \in Ways : /\ pos[h] = 0 /\ Heads(set) = {h}
                         /\ (CHOOSE x \in Ways : x \in Heads(set)) = h
<1>1. PICK h \in Ways : pos[h] = 0  BY WayFacts DEF Permutes
<1>2. \A x \in Ways : x \in Heads(set) <=> x = h
  BY <1>1 DEF Heads, Neighbours, Permutes
<1>3. Heads(set) = {h}  BY <1>2 DEF Heads
<1>4. (CHOOSE x \in Ways : x \in Heads(set)) = h  BY <1>2
<1>. QED  BY <1>1, <1>3, <1>4

LEMMA TailIs ==
  ASSUME NEW set, NEW pos, Permutes(pos), Neighbours(set, pos)
  PROVE  \E h \in Ways : /\ pos[h] = BtbAssoc - 1 /\ Tails(set) = {h}
                         /\ (CHOOSE x \in Ways : x \in Tails(set)) = h
<1>1. PICK h \in Ways : pos[h] = BtbAssoc - 1  BY WayFacts DEF Permutes
<1>2. \A x \in Ways : x \in Tails(set) <=> x = h
  BY <1>1 DEF Tails, Neighbours, Permutes
<1>3. Tails(set) = {h}  BY <1>2 DEF Tails
<1>4. (CHOOSE x \in Ways : x \in Tails(set)) = h  BY <1>2
<1>. QED  BY <1>1, <1>3, <1>4

Ents(addr) == [addr : addr, target : addr, prev : Ways \cup {NoWay},
               next : Ways \cup {NoWay}]

LEMMA MovedToFrontIs ==
  ASSUME NEW A, NEW set \in [Ways -> Ents(A)], Ordered(set), NEW w \in Ways
  PROVE  /\ MovedToFront(set, w) \in [Ways -> Ents(A)]
         /\ Ordered(MovedToFront(set, w))
         /\ \A v \in Ways : /\ MovedToFront(set, w)[v].addr = set[v].addr
                            /\ MovedToFront(set, w)[v].target = set[v].target
<1>1. PICK pos : Permutes(pos) /\ Neighbours(set, pos)  BY DEF Ordered
<1>2. PICK h \in Ways : /\ pos[h] = 0 /\ Heads(set) = {h}
                        /\ (CHOOSE x \in Ways : x \in Heads(set)) = h
  BY <1>1, HeadIs
<1>. DEFINE new == MovedToFront(set, w)
            m == Moved(pos, w)
<1>3. CASE w = h
  <2>1. new = set  BY <1>2, <1>3 DEF MovedToFront
  <2>. QED  BY <2>1
<1>4. CASE w # h
  <2>0. /\ pos \in [Ways -> Ways]
        /\ \A v \in Ways : pos[v] \in Nat /\ pos[v] < BtbAssoc
        /\ \A v, x \in Ways : pos[v] = pos[x] => v = x
    BY <1>1, WayFacts DEF Permutes
  <2>1. PICK p \in Ways : set[w].prev = p /\ pos[w] = pos[p] + 1
    <3>1. pos[w] # 0  BY <1>2, <1>4, <2>0
    <3>2. set[w].prev \in Ways  BY <1>1, <3>1 DEF Neighbours
    <3>. QED  BY <1>1, <3>2 DEF Neighbours
  <2>2. PICK n : n = set[w].next  OBVIOUS
  <2>3. n \in Ways \cup {NoWay}  BY <1>1, <2>2 DEF Neighbours
  <2>4. ASSUME NEW v \in Ways
        PROVE  /\ new[v] \in Ents(A)
               /\ new[v].addr = set[v].addr /\ new[v].target = set[v].target
               /\ new[v].next = IF v = w THEN h ELSE IF v = p THEN n ELSE set[v].next
               /\ new[v].prev = IF v = w THEN NoWay ELSE IF v = h THEN w
                                ELSE IF v = n THEN p ELSE set[v].prev
    <3>. DEFINE e == set[v]
                a == IF v = w THEN h ELSE IF v = p THEN n ELSE e.next
                b == IF v = w THEN NoWay ELSE IF v = h THEN w ELSE IF v = n THEN p ELSE e.prev
    <3>1. new[v] = [e EXCEPT !.next = a, !.prev = b]
      BY <1>2, <1>4, <2>1, <2>2 DEF MovedToFront
    <3>2. e \in Ents(A)  OBVIOUS
    <3>3. a \in Ways \cup {NoWay} /\ b \in Ways \cup {NoWay}  BY <2>3, <3>2 DEF Ents
    <3>. HIDE DEF e, a, b, new
    <3>4. /\ new[v] \in Ents(A) /\ new[v].addr = e.addr /\ new[v].target = e.target
          /\ new[v].next = a /\ new[v].prev = b
      BY <3>1, <3>2, <3>3 DEF Ents
    <3>. QED  BY <3>4 DEF e, a, b
  <2>5. new = [v \in Ways |-> new[v]]  BY <1>2, <1>4 DEF MovedToFront
  <2>. HIDE DEF new
  <2>6. new \in [Ways -> Ents(A)]  BY <2>4, <2>5
  <2>7. Permutes(m)  BY <1>1, MovedPermutes
  <2>8. \A v \in Ways : m[v] = IF v = w THEN 0
                               ELSE IF pos[v] < pos[w] THEN pos[v] + 1 ELSE pos[v]
    BY DEF Moved
  <2>. HIDE DEF m
  <2>9. /\ n = NoWay <=> pos[w] = BtbAssoc - 1
        /\ \A v \in Ways : n = v <=> pos[v] = pos[w] + 1
    BY <1>1, <2>2 DEF Neighbours
  <2>10. Neighbours(new, m)
    <3>1. ASSUME NEW v \in Ways, NEW x \in Ways
          PROVE  new[v].next = x <=> m[x] = m[v] + 1
      <4>1. /\ set[v].next = x <=> pos[x] = pos[v] + 1
            /\ n = x <=> pos[x] = pos[w] + 1
            /\ new[v].next = IF v = w THEN h ELSE IF v = p THEN n ELSE set[v].next
            /\ pos[v] = pos[x] => v = x
            /\ pos[v] = pos[w] => v = w
            /\ pos[x] = pos[w] => x = w
            /\ pos[x] = pos[h] => x = h
            /\ pos[v] = pos[p] => v = p
        BY <1>1, <2>0, <2>4, <2>9 DEF Neighbours
      <4>2. /\ pos[v] \in Nat /\ pos[x] \in Nat /\ pos[w] \in Nat /\ pos[p] \in Nat
        BY <2>0
      <4>. QED  BY <4>1, <4>2, <2>8, <1>2, <1>4, <2>1
    <3>2. ASSUME NEW v \in Ways, NEW x \in Ways
          PROVE  new[v].prev = x <=> m[v] = m[x] + 1
      <4>1. /\ set[v].prev = x <=> pos[v] = pos[x] + 1
            /\ n = v <=> pos[v] = pos[w] + 1
            /\ new[v].prev = IF v = w THEN NoWay ELSE IF v = h THEN w
                                ELSE IF v = n THEN p ELSE set[v].prev
            /\ pos[v] = pos[x] => v = x
            /\ pos[v] = pos[w] => v = w
            /\ pos[x] = pos[w] => x = w
            /\ pos[v] = pos[h] => v = h
            /\ pos[x] = pos[p] => x = p
            /\ pos[x] = pos[h] => x = h
            /\ NoWay # x
        BY <1>1, <2>0, <2>4, <2>9, WayFacts DEF Neighbours
      <4>2. /\ pos[v] \in Nat /\ pos[x] \in Nat /\ pos[w] \in Nat /\ pos[p] \in Nat
        BY <2>0
      <4>. QED  BY <4>1, <4>2, <2>8, <1>2, <1>4, <2>1
    <3>3. ASSUME NEW v \in Ways
          PROVE  new[v].next = NoWay <=> m[v] = BtbAssoc - 1
      <4>1. /\ set[v].next = NoWay <=> pos[v] = BtbAssoc - 1
            /\ new[v].next = IF v = w THEN h ELSE IF v = p THEN n ELSE set[v].next
            /\ pos[v] = pos[w] => v = w
            /\ pos[v] = pos[p] => v = p
            /\ h # NoWay
        BY <1>1, <2>0, <2>4, WayFacts DEF Neighbours
      <4>2. /\ pos[v] \in Nat /\ pos[w] \in Nat /\ pos[p] \in Nat /\ BtbAssoc \in Nat
            /\ pos[w] < BtbAssoc /\ pos[v] < BtbAssoc /\ pos[h] = 0 /\ pos[w] # 0
        BY <2>0, <1>2, <1>4, WayFacts
      <4>3. m[v] = IF v = w THEN 0 ELSE IF pos[v] < pos[w] THEN pos[v] + 1 ELSE pos[v]
        BY <2>8
      <4>4. CASE v = w  BY <4>1, <4>2, <4>3, <4>4
      <4>5. CASE v = p /\ v # w  BY <4>1, <4>2, <4>3, <4>5, <2>1, <2>9
      <4>6. CASE v # w /\ v # p  BY <4>1, <4>2, <4>3, <4>6, <2>1
      <4>. QED  BY <4>4, <4>5, <4>6
    <3>4. ASSUME NEW v \in Ways
          PROVE  new[v].prev = NoWay <=> m[v] = 0
      <4>1. /\ set[v].prev = NoWay <=> pos[v] = 0
            /\ new[v].prev = IF v = w THEN NoWay ELSE IF v = h THEN w
                                ELSE IF v = n THEN p ELSE set[v].prev
            /\ pos[v] = pos[h] => v = h
            /\ w # NoWay /\ p # NoWay
            /\ n = v <=> pos[v] = pos[w] + 1
        BY <1>1, <2>0, <2>4, <2>9, WayFacts DEF Neighbours
      <4>2. pos[v] \in Nat /\ pos[w] \in Nat /\ pos[h] = 0 /\ pos[w] # 0
        BY <2>0, <1>2, <1>4
      <4>3. m[v] = IF v = w THEN 0 ELSE IF pos[v] < pos[w] THEN pos[v] + 1 ELSE pos[v]
        BY <2>8
      <4>4. CASE v = w  BY <4>1, <4>3, <4>4
      <4>5. CASE v = h /\ v # w  BY <4>1, <4>2, <4>3, <4>5
      <4>6. CASE v # w /\ v # h  BY <4>1, <4>2, <4>3, <4>6
      <4>. QED  BY <4>4, <4>5, <4>6
    <3>5. \A v \in Ways : new[v].next \in Ways \cup {NoWay} /\ new[v].prev \in Ways \cup {NoWay}
      <4>. SUFFICES ASSUME NEW v \in Ways
                    PROVE new[v].next \in Ways \cup {NoWay} /\ new[v].prev \in Ways \cup {NoWay}
        OBVIOUS
      <4>1. new[v] \in Ents(A)  BY <2>4
      <4>. QED  BY <4>1 DEF Ents
    <3>. QED  BY <3>1, <3>2, <3>3, <3>4, <3>5 DEF Neighbours
  <2>11. Ordered(new)  BY <2>7, <2>10 DEF Ordered
  <2>. QED  BY <2>4, <2>6, <2>11 DEF new
<1>. QED  BY <1>3, <1>4

(* What is known of a way: no address yet, or a branch and where it goes.  *)
Learnt(e) == e.addr # 0 => IsCtrl(OpAt(e.addr)) /\ e.target \in Program[e.addr].targets

SetOK(set) ==
  /\ set \in [Ways -> Ents(Addresses \cup {0})]
  /\ Ordered(set)
  /\ \A v, w \in Ways : set[v].addr = set[w].addr /\ set[v].addr # 0 => v = w
  /\ \A w \in Ways : Learnt(set[w])

BtbOK(btb) == /\ btb \in [0 .. BtbSets - 1 -> [Ways -> Ents(Addresses \cup {0})]]
              /\ \A s \in 0 .. BtbSets - 1 : SetOK(btb[s])

LEMMA SetOfIs ==
  ASSUME NEW pc \in Nat
  PROVE  SetOf(pc) \in 0 .. BtbSets - 1
<1>1. CASE BtbSets = 1  BY <1>1 DEF SetOf
<1>2. CASE BtbSets = 2  BY <1>2 DEF SetOf
<1>3. CASE BtbSets = 4  BY <1>3 DEF SetOf
<1>4. CASE BtbSets = 8  BY <1>4 DEF SetOf
<1>5. CASE BtbSets = 16  BY <1>5 DEF SetOf
<1>. QED  BY <1>1, <1>2, <1>3, <1>4, <1>5, BtbAssumption

LEMMA NewBtbIs == BtbOK(NewBtb)
<1>. DEFINE e(w) == [addr |-> 0, target |-> 0,
                     prev |-> IF w = 0 THEN NoWay ELSE w - 1,
                     next |-> IF w = BtbAssoc - 1 THEN NoWay ELSE w + 1]
            set == [w \in Ways |-> e(w)]
            id == [w \in Ways |-> w]
<1>1. NewBtb = [s \in 0 .. BtbSets - 1 |-> set]  BY DEF NewBtb
<1>2. \A w \in Ways : e(w) \in Ents(Addresses \cup {0})
  <2>. SUFFICES ASSUME NEW w \in Ways PROVE e(w) \in Ents(Addresses \cup {0})  OBVIOUS
  <2>1. /\ w # 0 => w - 1 \in Ways
        /\ w # BtbAssoc - 1 => w + 1 \in Ways
    BY WayFacts
  <2>. QED  BY <2>1 DEF Ents
<1>3. set \in [Ways -> Ents(Addresses \cup {0})]  BY <1>2
<1>4. Permutes(id)  BY DEF Permutes
<1>5. Neighbours(set, id)
  <2>1. \A w \in Ways : /\ set[w].next = IF w = BtbAssoc - 1 THEN NoWay ELSE w + 1
                        /\ set[w].prev = IF w = 0 THEN NoWay ELSE w - 1
                        /\ id[w] = w
    OBVIOUS
  <2>. HIDE DEF set, id
  <2>2. \A w \in Ways : set[w].next \in Ways \cup {NoWay} /\ set[w].prev \in Ways \cup {NoWay}
    <3>. SUFFICES ASSUME NEW w \in Ways
                  PROVE  set[w].next \in Ways \cup {NoWay} /\ set[w].prev \in Ways \cup {NoWay}
      OBVIOUS
    <3>1. w \in Nat /\ w < BtbAssoc /\ BtbAssoc \in Nat  BY WayFacts
    <3>2. w # 0 => w - 1 \in Ways  BY <3>1, WayFacts
    <3>3. w # BtbAssoc - 1 => w + 1 \in Ways  BY <3>1, WayFacts
    <3>. QED  BY <2>1, <3>2, <3>3
  <2>3. ASSUME NEW w \in Ways
        PROVE  /\ set[w].next = NoWay <=> id[w] = BtbAssoc - 1
               /\ set[w].prev = NoWay <=> id[w] = 0
    <3>1. w \in Nat /\ w < BtbAssoc /\ BtbAssoc \in Nat /\ NoWay \notin Ways  BY WayFacts
    <3>2. w # 0 => w - 1 \in Ways  BY <3>1, WayFacts
    <3>3. w # BtbAssoc - 1 => w + 1 \in Ways  BY <3>1, WayFacts
    <3>. QED  BY <2>1, <3>1, <3>2, <3>3
  <2>4. ASSUME NEW v \in Ways, NEW w \in Ways
        PROVE  /\ set[v].next = w <=> id[w] = id[v] + 1
               /\ set[v].prev = w <=> id[v] = id[w] + 1
    <3>1. /\ v \in Nat /\ v < BtbAssoc /\ w \in Nat /\ w < BtbAssoc
          /\ BtbAssoc \in Nat /\ NoWay \notin Ways
      BY WayFacts
    <3>2. /\ id[v] = v /\ id[w] = w
          /\ set[v].next = IF v = BtbAssoc - 1 THEN NoWay ELSE v + 1
          /\ set[v].prev = IF v = 0 THEN NoWay ELSE v - 1
      BY <2>1
    <3>3. set[v].next = w <=> w = v + 1
      <4>1. CASE v = BtbAssoc - 1  BY <3>1, <3>2, <4>1
      <4>2. CASE v # BtbAssoc - 1  BY <3>1, <3>2, <4>2
      <4>. QED  BY <4>1, <4>2
    <3>4. set[v].prev = w <=> v = w + 1
      <4>1. CASE v = 0  BY <3>1, <3>2, <4>1
      <4>2. CASE v # 0  BY <3>1, <3>2, <4>2
      <4>. QED  BY <4>1, <4>2
    <3>. QED  BY <3>2, <3>3, <3>4
  <2>. QED  BY <2>2, <2>3, <2>4 DEF Neighbours
<1>6. Ordered(set)  BY <1>4, <1>5 DEF Ordered
<1>7. \A w \in Ways : set[w].addr = 0  OBVIOUS
<1>. HIDE DEF set
<1>8. SetOK(set)  BY <1>3, <1>6, <1>7 DEF SetOK, Learnt
<1>. QED  BY <1>1, <1>3, <1>8 DEF BtbOK

LEMMA VictimIs ==
  ASSUME option \in Options, NEW btb, BtbOK(btb), NEW pc, IsCtrl(OpAt(pc))
  PROVE  LET w == Victim(btb, pc)
         IN /\ w \in Ways
            /\ \A v \in Ways : btb[SetOf(pc)][v].addr = pc => v = w
<1>. DEFINE set == btb[SetOf(pc)]
            w == Victim(btb, pc)
<1>1. pc \in Nat /\ pc # 0  BY OpsOfText, AddressFacts
<1>2. SetOK(set)  BY <1>1, SetOfIs DEF BtbOK
<1>3. CASE BtbAssoc = 1
  <2>1. Ways = {0} /\ w = 0  BY <1>3 DEF Ways, Victim
  <2>. QED  BY <2>1
<1>4. CASE BtbAssoc # 1 /\ Hits(btb, pc) # {}
  <2>1. w = CHOOSE x \in Ways : x \in Hits(btb, pc)  BY <1>4 DEF Victim
  <2>2. Hits(btb, pc) \subseteq Ways  BY DEF Hits
  <2>3. w \in Ways /\ w \in Hits(btb, pc)  BY <1>4, <2>1, <2>2
  <2>4. set[w].addr = pc  BY <2>3 DEF Hits
  <2>. QED  BY <1>1, <1>2, <2>3, <2>4 DEF SetOK
<1>5. CASE BtbAssoc # 1 /\ Hits(btb, pc) = {}
  <2>1. w = CHOOSE x \in Ways : x \in Tails(set)  BY <1>5 DEF Victim
  <2>2. PICK pos : Permutes(pos) /\ Neighbours(set, pos)  BY <1>2 DEF SetOK, Ordered
  <2>3. w \in Ways
    <3>. HIDE DEF set, w
    <3>. QED  BY <2>1, <2>2, TailIs
  <2>4. \A v \in Ways : set[v].addr # pc  BY <1>5 DEF Hits
  <2>. QED  BY <2>3, <2>4
<1>. QED  BY <1>3, <1>4, <1>5

LEMMA EnteredIs ==
  ASSUME option \in Options, NEW btb, BtbOK(btb), NEW pc, IsCtrl(OpAt(pc)),
         NEW target, NEW taken \in BOOLEAN, taken => target \in Program[pc].targets,
         NEW correct
  PROVE  BtbOK(Entered(btb, pc, taken, correct, target))
<1>. DEFINE s == SetOf(pc)
            w == Victim(btb, pc)
            set == MovedToFront(btb[s], w)
            last == [set EXCEPT ![w].addr = pc, ![w].target = target]
            A == Addresses \cup {0}
<1>1. pc \in DOMAIN Program /\ pc \in Nat /\ pc # 0 /\ pc \in Addresses
  BY OpsOfText, AddressFacts
<1>2. s \in 0 .. BtbSets - 1 /\ SetOK(btb[s])  BY <1>1, SetOfIs DEF BtbOK
<1>3. w \in Ways /\ \A v \in Ways : btb[s][v].addr = pc => v = w
  BY VictimIs
<1>4. /\ set \in [Ways -> Ents(A)] /\ Ordered(set)
      /\ \A v \in Ways : set[v].addr = btb[s][v].addr /\ set[v].target = btb[s][v].target
  <2>1. btb[s] \in [Ways -> Ents(A)] /\ Ordered(btb[s])  BY <1>2 DEF SetOK
  <2>. HIDE DEF A, s, w
  <2>. QED  BY <1>3, <2>1, MovedToFrontIs
<1>5. SetOK(set)
  <2>1. \A v, x \in Ways : set[v].addr = set[x].addr /\ set[v].addr # 0 => v = x
    BY <1>2, <1>4 DEF SetOK
  <2>2. \A v \in Ways : Learnt(set[v])  BY <1>2, <1>4 DEF SetOK, Learnt
  <2>. HIDE DEF set
  <2>. QED  BY <1>4, <2>1, <2>2 DEF SetOK
<1>6. ASSUME taken PROVE SetOK(last)
  <2>0. target \in Program[pc].targets /\ target \in A
    BY <1>1, <1>6, ProgramFacts, AddressFacts
  <2>. HIDE DEF set, w, s
  <2>1. \A v \in Ways : /\ last[v] \in Ents(A)
                        /\ last[v].next = set[v].next /\ last[v].prev = set[v].prev
                        /\ v # w => last[v] = set[v]
                        /\ v = w => last[v].addr = pc /\ last[v].target = target
    <3>. SUFFICES ASSUME NEW v \in Ways
                  PROVE /\ last[v] \in Ents(A)
                        /\ last[v].next = set[v].next /\ last[v].prev = set[v].prev
                        /\ v # w => last[v] = set[v]
                        /\ v = w => last[v].addr = pc /\ last[v].target = target
      OBVIOUS
    <3>1. CASE v # w
      <4>1. last[v] = set[v]  BY <1>4, <3>1
      <4>. QED  BY <1>4, <3>1, <4>1
    <3>2. CASE v = w
      <4>1. last[v] = [set[w] EXCEPT !.addr = pc, !.target = target]  BY <1>4, <3>2
      <4>2. set[w] \in Ents(A)  BY <1>3, <1>4
      <4>. HIDE DEF last
      <4>3. /\ last[v] \in Ents(A) /\ last[v].addr = pc /\ last[v].target = target
            /\ last[v].next = set[w].next /\ last[v].prev = set[w].prev
        BY <1>1, <2>0, <4>1, <4>2 DEF Ents
      <4>. QED  BY <3>2, <4>3
    <3>. QED  BY <3>1, <3>2
  <2>2. last \in [Ways -> Ents(A)]
    <3>1. last = [v \in Ways |-> last[v]]  BY <1>4
    <3>. HIDE DEF last
    <3>. QED  BY <2>1, <3>1
  <2>. HIDE DEF last
  <2>3. Ordered(last)
    <3>1. PICK pos : Permutes(pos) /\ Neighbours(set, pos)  BY <1>4 DEF Ordered
    <3>2. Neighbours(last, pos)  BY <2>1, <3>1 DEF Neighbours
    <3>. QED  BY <3>1, <3>2 DEF Ordered
  <2>4. \A v, x \in Ways : last[v].addr = last[x].addr /\ last[v].addr # 0 => v = x
    <3>1. \A v \in Ways : v # w => last[v].addr # pc
      BY <1>3, <1>4, <2>1
    <3>2. \A v, x \in Ways : set[v].addr = set[x].addr /\ set[v].addr # 0 => v = x
      BY <1>5 DEF SetOK
    <3>. QED  BY <2>1, <3>1, <3>2
  <2>5. \A v \in Ways : Learnt(last[v])
    <3>1. \A v \in Ways : Learnt(set[v])  BY <1>5 DEF SetOK
    <3>2. Learnt(last[w])  BY <1>3, <2>0, <2>1 DEF Learnt
    <3>. QED  BY <2>1, <3>1, <3>2
  <2>. QED  BY <2>2, <2>3, <2>4, <2>5 DEF SetOK
<1>7. CASE ~ taken
  <2>1. Entered(btb, pc, taken, correct, target) = btb  BY <1>7 DEF Entered, Allocates
  <2>. QED  BY <2>1
<1>8. CASE taken
  <2>1. PICK new : new = IF set[w].addr = pc /\ correct THEN set ELSE last  OBVIOUS
  <2>2. Entered(btb, pc, taken, correct, target) = [btb EXCEPT ![s] = new]
    BY <1>8, <2>1 DEF Entered, Allocates
  <2>3. SetOK(new)
    <3>. HIDE DEF last, set
    <3>. QED  BY <1>5, <1>6, <1>8, <2>1
  <2>4. new \in [Ways -> Ents(Addresses \cup {0})]  BY <2>3 DEF SetOK
  <2>. HIDE DEF s
  <2>5. [btb EXCEPT ![s] = new] \in [0 .. BtbSets - 1 -> [Ways -> Ents(Addresses \cup {0})]]
    BY <2>4 DEF BtbOK
  <2>6. \A x \in 0 .. BtbSets - 1 : SetOK([btb EXCEPT ![s] = new][x])
    BY <1>2, <2>3 DEF BtbOK
  <2>. QED  BY <2>2, <2>5, <2>6 DEF BtbOK
<1>. QED  BY <1>7, <1>8

LEMMA TargetIs ==
  ASSUME option \in Options, NEW p, BtbOK(p.btb), NEW pc, IsCtrl(OpAt(pc))
  PROVE  Target(p, pc) \in Addresses
<1>1. pc \in DOMAIN Program /\ pc \in Nat /\ pc # 0
  BY OpsOfText, AddressFacts
<1>2. SetOK(p.btb[SetOf(pc)])  BY <1>1, SetOfIs DEF BtbOK
<1>3. Found(p.btb, pc) \subseteq Addresses
  <2>. SUFFICES ASSUME NEW w \in Ways, p.btb[SetOf(pc)][w].addr = pc
                PROVE  p.btb[SetOf(pc)][w].target \in Addresses
    BY DEF Found, Hits
  <2>1. Learnt(p.btb[SetOf(pc)][w])  BY <1>2 DEF SetOK
  <2>2. p.btb[SetOf(pc)][w].target \in Program[pc].targets  BY <1>1, <2>1 DEF Learnt
  <2>. QED  BY <1>1, <2>2, ProgramFacts, AddressFacts
<1>. QED  BY <1>3, AddressFacts DEF Target

-----------------------------------------------------------------------------
(***************************************************************************)
(* The predictor as a whole.                                               *)
(***************************************************************************)
PredOK(p) ==
  /\ \E Q : p \in [tables : Tables(Q), btb : {b \in {p.btb} : BtbOK(b)}, ras : StacksNow]

LEMMA PredParts ==
  ASSUME NEW p
  PROVE  /\ PredOK(p) => /\ \E Q : p.tables \in Tables(Q)
                         /\ BtbOK(p.btb) /\ p.ras \in StacksNow
                         /\ p = [tables |-> p.tables, btb |-> p.btb, ras |-> p.ras]
         /\ \A Q, t, b, r : /\ p = [tables |-> t, btb |-> b, ras |-> r]
                            /\ t \in Tables(Q) /\ BtbOK(b) /\ r \in StacksNow
                            => PredOK(p)
<1>1. ASSUME PredOK(p)
      PROVE  /\ \E Q : p.tables \in Tables(Q)
             /\ BtbOK(p.btb) /\ p.ras \in StacksNow
             /\ p = [tables |-> p.tables, btb |-> p.btb, ras |-> p.ras]
  <2>1. PICK Q : p \in [tables : Tables(Q), btb : {b \in {p.btb} : BtbOK(b)}, ras : StacksNow]
    BY <1>1 DEF PredOK
  <2>. QED  BY <2>1
<1>2. ASSUME NEW Q, NEW t \in Tables(Q), NEW b, BtbOK(b), NEW r \in StacksNow,
             p = [tables |-> t, btb |-> b, ras |-> r]
      PROVE  PredOK(p)
  <2>1. p.btb = b  BY <1>2
  <2>2. b \in {x \in {p.btb} : BtbOK(x)}  BY <1>2, <2>1
  <2>3. p \in [tables : Tables(Q), btb : {x \in {p.btb} : BtbOK(x)}, ras : StacksNow]
    BY <1>2, <2>2
  <2>. QED  BY <2>3 DEF PredOK
<1>. QED  BY <1>1, <1>2

LEMMA NewPredictorIs ==
  ASSUME option \in Options
  PROVE  PredOK(NewPredictor(kind)) /\ NewPredictor(kind).ras.tos \in Tops
<1>. DEFINE p == NewPredictor(kind)
<1>1. p = [tables |-> NewTables, btb |-> NewBtb, ras |-> NewStack(StackSize)]
  BY DEF NewPredictor, StackSize
<1>2. NewStack(StackSize) \in StacksNow
  <2>1. (IF StackSize = 0 THEN 0 ELSE StackSize - 1) \in Tops  BY StackSizes DEF Tops
  <2>2. [i \in 0 .. StackSize - 1 |-> 0] \in [0 .. StackSize - 1 -> Addresses \cup {0}]
    OBVIOUS
  <2>. QED  BY <2>1, <2>2 DEF NewStack, StacksNow
<1>3. NewTables \in Tables({[i \in 0 .. L1Size - 1 |-> 0]})
  <2>1. \A n : FlipFlop(n) \in Counters(n)  BY DEF FlipFlop, Counters
  <2>. QED  BY <2>1 DEF NewTables, Tables
<1>4. PredOK(p)  BY <1>1, <1>2, <1>3, NewBtbIs, PredParts
<1>5. p.ras = NewStack(StackSize)  BY <1>1
<1>6. p.ras.tos \in Tops  BY <1>2, <1>5 DEF StacksNow
<1>. QED  BY <1>4, <1>6

LEMMA WithRas ==
  ASSUME NEW p, PredOK(p), NEW r \in StacksNow
  PROVE  PredOK([p EXCEPT !.ras = r]) /\ [p EXCEPT !.ras = r].ras = r
<1>1. PICK Q : p.tables \in Tables(Q)  BY PredParts
<1>2. BtbOK(p.btb) /\ p = [tables |-> p.tables, btb |-> p.btb, ras |-> p.ras]
  BY PredParts
<1>3. [p EXCEPT !.ras = r] = [tables |-> p.tables, btb |-> p.btb, ras |-> r]
  BY <1>2
<1>. QED  BY <1>1, <1>2, <1>3, PredParts

LEMMA UpdatedIs ==
  ASSUME option \in Options, NEW p, PredOK(p), NEW pc \in Addresses,
         NEW next \in Outcomes(pc), NEW guess, NEW upd
  PROVE  LET u == Updated(kind, p, pc, OpAt(pc), next, guess, upd)
         IN PredOK(u) /\ u.ras = p.ras
<1>. DEFINE op == OpAt(pc)
            taken == next # pc + 1
            t == Learned(kind, p.tables, pc, IsCond(op), upd.dir, taken)
            b == Entered(p.btb, pc, taken, guess = next, next)
            u == Updated(kind, p, pc, op, next, guess, upd)
<1>1. u = p \/ (IsCtrl(op) /\ u = [p EXCEPT !.tables = t, !.btb = b])
  BY DEF Updated
<1>2. CASE u = p  BY <1>2
<1>3. CASE IsCtrl(op) /\ u = [p EXCEPT !.tables = t, !.btb = b]
  <2>1. PICK Q : p.tables \in Tables(Q)  BY PredParts
  <2>2. /\ BtbOK(p.btb) /\ p.ras \in StacksNow
        /\ p = [tables |-> p.tables, btb |-> p.btb, ras |-> p.ras]
    BY PredParts
  <2>3. PICK Q2 : t \in Tables(Q2)  BY <2>1, LearnedIs
  <2>4. taken \in BOOLEAN /\ (taken => next \in Program[pc].targets)
    BY <1>3, OutcomesAre
  <2>. HIDE DEF taken
  <2>5. BtbOK(b)  BY <1>3, <2>2, <2>4, EnteredIs
  <2>. HIDE DEF t, b, u
  <2>6. u = [tables |-> t, btb |-> b, ras |-> p.ras]  BY <1>3, <2>2
  <2>. QED  BY <2>2, <2>3, <2>5, <2>6, PredParts DEF u
<1>. QED  BY <1>1, <1>2, <1>3

LEMMA LookedUpIs ==
  ASSUME option \in Options, NEW p, PredOK(p), NEW pc \in Addresses
  PROVE  LET l == LookedUp(kind, p, pc, OpAt(pc))
         IN /\ PredOK(l)
            /\ TOS(l.ras) = TopAfter(OpAt(pc), TOS(p.ras))
            /\ TOS(p.ras) \in Tops
<1>. DEFINE op == OpAt(pc)
            l == LookedUp(kind, p, pc, op)
<1>1. p.ras \in StacksNow  BY PredParts
<1>2. /\ p.ras.size = StackSize /\ TOS(p.ras) = p.ras.tos /\ TOS(p.ras) \in Tops
  BY <1>1, StacksMove
<1>3. HasStack(p) <=> StackSize # 0  BY <1>2 DEF HasStack
<1>4. StackSize # 0 => kind \in Dynamic  BY DEF StackSize
<1>5. CASE StackSize = 0
  <2>1. l = p  BY <1>3, <1>5 DEF LookedUp
  <2>. QED  BY <1>2, <1>5, <2>1 DEF TopAfter
<1>6. CASE StackSize # 0 /\ IsReturn(op)
  <2>1. l = [p EXCEPT !.ras = Popped(p.ras)]  BY <1>3, <1>4, <1>6, OpsAreCtrl DEF LookedUp
  <2>2. /\ Popped(p.ras) \in StacksNow
        /\ TOS(Popped(p.ras)) = (TOS(p.ras) + StackSize - 1) % StackSize
    BY <1>1, <1>2, <1>6, StacksMove
  <2>3. PredOK(l) /\ l.ras = Popped(p.ras)  BY <2>1, <2>2, WithRas
  <2>. QED  BY <1>2, <1>6, <2>2, <2>3, OpsAreCtrl DEF TopAfter
<1>7. CASE StackSize # 0 /\ IsCall(op)
  <2>1. l = [p EXCEPT !.ras = Pushed(p.ras, pc + 1)]
    BY <1>3, <1>4, <1>7, OpsAreCtrl DEF LookedUp
  <2>2. pc + 1 \in Addresses \cup {0}  BY <1>7, OpsAreCtrl, OpsOfText, AddressFacts
  <2>3. /\ Pushed(p.ras, pc + 1) \in StacksNow
        /\ TOS(Pushed(p.ras, pc + 1)) = (TOS(p.ras) + 1) % StackSize
    BY <1>1, <1>2, <1>7, <2>2, StacksMove
  <2>4. PredOK(l) /\ l.ras = Pushed(p.ras, pc + 1)  BY <2>1, <2>3, WithRas
  <2>. QED  BY <1>2, <1>7, <2>3, <2>4, OpsAreCtrl DEF TopAfter
<1>8. CASE StackSize # 0 /\ ~ IsReturn(op) /\ ~ IsCall(op)
  <2>1. l = p  BY <1>3, <1>4, <1>8 DEF LookedUp
  <2>2. TopAfter(op, TOS(p.ras)) = TOS(p.ras)  BY <1>8 DEF TopAfter
  <2>. QED  BY <1>2, <2>1, <2>2
<1>. QED  BY <1>5, <1>6, <1>7, <1>8

LEMMA PredictedIs ==
  ASSUME option \in Options, NEW p, PredOK(p), NEW pc \in Addresses, NEW dir
  PROVE  Predicted(kind, p, pc, OpAt(pc), dir) \in Addresses \cup {NotTaken}
<1>. DEFINE op == OpAt(pc)
            x == Predicted(kind, p, pc, op, dir)
<1>0. BtbOK(p.btb) /\ p.ras \in StacksNow  BY PredParts
<1>1. CASE ~ IsCtrl(op)
  <2>1. ~ IsReturn(op) /\ ~ IsCond(op)  BY <1>1, OpsAreCtrl
  <2>2. x = NotTaken \/ x = (IF IsCond(op) THEN pc + 1 ELSE NotTaken)
    BY <1>1, <2>1 DEF Predicted, UsesStack
  <2>. QED  BY <2>1, <2>2
<1>2. CASE IsCtrl(op)
  <2>1. pc + 1 \in Addresses  BY <1>2, OpsOfText, AddressFacts
  <2>2. Target(p, pc) \in Addresses  BY <1>0, <1>2, TargetIs
  <2>3. UsesStack(kind, p, op) => Top(p.ras) \in Addresses \cup {0}
    BY <1>0, StacksMove DEF UsesStack, HasStack
  <2>4. x \in {NotTaken, pc + 1, Target(p, pc)} \/ (UsesStack(kind, p, op) /\ x = Top(p.ras))
    BY <1>2 DEF Predicted
  <2>. QED  BY <2>1, <2>2, <2>3, <2>4 DEF NotTaken
<1>. QED  BY <1>1, <1>2

-----------------------------------------------------------------------------
(***************************************************************************)
(* The queue follows the predictor: each instruction is the one that was   *)
(* predicted after the one before it, and found the stack as that one left *)
(* it.                                                                     *)
(***************************************************************************)
Insts(D) == [pc : Addresses, pred_PC : Addresses, dir_update : D,
             stack_recover_idx : Tops]

NextPC(q, last, i)  == IF i < Len(q) THEN q[i + 1].pc ELSE last
NextTos(q, top, i)  == IF i < Len(q) THEN q[i + 1].stack_recover_idx ELSE top

Follows(q, last, top) ==
  \A i \in 1 .. Len(q) :
    /\ NextPC(q, last, i) = q[i].pred_PC
    /\ NextTos(q, top, i) = TopAfter(OpAt(q[i].pc), q[i].stack_recover_idx)

LEMMA FollowsNone ==
  ASSUME NEW last, NEW top
  PROVE  /\ Follows(<<>>, last, top)
         /\ NextPC(<<>>, last, 0) = last /\ NextTos(<<>>, top, 0) = top
BY DEF Follows, NextPC, NextTos

LEMMA FollowsPut ==
  ASSUME NEW S, NEW q \in Seq(S), NEW x \in S, NEW last, NEW top, NEW later,
         Follows(q, last, top), x.pc = last, x.stack_recover_idx = top,
         later = TopAfter(OpAt(x.pc), top)
  PROVE  /\ Follows(Append(q, x), x.pred_PC, later)
         /\ NextPC(Append(q, x), x.pred_PC, 0) = NextPC(q, last, 0)
         /\ NextTos(Append(q, x), later, 0) = NextTos(q, top, 0)
<1>. DEFINE a == Append(q, x)
            n == Len(q)
<1>1. /\ n \in Nat /\ Len(a) = n + 1 /\ a[n + 1] = x
      /\ \A i \in 1 .. n : a[i] = q[i]
  OBVIOUS
<1>. HIDE DEF a
<1>2. \A i \in 0 .. n : NextPC(a, x.pred_PC, i) = NextPC(q, last, i)
                        /\ NextTos(a, later, i) = NextTos(q, top, i)
  BY <1>1 DEF NextPC, NextTos
<1>3. NextPC(a, x.pred_PC, n + 1) = x.pred_PC /\ NextTos(a, later, n + 1) = later
  BY <1>1 DEF NextPC, NextTos
<1>4. ASSUME NEW i \in 1 .. n + 1
      PROVE  /\ NextPC(a, x.pred_PC, i) = a[i].pred_PC
             /\ NextTos(a, later, i) = TopAfter(OpAt(a[i].pc), a[i].stack_recover_idx)
  <2>1. CASE i = n + 1  BY <1>1, <1>3, <2>1
  <2>2. CASE i \in 1 .. n  BY <1>1, <1>2, <2>2 DEF Follows
  <2>. QED  BY <1>1, <2>1, <2>2
<1>5. Follows(a, x.pred_PC, later)  BY <1>1, <1>4 DEF Follows
<1>. QED  BY <1>1, <1>2, <1>5 DEF a

LEMMA FollowsTake ==
  ASSUME NEW S, NEW q \in Seq(S), NEW last, NEW top, Follows(q, last, top), Len(q) > 0
  PROVE  /\ Follows(Tail(q), last, top)
         /\ NextPC(Tail(q), last, 0) = q[1].pred_PC
         /\ NextTos(Tail(q), top, 0) = TopAfter(OpAt(q[1].pc), q[1].stack_recover_idx)
         /\ q[1].pc = NextPC(q, last, 0) /\ q[1].stack_recover_idx = NextTos(q, top, 0)
<1>. DEFINE t == Tail(q)
            n == Len(q)
<1>1. /\ n \in Nat \ {0} /\ Len(t) = n - 1
      /\ \A i \in 1 .. n - 1 : t[i] = q[i + 1]
  OBVIOUS
<1>. HIDE DEF t
<1>2. \A i \in 0 .. n - 1 : NextPC(t, last, i) = NextPC(q, last, i + 1)
                            /\ NextTos(t, top, i) = NextTos(q, top, i + 1)
  BY <1>1 DEF NextPC, NextTos
<1>3. Follows(t, last, top)  BY <1>1, <1>2 DEF Follows
<1>4. /\ NextPC(q, last, 1) = q[1].pred_PC
      /\ NextTos(q, top, 1) = TopAfter(OpAt(q[1].pc), q[1].stack_recover_idx)
  BY <1>1 DEF Follows
<1>5. NextPC(t, last, 0) = NextPC(q, last, 1) /\ NextTos(t, top, 0) = NextTos(q, top, 1)
  BY <1>1, <1>2
<1>6. q[1].pc = NextPC(q, last, 0) /\ q[1].stack_recover_idx = NextTos(q, top, 0)
  BY <1>1 DEF NextPC, NextTos
<1>. QED  BY <1>3, <1>4, <1>5, <1>6 DEF t

-----------------------------------------------------------------------------
(***************************************************************************)
(* The reorder buffer.  An entry is open from the rename of the branch     *)
(* that starts a wrong path to its recovery.                               *)
(***************************************************************************)
Entries(D) == [pc : Addresses, pred_PC : Addresses, next_PC : Addresses,
               dir_update : D, stack_recover_idx : Tops,
               recover_inst : BOOLEAN, completed : BOOLEAN, kept : Keeps]

Open(e)         == e.recover_inst /\ ~ e.completed
Done(e)         == [e EXCEPT !.completed = TRUE]
KeptAfter(r, i) == [k \in 1 .. Len(r) - i |-> r[k + i].kept]
Real(r)         == \A i \in DOMAIN r : r[i].next_PC \in Outcomes(r[i].pc)

LEMMA LargerSeq ==
  ASSUME NEW S, NEW T, S \subseteq T, NEW r \in Seq(S)
  PROVE  r \in Seq(T)
<1>1. r \in [1 .. Len(r) -> T] /\ Len(r) \in Nat  OBVIOUS
<1>. QED  BY <1>1

LEMMA DoneIs ==
  ASSUME NEW D, NEW e \in Entries(D)
  PROVE  /\ Done(e) \in Entries(D) /\ ~ Open(Done(e))
         /\ Done(e).pc = e.pc /\ Done(e).next_PC = e.next_PC
         /\ Done(e).stack_recover_idx = e.stack_recover_idx
         /\ Done(e).recover_inst = e.recover_inst /\ Done(e).kept = e.kept
BY DEF Done, Entries, Open

LEMMA KeptIs ==
  ASSUME NEW D, NEW r \in Seq(Entries(D)), NEW i \in 1 .. Len(r)
  PROVE  /\ KeptAfter(r, i) \in Seq(Keeps) /\ Len(KeptAfter(r, i)) = Len(r) - i
         /\ LET younger == SubSeq(r, i + 1, Len(r))
            IN [k \in DOMAIN younger |-> younger[k].kept] = KeptAfter(r, i)
<1>. DEFINE n == Len(r) - i
            younger == SubSeq(r, i + 1, Len(r))
<1>1. n \in Nat  OBVIOUS
<1>2. \A k \in 1 .. n : r[k + i] \in Entries(D)  OBVIOUS
<1>3. \A k \in 1 .. n : r[k + i].kept \in Keeps  BY <1>2 DEF Entries
<1>4. KeptAfter(r, i) \in Seq(Keeps) /\ Len(KeptAfter(r, i)) = n
  BY <1>1, <1>3 DEF KeptAfter
<1>5. DOMAIN younger = 1 .. n /\ \A k \in 1 .. n : younger[k] = r[k + i]
  OBVIOUS
<1>. HIDE DEF younger
<1>6. [k \in DOMAIN younger |-> younger[k].kept] = KeptAfter(r, i)
  BY <1>5 DEF KeptAfter
<1>. QED  BY <1>4, <1>6 DEF younger

LEMMA KeptOfAppend ==
  ASSUME NEW D, NEW r \in Seq(Entries(D)), NEW e \in Entries(D)
  PROVE  /\ KeptAfter(Append(r, e), Len(r) + 1) = <<>>
         /\ \A i \in 1 .. Len(r) :
              KeptAfter(Append(r, e), i) = Append(KeptAfter(r, i), e.kept)
<1>. DEFINE a == Append(r, e)
<1>1. /\ Len(r) \in Nat /\ Len(a) = Len(r) + 1 /\ a[Len(r) + 1] = e
      /\ \A i \in 1 .. Len(r) : a[i] = r[i]
  OBVIOUS
<1>. HIDE DEF a
<1>2. KeptAfter(a, Len(r) + 1) = <<>>
  BY <1>1 DEF KeptAfter
<1>3. ASSUME NEW i \in 1 .. Len(r)
      PROVE  KeptAfter(a, i) = Append(KeptAfter(r, i), e.kept)
  <2>. DEFINE n == Len(r) - i
              b == KeptAfter(r, i)
              c == Append(b, e.kept)
  <2>1. n \in Nat /\ b \in Seq(Keeps) /\ Len(b) = n  BY KeptIs
  <2>2. \A k \in 1 .. n : b[k] = r[k + i].kept  BY DEF KeptAfter
  <2>3. e.kept \in Keeps  BY DEF Entries
  <2>4. c \in Seq(Keeps) /\ Len(c) = n + 1 /\ c[n + 1] = e.kept
        /\ \A k \in 1 .. n : c[k] = b[k]
    <3>. HIDE DEF b, n
    <3>. QED  BY <2>1, <2>3
  <2>5. c = [k \in 1 .. n + 1 |-> c[k]]
    <3>. HIDE DEF c, n
    <3>. QED  BY <2>1, <2>4
  <2>6. KeptAfter(a, i) = [k \in 1 .. n + 1 |-> a[k + i].kept]
    BY <1>1 DEF KeptAfter
  <2>7. \A k \in 1 .. n + 1 : a[k + i].kept = c[k]
    <3>. SUFFICES ASSUME NEW k \in 1 .. n + 1 PROVE a[k + i].kept = c[k]  OBVIOUS
    <3>1. CASE k = n + 1
      <4>1. k + i = Len(r) + 1  BY <1>1, <3>1
      <4>. HIDE DEF c
      <4>. QED  BY <1>1, <2>4, <3>1, <4>1
    <3>2. CASE k \in 1 .. n
      <4>1. k + i \in 1 .. Len(r)  BY <1>1, <3>2
      <4>. HIDE DEF c, b
      <4>. QED  BY <1>1, <2>2, <2>4, <3>2, <4>1
    <3>. QED  BY <2>1, <3>1, <3>2, SMTT(30)
  <2>8. KeptAfter(a, i) = c
    <3>. HIDE DEF c, n
    <3>. QED  BY <2>5, <2>6, <2>7
  <2>. QED  BY <2>8
<1>. QED  BY <1>2, <1>3 DEF a

LEMMA KeptOfTail ==
  ASSUME NEW D, NEW r \in Seq(Entries(D)), NEW i \in 2 .. Len(r)
  PROVE  KeptAfter(Tail(r), i - 1) = KeptAfter(r, i)
<1>1. /\ Len(r) \in Nat /\ Len(Tail(r)) = Len(r) - 1
      /\ \A k \in 1 .. Len(r) - 1 : Tail(r)[k] = r[k + 1]
  OBVIOUS
<1>2. Len(Tail(r)) - (i - 1) = Len(r) - i  BY <1>1
<1>3. \A k \in 1 .. Len(r) - i : Tail(r)[k + (i - 1)] = r[k + i]
  <2>. SUFFICES ASSUME NEW k \in 1 .. Len(r) - i PROVE Tail(r)[k + (i - 1)] = r[k + i]
    OBVIOUS
  <2>1. k + (i - 1) \in 1 .. Len(r) - 1 /\ k + (i - 1) + 1 = k + i  BY <1>1
  <2>. QED  BY <1>1, <2>1
<1>. QED  BY <1>2, <1>3 DEF KeptAfter

LEMMA KeptOfDone ==
  ASSUME NEW D, NEW r \in Seq(Entries(D)), NEW i \in 1 .. Len(r), NEW j \in 1 .. Len(r)
  PROVE  LET d == [r EXCEPT ![j].completed = TRUE]
         IN /\ d \in Seq(Entries(D)) /\ Len(d) = Len(r)
            /\ d[j] = Done(r[j]) /\ \A k \in 1 .. Len(r) : k # j => d[k] = r[k]
            /\ KeptAfter(d, i) = KeptAfter(r, i)
<1>. DEFINE d == [r EXCEPT ![j].completed = TRUE]
<1>1. d = [r EXCEPT ![j] = Done(r[j])]  BY DEF Done
<1>2. r[j] \in Entries(D) /\ Done(r[j]) \in Entries(D) /\ Done(r[j]).kept = r[j].kept
  BY DoneIs
<1>. HIDE DEF d
<1>3. d \in Seq(Entries(D)) /\ Len(d) = Len(r)  BY <1>1, <1>2
<1>4. d[j] = Done(r[j]) /\ \A k \in 1 .. Len(r) : k # j => d[k] = r[k]
  BY <1>1, <1>2
<1>5. \A k \in 1 .. Len(r) - i : d[k + i].kept = r[k + i].kept
  <2>. SUFFICES ASSUME NEW k \in 1 .. Len(r) - i PROVE d[k + i].kept = r[k + i].kept
    OBVIOUS
  <2>1. k + i \in 1 .. Len(r)  OBVIOUS
  <2>. QED  BY <1>2, <1>4, <2>1
<1>6. KeptAfter(d, i) = KeptAfter(r, i)  BY <1>3, <1>5 DEF KeptAfter
<1>. QED  BY <1>3, <1>4, <1>6 DEF d

LEMMA DoneAt ==
  ASSUME NEW D, NEW r \in Seq(Entries(D)), NEW j \in 1 .. Len(r), NEW d,
         d = [r EXCEPT ![j] = Done(r[j])]
  PROVE  /\ d \in Seq(Entries(D)) /\ Len(d) = Len(r) /\ d[j] = Done(r[j])
         /\ \A k \in 1 .. Len(r) : k # j => d[k] = r[k]
<1>1. d = [r EXCEPT ![j].completed = TRUE]  BY DEF Done
<1>. QED  BY <1>1, KeptOfDone

-----------------------------------------------------------------------------
(***************************************************************************)
(* The inductive invariant.  On the right path what comes next is where    *)
(* the right path goes on, and the state is that of the right path; down a *)
(* wrong path there is exactly one open entry, it knows where the right    *)
(* path goes on and what its stack was, and the entries after it keep what *)
(* brings its state back.                                                  *)
(***************************************************************************)
Shaped(p, f, last, r) ==
  /\ PredOK(p) /\ last \in Addresses
  /\ \E D : RingOK(f, Insts(D)) /\ r \in Seq(Entries(D))
  /\ Real(r) /\ Len(r) <= RobSize

OnPath(q, last, top, r, m, rpc, rtos, right) ==
  /\ rpc = NextPC(q, last, 0) /\ rtos = NextTos(q, top, 0)
  /\ Zeroed(m) = Zeroed(right)
  /\ \A j \in DOMAIN r : ~ Open(r[j])

OffPath(r, i, m, rpc, rtos, right) ==
  /\ \A j \in DOMAIN r : Open(r[j]) <=> j = i
  /\ r[i].next_PC = rpc /\ r[i].stack_recover_idx = rtos
  /\ Restores(KeptAfter(r, i), m, right)

Good(p, f, last, r, spec, m, rpc, rtos, right) ==
  /\ Shaped(p, f, last, r)
  /\ spec \in BOOLEAN /\ m \in Machines /\ right \in Machines
  /\ Follows(Contents(f), last, TOS(p.ras))
  /\ ~ spec => OnPath(Contents(f), last, TOS(p.ras), r, m, rpc, rtos, right)
  /\ spec => \E i \in DOMAIN r : OffPath(r, i, m, rpc, rtos, right)

Now  == Good(pred, ifq, fetch_pred_PC, rob, spec_mode, machine,
             right_PC, right_tos, right_machine)
Then == Good(pred', ifq', fetch_pred_PC', rob', spec_mode', machine',
             right_PC', right_tos', right_machine')

FollowsTheProgram == option \in Options /\ Now

(* Only the option gives these definitions their meaning, and it stays.    *)
LEMMA OptionStays ==
  ASSUME option' = option
  PROVE  Now' <=> Then
<1>1. kind' = kind /\ Program' = Program /\ RobSize' = RobSize
  BY DEF kind, Program, RobSize
<1>2. /\ Addresses' = Addresses
      /\ \A pc : OpAt(pc)' = OpAt(pc)
      /\ \A pc : Outcomes(pc)' = Outcomes(pc)
  <2>1. \A pc : OpAt(pc)' = OpAt(pc)  BY <1>1 DEF OpAt, InText
  <2>2. \A pc : Next4(pc)' = Next4(pc)  BY <1>1 DEF Next4, InText
  <2>3. \A pc : Outcomes(pc)' = Outcomes(pc)  BY <1>1, <2>1, <2>2 DEF Outcomes
  <2>4. Addresses' = Addresses  BY <1>1 DEF Addresses
  <2>. QED  BY <2>1, <2>3, <2>4
<1>3. StackSize' = StackSize  BY <1>1 DEF StackSize
<1>4. Tops' = Tops  BY <1>3 DEF Tops
<1>5. StacksNow' = StacksNow  BY <1>2, <1>3, <1>4 DEF StacksNow
<1>6. \A op, top : TopAfter(op, top)' = TopAfter(op, top)  BY <1>3 DEF TopAfter
<1>7. \A D : Insts(D)' = Insts(D) /\ Entries(D)' = Entries(D)
  BY <1>2, <1>4 DEF Insts, Entries
<1>8. \A e : Learnt(e)' <=> Learnt(e)  BY <1>1, <1>2 DEF Learnt
<1>9. \A set : SetOK(set)' <=> SetOK(set)  BY <1>2, <1>8 DEF SetOK
<1>10. \A btb : BtbOK(btb)' <=> BtbOK(btb)  BY <1>2, <1>9 DEF BtbOK
<1>11. \A p : PredOK(p)' <=> PredOK(p)
  <2>1. \A p : {b \in {p.btb} : BtbOK(b)}' = {b \in {p.btb} : BtbOK(b)}
    BY <1>10
  <2>. QED  BY <1>5, <2>1 DEF PredOK
<1>12. \A r : Real(r)' <=> Real(r)  BY <1>2 DEF Real
<1>13. \A p, f, last, r : Shaped(p, f, last, r)' <=> Shaped(p, f, last, r)
  BY <1>1, <1>2, <1>7, <1>11, <1>12 DEF Shaped
<1>14. \A q, last, top : Follows(q, last, top)' <=> Follows(q, last, top)
  BY <1>2, <1>6 DEF Follows
<1>. QED  BY <1>13, <1>14 DEF Now, Then, Good

LEMMA InitIs == Init => FollowsTheProgram
<1>. SUFFICES ASSUME Init PROVE FollowsTheProgram  OBVIOUS
<1>1. /\ option \in Options /\ pred = NewPredictor(kind) /\ ifq = NewRing
      /\ fetch_pred_PC = Entry /\ rob = <<>> /\ spec_mode = FALSE
      /\ machine = Fresh /\ right_machine = Fresh
      /\ right_PC = Entry /\ right_tos = TOS(pred.ras)
  BY DEF Init
<1>2. PredOK(pred) /\ fetch_pred_PC \in Addresses
  BY <1>1, NewPredictorIs, AddressFacts
<1>3. RingOK(ifq, Insts({})) /\ Contents(ifq) = <<>>
  BY <1>1, NewRingIs
<1>4. rob \in Seq(Entries({})) /\ Real(rob) /\ Len(rob) <= RobSize /\ DOMAIN rob = {}
  BY <1>1, ProgramFacts DEF Real
<1>5. Shaped(pred, ifq, fetch_pred_PC, rob)  BY <1>2, <1>3, <1>4 DEF Shaped
<1>6. Fresh \in Machines  BY ValuesFacts DEF Fresh, Machines
<1>7. /\ Follows(Contents(ifq), fetch_pred_PC, TOS(pred.ras))
      /\ OnPath(Contents(ifq), fetch_pred_PC, TOS(pred.ras), rob, machine,
                right_PC, right_tos, right_machine)
  BY <1>1, <1>3, <1>4, FollowsNone DEF OnPath
<1>. QED  BY <1>1, <1>5, <1>6, <1>7 DEF FollowsTheProgram, Now, Good

(* What fetch() adds.                                                      *)
LEMMA FetchKeeps ==
  ASSUME FollowsTheProgram, Fetch
  PROVE  Then
<1>. DEFINE pc   == fetch_pred_PC
            op   == OpAt(pc)
            upd  == DirUpdate(kind, pred, pc, op)
            guess == Predicted(kind, pred, pc, op, upd.dir)
            goes == IF guess = NotTaken THEN Next4(pc) ELSE guess
            top  == TOS(pred.ras)
            x == [pc |-> pc, pred_PC |-> goes, dir_update |-> upd, stack_recover_idx |-> top]
            q == Contents(ifq)
<1>1. /\ option \in Options /\ Shaped(pred, ifq, pc, rob)
      /\ spec_mode \in BOOLEAN /\ machine \in Machines /\ right_machine \in Machines
      /\ Follows(q, pc, top)
      /\ ~ spec_mode => OnPath(q, pc, top, rob, machine, right_PC, right_tos, right_machine)
      /\ spec_mode => \E i \in DOMAIN rob :
                        OffPath(rob, i, machine, right_PC, right_tos, right_machine)
  BY DEF FollowsTheProgram, Now, Good
<1>2. /\ PredOK(pred) /\ pc \in Addresses /\ Real(rob) /\ Len(rob) <= RobSize
      /\ \E D : RingOK(ifq, Insts(D)) /\ rob \in Seq(Entries(D))
  BY <1>1 DEF Shaped
<1>3. PICK D : RingOK(ifq, Insts(D)) /\ rob \in Seq(Entries(D))  BY <1>2
<1>4. /\ ifq.num # IfqSize /\ pred' = LookedUp(kind, pred, pc, op)
      /\ fetch_pred_PC' = goes /\ ifq' = Enqueued(ifq, x)
      /\ rob' = rob /\ spec_mode' = spec_mode /\ machine' = machine
      /\ right_PC' = right_PC /\ right_tos' = right_tos /\ right_machine' = right_machine
  BY DEF Fetch, Full, RecoverIndex, history
<1>5. /\ PredOK(pred') /\ TOS(pred'.ras) = TopAfter(op, top) /\ top \in Tops
  BY <1>1, <1>2, <1>4, LookedUpIs
<1>6. goes \in Addresses
  <2>1. guess \in Addresses \cup {NotTaken}  BY <1>1, <1>2, PredictedIs
  <2>. QED  BY <1>1, <1>2, <2>1, Next4Is
<1>. DEFINE D2 == D \cup {upd}
<1>. HIDE DEF upd, goes
<1>7. x \in Insts(D2)  BY <1>2, <1>5, <1>6 DEF Insts
<1>8. RingOK(ifq, Insts(D2))
  <2>1. Insts(D) \subseteq Insts(D2)  BY DEF Insts
  <2>. QED  BY <1>3, <2>1, LargerRing
<1>9. rob \in Seq(Entries(D2))
  <2>1. Entries(D) \subseteq Entries(D2)  BY DEF Entries
  <2>. QED  BY <1>3, <2>1, LargerSeq
<1>10. RingOK(ifq', Insts(D2)) /\ Contents(ifq') = Append(q, x)
  BY <1>4, <1>7, <1>8, EnqueuedIs
<1>11. Shaped(pred', ifq', fetch_pred_PC', rob')
  BY <1>2, <1>4, <1>5, <1>6, <1>9, <1>10 DEF Shaped
<1>12. q \in Seq(Insts(D2))  BY <1>8, ContentsIs
<1>13. x.pc = pc /\ x.stack_recover_idx = top /\ x.pred_PC = goes  OBVIOUS
<1>. DEFINE later == TOS(pred'.ras)
<1>. HIDE DEF x, q, top, pc, later, D2
<1>14. /\ Follows(Append(q, x), goes, later)
       /\ NextPC(Append(q, x), goes, 0) = NextPC(q, pc, 0)
       /\ NextTos(Append(q, x), later, 0) = NextTos(q, top, 0)
  <2>1. later = TopAfter(OpAt(x.pc), top)  BY <1>5, <1>13 DEF later
  <2>. QED  BY <1>1, <1>7, <1>12, <1>13, <2>1, FollowsPut
<1>15. Follows(Contents(ifq'), fetch_pred_PC', later)  BY <1>4, <1>10, <1>14
<1>16. ~ spec_mode' => OnPath(Contents(ifq'), fetch_pred_PC', later, rob', machine',
                              right_PC', right_tos', right_machine')
  BY <1>1, <1>4, <1>10, <1>14 DEF OnPath
<1>17. spec_mode' => \E i \in DOMAIN rob' :
                       OffPath(rob', i, machine', right_PC', right_tos', right_machine')
  BY <1>1, <1>4
<1>. QED  BY <1>1, <1>4, <1>11, <1>15, <1>16, <1>17 DEF Then, Good, later

LEMMA UpdatedByIs ==
  ASSUME option \in Options, NEW p, PredOK(p), NEW D, NEW e \in Entries(D),
         e.next_PC \in Outcomes(e.pc)
  PROVE  PredOK(UpdatedBy(p, e)) /\ UpdatedBy(p, e).ras = p.ras
<1>1. e.pc \in Addresses  BY DEF Entries
<1>. QED  BY <1>1, UpdatedIs DEF UpdatedBy

LEMMA Parts ==
  ASSUME FollowsTheProgram
  PROVE  /\ option \in Options /\ PredOK(pred) /\ fetch_pred_PC \in Addresses
         /\ Real(rob) /\ Len(rob) <= RobSize
         /\ spec_mode \in BOOLEAN /\ machine \in Machines /\ right_machine \in Machines
         /\ Follows(Contents(ifq), fetch_pred_PC, TOS(pred.ras))
         /\ ~ spec_mode => OnPath(Contents(ifq), fetch_pred_PC, TOS(pred.ras), rob, machine,
                                  right_PC, right_tos, right_machine)
         /\ spec_mode => \E i \in DOMAIN rob :
                           OffPath(rob, i, machine, right_PC, right_tos, right_machine)
         /\ \E D : RingOK(ifq, Insts(D)) /\ rob \in Seq(Entries(D))
BY DEF FollowsTheProgram, Now, Good, Shaped

(* What commit() takes away was not open.                                  *)
LEMMA CommitKeeps ==
  ASSUME FollowsTheProgram, Commit
  PROVE  Then
<1>1. PICK D : RingOK(ifq, Insts(D)) /\ rob \in Seq(Entries(D))  BY Parts
<1>2. /\ rob # <<>> /\ Head(rob).completed /\ rob' = Tail(rob)
      /\ ifq' = ifq /\ fetch_pred_PC' = fetch_pred_PC /\ spec_mode' = spec_mode
      /\ machine' = machine /\ right_PC' = right_PC /\ right_tos' = right_tos
      /\ right_machine' = right_machine
      /\ pred' = pred \/ pred' = UpdatedBy(pred, rob[1])
  BY <1>1 DEF Commit, history
<1>3. /\ Len(rob) \in Nat \ {0} /\ Head(rob) = rob[1] /\ rob[1] \in Entries(D)
      /\ Tail(rob) \in Seq(Entries(D)) /\ Len(Tail(rob)) = Len(rob) - 1
      /\ \A k \in 1 .. Len(rob) - 1 : Tail(rob)[k] = rob[k + 1]
      /\ DOMAIN rob = 1 .. Len(rob) /\ DOMAIN Tail(rob) = 1 .. Len(rob) - 1
  BY <1>1, <1>2
<1>4. PredOK(pred') /\ pred'.ras = pred.ras
  <2>1. rob[1].next_PC \in Outcomes(rob[1].pc)  BY <1>3, Parts DEF Real
  <2>. QED  BY <1>2, <1>3, <2>1, Parts, UpdatedByIs
<1>5. Real(rob') /\ Len(rob') <= RobSize
  <2>1. Real(rob')
    <3>. SUFFICES ASSUME NEW k \in DOMAIN rob'
                  PROVE  rob'[k].next_PC \in Outcomes(rob'[k].pc)
      BY DEF Real
    <3>1. k + 1 \in DOMAIN rob /\ rob'[k] = rob[k + 1]  BY <1>2, <1>3
    <3>. QED  BY <3>1, Parts DEF Real
  <2>2. RobSize \in Nat  BY Parts, ProgramFacts
  <2>. QED  BY <1>2, <1>3, <2>1, <2>2, Parts
<1>6. Shaped(pred', ifq', fetch_pred_PC', rob')
  BY <1>1, <1>2, <1>3, <1>4, <1>5, Parts DEF Shaped
<1>7. ~ spec_mode' => OnPath(Contents(ifq'), fetch_pred_PC', TOS(pred'.ras), rob', machine',
                             right_PC', right_tos', right_machine')
  <2>. SUFFICES ASSUME ~ spec_mode
                PROVE  OnPath(Contents(ifq), fetch_pred_PC, TOS(pred.ras), rob', machine,
                              right_PC, right_tos, right_machine)
    BY <1>2, <1>4
  <2>1. OnPath(Contents(ifq), fetch_pred_PC, TOS(pred.ras), rob, machine,
               right_PC, right_tos, right_machine)
    BY Parts
  <2>2. \A j \in DOMAIN rob' : ~ Open(rob'[j])
    <3>. SUFFICES ASSUME NEW j \in DOMAIN rob' PROVE ~ Open(rob'[j])  OBVIOUS
    <3>1. j + 1 \in DOMAIN rob /\ rob'[j] = rob[j + 1]  BY <1>2, <1>3
    <3>. QED  BY <2>1, <3>1 DEF OnPath
  <2>. QED  BY <2>1, <2>2 DEF OnPath
<1>8. spec_mode' => \E i \in DOMAIN rob' :
                      OffPath(rob', i, machine', right_PC', right_tos', right_machine')
  <2>. SUFFICES ASSUME spec_mode
                PROVE  \E i \in DOMAIN rob' :
                         OffPath(rob', i, machine, right_PC, right_tos, right_machine)
    BY <1>2
  <2>1. PICK i \in DOMAIN rob : OffPath(rob, i, machine, right_PC, right_tos, right_machine)
    BY Parts
  <2>2. i \in 2 .. Len(rob)
    <3>1. ~ Open(rob[1]) /\ 1 \in DOMAIN rob  BY <1>2, <1>3 DEF Open
    <3>2. i # 1  BY <2>1, <3>1 DEF OffPath
    <3>. QED  BY <1>3, <3>2
  <2>3. i - 1 \in DOMAIN rob' /\ rob'[i - 1] = rob[i]  BY <1>2, <1>3, <2>2
  <2>4. \A j \in DOMAIN rob' : Open(rob'[j]) <=> j = i - 1
    <3>. SUFFICES ASSUME NEW j \in DOMAIN rob' PROVE Open(rob'[j]) <=> j = i - 1  OBVIOUS
    <3>1. j + 1 \in DOMAIN rob /\ rob'[j] = rob[j + 1] /\ j \in Nat  BY <1>2, <1>3
    <3>2. Open(rob[j + 1]) <=> j + 1 = i  BY <2>1, <3>1 DEF OffPath
    <3>. QED  BY <2>2, <3>1, <3>2
  <2>5. KeptAfter(rob', i - 1) = KeptAfter(rob, i)  BY <1>1, <1>2, <2>2, KeptOfTail
  <2>6. OffPath(rob', i - 1, machine, right_PC, right_tos, right_machine)
    BY <2>1, <2>3, <2>4, <2>5 DEF OffPath
  <2>. QED  BY <2>3, <2>6
<1>. QED  BY <1>2, <1>4, <1>6, <1>7, <1>8, Parts DEF Then, Good

(* An entry that does not recover, finished in any order.                  *)
LEMMA FinishKeeps ==
  ASSUME FollowsTheProgram, NEW i \in DOMAIN rob, Writeback(i), ~ rob[i].recover_inst
  PROVE  Then
<1>1. PICK D : RingOK(ifq, Insts(D)) /\ rob \in Seq(Entries(D))  BY Parts
<1>2. /\ rob' = [rob EXCEPT ![i].completed = TRUE]
      /\ ifq' = ifq /\ fetch_pred_PC' = fetch_pred_PC /\ spec_mode' = spec_mode
      /\ machine' = machine /\ right_PC' = right_PC /\ right_tos' = right_tos
      /\ right_machine' = right_machine
      /\ pred' = pred \/ pred' = UpdatedBy(pred, rob[i])
  BY DEF Writeback, Finish, Recovers, history
<1>3. /\ Len(rob) \in Nat /\ DOMAIN rob = 1 .. Len(rob) /\ i \in 1 .. Len(rob)
      /\ \A j \in 1 .. Len(rob) : rob[j] \in Entries(D)
  BY <1>1
<1>4. /\ rob' \in Seq(Entries(D)) /\ Len(rob') = Len(rob) /\ rob'[i] = Done(rob[i])
      /\ \A k \in 1 .. Len(rob) : k # i => rob'[k] = rob[k]
      /\ \A j \in 1 .. Len(rob) : KeptAfter(rob', j) = KeptAfter(rob, j)
  BY <1>1, <1>2, <1>3, KeptOfDone
<1>5. \A k \in 1 .. Len(rob) :
        /\ rob'[k].pc = rob[k].pc /\ rob'[k].next_PC = rob[k].next_PC
        /\ rob'[k].stack_recover_idx = rob[k].stack_recover_idx
        /\ Open(rob'[k]) <=> Open(rob[k])
  <2>. SUFFICES ASSUME NEW k \in 1 .. Len(rob)
                PROVE  /\ rob'[k].pc = rob[k].pc /\ rob'[k].next_PC = rob[k].next_PC
                       /\ rob'[k].stack_recover_idx = rob[k].stack_recover_idx
                       /\ Open(rob'[k]) <=> Open(rob[k])
    OBVIOUS
  <2>1. CASE k # i  BY <1>4, <2>1
  <2>2. CASE k = i
    <3>1. ~ Open(rob[i])  BY DEF Open
    <3>. QED  BY <1>3, <1>4, <2>2, <3>1, DoneIs
  <2>. QED  BY <2>1, <2>2
<1>6. DOMAIN rob' = DOMAIN rob  BY <1>3, <1>4
<1>7. PredOK(pred') /\ pred'.ras = pred.ras
  <2>1. rob[i].next_PC \in Outcomes(rob[i].pc)  BY Parts DEF Real
  <2>. QED  BY <1>2, <1>3, <2>1, Parts, UpdatedByIs
<1>8. Shaped(pred', ifq', fetch_pred_PC', rob')
  <2>1. Real(rob')  BY <1>3, <1>5, <1>6, Parts DEF Real
  <2>2. Len(rob') <= RobSize  BY <1>4, Parts
  <2>. QED  BY <1>1, <1>2, <1>4, <1>7, <2>1, <2>2, Parts DEF Shaped
<1>9. ~ spec_mode' => OnPath(Contents(ifq'), fetch_pred_PC', TOS(pred'.ras), rob', machine',
                             right_PC', right_tos', right_machine')
  BY <1>2, <1>3, <1>5, <1>6, <1>7, Parts DEF OnPath
<1>10. spec_mode' => \E j \in DOMAIN rob' :
                       OffPath(rob', j, machine', right_PC', right_tos', right_machine')
  <2>. SUFFICES ASSUME spec_mode
                PROVE  \E j \in DOMAIN rob' :
                         OffPath(rob', j, machine, right_PC, right_tos, right_machine)
    BY <1>2
  <2>1. PICK j \in DOMAIN rob : OffPath(rob, j, machine, right_PC, right_tos, right_machine)
    BY Parts
  <2>2. OffPath(rob', j, machine, right_PC, right_tos, right_machine)
    BY <1>3, <1>4, <1>5, <1>6, <2>1 DEF OffPath
  <2>. QED  BY <1>6, <2>2
<1>. QED  BY <1>2, <1>7, <1>8, <1>9, <1>10, Parts DEF Then, Good

(* The recovery: the one open entry puts everything back.                  *)
LEMMA RollbackKeeps ==
  ASSUME FollowsTheProgram, NEW i \in DOMAIN rob, Writeback(i), rob[i].recover_inst
  PROVE  Then
<1>. DEFINE e == rob[i]
            p == [pred EXCEPT !.ras = Recovered(pred.ras, e.stack_recover_idx)]
            s == SubSeq(rob, 1, i)
            younger == SubSeq(rob, i + 1, Len(rob))
<1>1. PICK D : RingOK(ifq, Insts(D)) /\ rob \in Seq(Entries(D))  BY Parts
<1>2. /\ rob' = [s EXCEPT ![i].completed = TRUE]
      /\ ifq' = Drained(ifq) /\ fetch_pred_PC' = e.next_PC /\ spec_mode' = FALSE
      /\ machine' = AllUndone(machine, [k \in DOMAIN younger |-> younger[k].kept])
      /\ right_PC' = right_PC /\ right_tos' = right_tos
      /\ right_machine' = right_machine
      /\ pred' = p \/ pred' = UpdatedBy(p, e)
      /\ ~ e.completed
  BY DEF Writeback, Rollback, Recovers, history
<1>3. /\ Len(rob) \in Nat /\ DOMAIN rob = 1 .. Len(rob) /\ i \in 1 .. Len(rob)
      /\ e \in Entries(D) /\ e.next_PC \in Outcomes(e.pc)
  BY <1>1, Parts DEF Real
<1>4. /\ s \in Seq(Entries(D)) /\ Len(s) = i
      /\ \A k \in 1 .. i : s[k] = rob[k]
  BY <1>1, <1>3
<1>. HIDE DEF s, younger
<1>5. /\ rob' \in Seq(Entries(D)) /\ Len(rob') = i /\ rob'[i] = Done(e)
      /\ \A k \in 1 .. i : k # i => rob'[k] = rob[k]
      /\ DOMAIN rob' = 1 .. i
  <2>1. i \in 1 .. Len(s)  BY <1>3, <1>4
  <2>2. /\ rob' \in Seq(Entries(D)) /\ Len(rob') = Len(s) /\ rob'[i] = Done(s[i])
        /\ \A k \in 1 .. Len(s) : k # i => rob'[k] = s[k]
    <3>1. rob' = [s EXCEPT ![i] = Done(s[i])]  BY <1>2 DEF Done
    <3>. QED  BY <1>4, <2>1, <3>1, DoneAt
  <2>. HIDE DEF e
  <2>3. s[i] = e  BY <1>3, <1>4 DEF e
  <2>4. DOMAIN rob' = 1 .. i  BY <2>2, <1>4
  <2>. QED  BY <1>3, <1>4, <2>2, <2>3, <2>4
<1>6. Open(e)  BY <1>2 DEF Open
<1>7. spec_mode  BY <1>6, Parts DEF OnPath
<1>8. OffPath(rob, i, machine, right_PC, right_tos, right_machine)
  <2>1. PICK j \in DOMAIN rob : OffPath(rob, j, machine, right_PC, right_tos, right_machine)
    BY <1>7, Parts
  <2>2. j = i  BY <1>6, <2>1 DEF OffPath
  <2>. QED  BY <2>1, <2>2
<1>9. /\ e.next_PC = right_PC /\ e.stack_recover_idx = right_tos
      /\ Restores(KeptAfter(rob, i), machine, right_machine)
      /\ \A j \in DOMAIN rob : Open(rob[j]) <=> j = i
  BY <1>8 DEF OffPath
<1>10. machine' \in Machines /\ Zeroed(machine') = Zeroed(right_machine)
  <2>1. /\ KeptAfter(rob, i) \in Seq(Keeps)
        /\ machine' = AllUndone(machine, KeptAfter(rob, i))
    BY <1>1, <1>2, <1>3, KeptIs DEF younger
  <2>. QED  BY <1>9, <2>1, Parts, RestoresAtLast
<1>11. PredOK(pred') /\ TOS(pred'.ras) = right_tos
  <2>1. e.stack_recover_idx \in Tops  BY <1>3 DEF Entries
  <2>2. pred.ras \in StacksNow  BY Parts, PredParts
  <2>3. /\ Recovered(pred.ras, e.stack_recover_idx) \in StacksNow
        /\ TOS(Recovered(pred.ras, e.stack_recover_idx)) = e.stack_recover_idx
    BY <2>1, <2>2, Parts, StacksMove
  <2>4. PredOK(p) /\ p.ras = Recovered(pred.ras, e.stack_recover_idx)
    BY <2>3, Parts, WithRas
  <2>. HIDE DEF p, e
  <2>5. PredOK(pred') /\ pred'.ras = p.ras
    BY <1>2, <1>3, <2>4, Parts, UpdatedByIs
  <2>. QED  BY <1>9, <2>3, <2>4, <2>5
<1>. HIDE DEF e, p
<1>12. Real(rob') /\ Len(rob') <= RobSize
  <2>1. \A k \in 1 .. i : rob'[k].pc = rob[k].pc /\ rob'[k].next_PC = rob[k].next_PC
    <3>. SUFFICES ASSUME NEW k \in 1 .. i
                  PROVE  rob'[k].pc = rob[k].pc /\ rob'[k].next_PC = rob[k].next_PC
      OBVIOUS
    <3>1. CASE k # i  BY <1>5, <3>1
    <3>2. CASE k = i  BY <1>3, <1>5, <3>2, DoneIs DEF e
    <3>. QED  BY <3>1, <3>2
  <2>2. \A k \in 1 .. i : k \in DOMAIN rob  BY <1>3
  <2>3. Real(rob')  BY <1>5, <2>1, <2>2, Parts DEF Real
  <2>4. RobSize \in Nat  BY Parts, ProgramFacts
  <2>. QED  BY <1>3, <1>5, <2>3, <2>4, Parts
<1>13. RingOK(ifq', Insts(D)) /\ Contents(ifq') = <<>>
  BY <1>1, <1>2, DrainedIs
<1>14. fetch_pred_PC' \in Addresses  BY <1>2, <1>3 DEF Entries
<1>15. Shaped(pred', ifq', fetch_pred_PC', rob')
  BY <1>5, <1>11, <1>12, <1>13, <1>14 DEF Shaped
<1>16. \A k \in DOMAIN rob' : ~ Open(rob'[k])
  <2>. SUFFICES ASSUME NEW k \in DOMAIN rob' PROVE ~ Open(rob'[k])  OBVIOUS
  <2>1. k \in 1 .. i /\ k \in DOMAIN rob  BY <1>3, <1>5
  <2>2. CASE k # i  BY <1>5, <1>9, <2>1, <2>2
  <2>3. CASE k = i  BY <1>3, <1>5, <2>3, DoneIs
  <2>. QED  BY <2>2, <2>3
<1>17. /\ Follows(Contents(ifq'), fetch_pred_PC', TOS(pred'.ras))
       /\ OnPath(Contents(ifq'), fetch_pred_PC', TOS(pred'.ras), rob', machine',
                 right_PC', right_tos', right_machine')
  BY <1>2, <1>9, <1>10, <1>11, <1>13, <1>16, FollowsNone DEF OnPath
<1>. QED  BY <1>2, <1>10, <1>15, <1>17, Parts DEF Then, Good

(* A trap is renamed with an empty window, and so on the right path.       *)
LEMMA TrapIsOnPath ==
  ASSUME FollowsTheProgram, rob = <<>>
  PROVE  ~ spec_mode
BY Parts

LEMMA ExecveKeeps ==
  ASSUME FollowsTheProgram, Execve
  PROVE  Then
<1>1. PICK D : RingOK(ifq, Insts(D)) /\ rob \in Seq(Entries(D))  BY Parts
<1>2. /\ rob = <<>> /\ rob' = rob /\ spec_mode' = spec_mode
      /\ pred' = [pred EXCEPT !.ras = Cleared(pred.ras)]
      /\ ifq' = Drained(ifq) /\ fetch_pred_PC' = Entry
      /\ right_PC' = Entry /\ right_tos' = 0
      /\ machine' = Fresh /\ right_machine' = Fresh
  BY DEF Execve, MayRename
<1>3. ~ spec_mode  BY <1>2, TrapIsOnPath
<1>4. PredOK(pred') /\ TOS(pred'.ras) = 0
  <2>1. pred.ras \in StacksNow  BY Parts, PredParts
  <2>2. Cleared(pred.ras) \in StacksNow /\ TOS(Cleared(pred.ras)) = 0
    BY <2>1, Parts, StacksMove
  <2>. QED  BY <1>2, <2>2, Parts, WithRas
<1>5. RingOK(ifq', Insts(D)) /\ Contents(ifq') = <<>>
  BY <1>1, <1>2, DrainedIs
<1>6. Shaped(pred', ifq', fetch_pred_PC', rob')
  BY <1>1, <1>2, <1>4, <1>5, Parts, AddressFacts DEF Shaped
<1>7. Fresh \in Machines  BY ValuesFacts DEF Fresh, Machines
<1>8. /\ Follows(Contents(ifq'), fetch_pred_PC', TOS(pred'.ras))
      /\ OnPath(Contents(ifq'), fetch_pred_PC', TOS(pred'.ras), rob', machine',
                right_PC', right_tos', right_machine')
  BY <1>2, <1>4, <1>5, FollowsNone DEF OnPath
<1>. QED  BY <1>2, <1>3, <1>6, <1>7, <1>8, Parts DEF Then, Good

LEMMA RightTosIs ==
  ASSUME FollowsTheProgram, NEW inst, NEW npc
  PROVE  RightTos(inst, npc) = IF inst.pred_PC # npc THEN right_tos
                               ELSE TopAfter(OpAt(inst.pc), right_tos)
<1>1. pred.ras.size = StackSize
  <2>1. pred.ras \in StacksNow  BY Parts, PredParts
  <2>. QED  BY <2>1 DEF StacksNow
<1>2. HasStack(pred) <=> StackSize # 0  BY <1>1 DEF HasStack
<1>3. StackSize # 0 => RasSize = StackSize  BY DEF StackSize
<1>4. CASE ~ HasStack(pred) \/ inst.pred_PC # npc
  <2>1. RightTos(inst, npc) = right_tos  BY <1>4 DEF RightTos
  <2>. QED  BY <1>2, <1>4, <2>1 DEF TopAfter
<1>5. CASE HasStack(pred) /\ inst.pred_PC = npc
  <2>. DEFINE op == OpAt(inst.pc)
  <2>. HIDE DEF op
  <2>1. RightTos(inst, npc) = CASE IsReturn(op) -> (right_tos + RasSize - 1) % RasSize
                                [] IsCall(op)   -> (right_tos + 1) % RasSize
                                [] OTHER        -> right_tos
    BY <1>5 DEF RightTos, op
  <2>2. ~ (IsReturn(op) /\ IsCall(op))  BY OpsAreCtrl
  <2>3. RasSize = StackSize /\ StackSize # 0  BY <1>2, <1>3, <1>5
  <2>4. CASE IsReturn(op)
    <3>1. RightTos(inst, npc) = (right_tos + RasSize - 1) % RasSize
      BY <2>1, <2>2, <2>4
    <3>2. TopAfter(op, right_tos) = (right_tos + StackSize - 1) % StackSize
      BY <2>2, <2>3, <2>4 DEF TopAfter
    <3>. QED  BY <1>5, <2>3, <3>1, <3>2 DEF op
  <2>5. CASE IsCall(op)
    <3>1. RightTos(inst, npc) = (right_tos + 1) % RasSize
      BY <2>1, <2>2, <2>5
    <3>2. TopAfter(op, right_tos) = (right_tos + 1) % StackSize
      BY <2>2, <2>3, <2>5 DEF TopAfter
    <3>. QED  BY <1>5, <2>3, <3>1, <3>2 DEF op
  <2>6. CASE ~ IsReturn(op) /\ ~ IsCall(op)
    <3>1. RightTos(inst, npc) = right_tos  BY <2>1, <2>6
    <3>2. TopAfter(op, right_tos) = right_tos  BY <2>3, <2>6 DEF TopAfter
    <3>. QED  BY <1>5, <3>1, <3>2 DEF op
  <2>. QED  BY <2>4, <2>5, <2>6
<1>. QED  BY <1>4, <1>5

(* A redirect happens only after a wrong prediction.                       *)
LEMMA RedirectedIsWrong ==
  ASSUME option \in Options, NEW inst, inst.pc \in Addresses,
         NEW npc \in Outcomes(inst.pc), Redirected(inst, npc)
  PROVE  Mispredicted(inst, npc)
BY OutcomesAre DEF Redirected, Mispredicted

(* An instruction executed on the right path, or down a wrong one.         *)
LEMMA RenameKeeps ==
  ASSUME FollowsTheProgram, Rename
  PROVE  Then
<1>. DEFINE inst == Oldest(ifq)
            q    == Contents(ifq)
            top  == TOS(pred.ras)
            does == DoesAt(inst.pc)
            n    == Len(rob) + 1
<1>1. PICK D : RingOK(ifq, Insts(D)) /\ rob \in Seq(Entries(D))  BY Parts
<1>2. PICK npc \in Outcomes(inst.pc) :
        LET e == Renamed(inst, npc)
        IN /\ rob' = Append(rob, e)
           /\ ifq' = IF Redirected(inst, npc) THEN Drained(ifq) ELSE Dequeued(ifq)
           /\ fetch_pred_PC' = IF Redirected(inst, npc) THEN npc ELSE fetch_pred_PC
           /\ pred' = IF ~spec_mode /\ UpdatesAt("spec_ID", OpAt(e.pc))
                      THEN UpdatedBy(pred, e) ELSE pred
           /\ spec_mode' = (spec_mode \/ Mispredicted(inst, npc))
           /\ right_PC' = IF spec_mode THEN right_PC ELSE npc
           /\ right_tos' = IF spec_mode THEN right_tos ELSE RightTos(inst, npc)
  BY DEF Rename
<1>. DEFINE e == Renamed(inst, npc)
<1>3. /\ ifq.num > 0 /\ Len(rob) < RobSize
      /\ machine' = Executed(machine, does)
      /\ right_machine' = IF spec_mode THEN right_machine ELSE Executed(right_machine, does)
  BY DEF Rename, MayRename
<1>4. /\ inst \in Insts(D) /\ inst = q[1] /\ Len(q) > 0 /\ q \in Seq(Insts(D))
  BY <1>1, <1>3, ContentsIs
<1>5. inst.pc \in Addresses /\ inst.pred_PC \in Addresses
      /\ inst.dir_update \in D /\ inst.stack_recover_idx \in Tops
  BY <1>4 DEF Insts
<1>6. does \in Effects  BY Parts, DoesIs
<1>7. /\ Executed(machine, does) \in Machines /\ Saved(machine, does) \in Keeps
      /\ Executed(right_machine, does) \in Machines
  BY <1>6, Parts, ExecutedIs
<1>8. npc \in Addresses  BY <1>5, Parts, OutcomesAre
<1>9. /\ e \in Entries(D) /\ e.pc = inst.pc /\ e.next_PC = npc
      /\ e.stack_recover_idx = inst.stack_recover_idx
      /\ e.kept = Saved(machine, does)
      /\ Open(e) <=> ~ spec_mode /\ Mispredicted(inst, npc)
  <2>1. RecoverInst(inst, npc) \in BOOLEAN  BY DEF RecoverInst
  <2>2. e = [pc |-> inst.pc, pred_PC |-> inst.pred_PC, next_PC |-> npc,
             dir_update |-> inst.dir_update, stack_recover_idx |-> inst.stack_recover_idx,
             recover_inst |-> RecoverInst(inst, npc), completed |-> FALSE,
             kept |-> Saved(machine, does)]
    BY DEF Renamed
  <2>. HIDE DEF e, does, inst
  <2>3. e \in Entries(D)  BY <1>5, <1>7, <1>8, <2>1, <2>2 DEF Entries
  <2>4. /\ e.pc = inst.pc /\ e.next_PC = npc
        /\ e.stack_recover_idx = inst.stack_recover_idx
        /\ e.kept = Saved(machine, does)
        /\ e.recover_inst = RecoverInst(inst, npc) /\ e.completed = FALSE
    BY <2>2
  <2>5. Open(e) <=> ~ spec_mode /\ Mispredicted(inst, npc)
    BY <2>4 DEF Open, RecoverInst
  <2>. QED  BY <2>3, <2>4, <2>5
<1>10. /\ rob' = Append(rob, e)
       /\ spec_mode' = (spec_mode \/ Mispredicted(inst, npc))
       /\ right_PC' = (IF spec_mode THEN right_PC ELSE npc)
       /\ right_tos' = (IF spec_mode THEN right_tos ELSE RightTos(inst, npc))
       /\ pred' = pred \/ pred' = UpdatedBy(pred, e)
  BY <1>2
<1>11. /\ Redirected(inst, npc) => /\ Mispredicted(inst, npc)
                                   /\ ifq' = Drained(ifq) /\ fetch_pred_PC' = npc
       /\ ~ Redirected(inst, npc) => /\ ifq' = Dequeued(ifq)
                                     /\ fetch_pred_PC' = fetch_pred_PC
  <2>1. Redirected(inst, npc) => Mispredicted(inst, npc)
    BY <1>5, Parts, RedirectedIsWrong
  <2>2. /\ ifq' = (IF Redirected(inst, npc) THEN Drained(ifq) ELSE Dequeued(ifq))
        /\ fetch_pred_PC' = (IF Redirected(inst, npc) THEN npc ELSE fetch_pred_PC)
    BY <1>2
  <2>. QED  BY <2>1, <2>2
<1>. HIDE DEF e, inst, does
<1>12. /\ Len(rob) \in Nat /\ DOMAIN rob = 1 .. Len(rob)
       /\ rob' \in Seq(Entries(D)) /\ Len(rob') = n /\ rob'[n] = e
       /\ DOMAIN rob' = 1 .. n
       /\ \A j \in 1 .. Len(rob) : rob'[j] = rob[j]
  BY <1>1, <1>9, <1>10
<1>13. PredOK(pred') /\ TOS(pred'.ras) = top
  <2>1. PredOK(pred') /\ pred'.ras = pred.ras
    BY <1>9, <1>10, Parts, UpdatedByIs
  <2>. QED  BY <2>1
<1>14. Real(rob') /\ Len(rob') <= RobSize
  <2>. SUFFICES ASSUME NEW j \in DOMAIN rob'
                PROVE  rob'[j].next_PC \in Outcomes(rob'[j].pc)
    BY <1>3, <1>12, Parts, ProgramFacts DEF Real
  <2>1. CASE j = n  BY <1>9, <1>12, <2>1
  <2>2. CASE j \in 1 .. Len(rob)  BY <1>12, <2>2, Parts DEF Real
  <2>. QED  BY <1>12, <2>1, <2>2
<1>15. /\ RingOK(ifq', Insts(D)) /\ fetch_pred_PC' \in Addresses
       /\ Follows(Contents(ifq'), fetch_pred_PC', top)
       /\ ~ Mispredicted(inst, npc) =>
            /\ NextPC(Contents(ifq'), fetch_pred_PC', 0) = inst.pred_PC
            /\ NextTos(Contents(ifq'), top, 0)
                 = TopAfter(OpAt(inst.pc), inst.stack_recover_idx)
  <2>1. CASE Redirected(inst, npc)
    <3>1. ifq' = Drained(ifq) /\ fetch_pred_PC' = npc /\ Mispredicted(inst, npc)
      BY <1>11, <2>1
    <3>2. RingOK(ifq', Insts(D)) /\ Contents(ifq') = <<>>  BY <1>1, <3>1, DrainedIs
    <3>. HIDE DEF top
    <3>. QED  BY <1>8, <3>1, <3>2, FollowsNone
  <2>2. CASE ~ Redirected(inst, npc)
    <3>1. ifq' = Dequeued(ifq) /\ fetch_pred_PC' = fetch_pred_PC  BY <1>11, <2>2
    <3>2. RingOK(ifq', Insts(D)) /\ Contents(ifq') = Tail(q)
      BY <1>1, <1>3, <3>1, DequeuedIs
    <3>3. Follows(q, fetch_pred_PC, top) /\ fetch_pred_PC \in Addresses  BY Parts
    <3>. HIDE DEF q, top
    <3>4. /\ Follows(Tail(q), fetch_pred_PC, top)
          /\ NextPC(Tail(q), fetch_pred_PC, 0) = q[1].pred_PC
          /\ NextTos(Tail(q), top, 0) = TopAfter(OpAt(q[1].pc), q[1].stack_recover_idx)
      BY <1>4, <3>3, FollowsTake
    <3>. QED  BY <1>4, <3>1, <3>2, <3>3, <3>4
  <2>. QED  BY <2>1, <2>2
<1>16. Shaped(pred', ifq', fetch_pred_PC', rob')
  BY <1>12, <1>13, <1>14, <1>15 DEF Shaped
<1>17. /\ spec_mode' \in BOOLEAN /\ machine' \in Machines /\ right_machine' \in Machines
  <2>1. Mispredicted(inst, npc) \in BOOLEAN  BY DEF Mispredicted
  <2>2. spec_mode' \in BOOLEAN  BY <1>10, <2>1, Parts
  <2>. QED  BY <1>3, <1>7, <2>2, Parts
<1>18. ASSUME ~ spec_mode
       PROVE  /\ OnPath(q, fetch_pred_PC, top, rob, machine, right_PC, right_tos, right_machine)
              /\ right_tos = inst.stack_recover_idx
              /\ machine' = right_machine'
  <2>1. OnPath(q, fetch_pred_PC, top, rob, machine, right_PC, right_tos, right_machine)
    BY <1>18, Parts
  <2>2. q[1].stack_recover_idx = NextTos(q, top, 0)
    <3>1. Follows(q, fetch_pred_PC, top)  BY Parts
    <3>. HIDE DEF q, top
    <3>. QED  BY <1>4, <3>1, FollowsTake
  <2>3. machine' = right_machine'
    BY <1>3, <1>18, <2>1, ExecutedSame DEF OnPath
  <2>4. right_tos = inst.stack_recover_idx  BY <1>4, <2>1, <2>2 DEF OnPath
  <2>. QED  BY <2>1, <2>3, <2>4
<1>19. ~ spec_mode' => OnPath(Contents(ifq'), fetch_pred_PC', TOS(pred'.ras), rob', machine',
                              right_PC', right_tos', right_machine')
  <2>. SUFFICES ASSUME ~ spec_mode'
                PROVE  OnPath(Contents(ifq'), fetch_pred_PC', top, rob', machine',
                              right_PC', right_tos', right_machine')
    BY <1>13
  <2>1. ~ spec_mode /\ ~ Mispredicted(inst, npc) /\ inst.pred_PC = npc
    BY <1>10 DEF Mispredicted
  <2>2. right_PC' = NextPC(Contents(ifq'), fetch_pred_PC', 0)
    BY <1>10, <1>15, <2>1
  <2>3. right_tos' = NextTos(Contents(ifq'), top, 0)
    <3>1. right_tos' = TopAfter(OpAt(inst.pc), right_tos)  BY <1>10, <2>1, RightTosIs
    <3>. QED  BY <1>15, <1>18, <2>1, <3>1
  <2>4. Zeroed(machine') = Zeroed(right_machine')  BY <1>18, <2>1
  <2>5. \A j \in DOMAIN rob' : ~ Open(rob'[j])
    <3>. SUFFICES ASSUME NEW j \in DOMAIN rob' PROVE ~ Open(rob'[j])  OBVIOUS
    <3>1. CASE j = n  BY <1>9, <1>12, <2>1, <3>1
    <3>2. CASE j \in 1 .. Len(rob)  BY <1>12, <1>18, <2>1, <3>2 DEF OnPath
    <3>. QED  BY <1>12, <3>1, <3>2
  <2>. QED  BY <2>2, <2>3, <2>4, <2>5 DEF OnPath
<1>20. ASSUME ~ spec_mode, Mispredicted(inst, npc)
       PROVE  OffPath(rob', n, machine', right_PC', right_tos', right_machine')
  <2>1. \A j \in DOMAIN rob' : Open(rob'[j]) <=> j = n
    <3>. SUFFICES ASSUME NEW j \in DOMAIN rob' PROVE Open(rob'[j]) <=> j = n  OBVIOUS
    <3>1. CASE j = n  BY <1>9, <1>12, <1>20, <3>1
    <3>2. CASE j \in 1 .. Len(rob)  BY <1>12, <1>18, <1>20, <3>2 DEF OnPath
    <3>. QED  BY <1>12, <3>1, <3>2
  <2>2. right_PC' = npc /\ right_tos' = right_tos
    BY <1>10, <1>20, RightTosIs DEF Mispredicted
  <2>3. rob'[n].next_PC = right_PC' /\ rob'[n].stack_recover_idx = right_tos'
    BY <1>9, <1>12, <1>18, <1>20, <2>2
  <2>4. Restores(<<>>, machine', right_machine')
    BY <1>17, <1>18, <1>20, RestoresAtFirst
  <2>5. KeptAfter(rob', n) = <<>>  BY <1>1, <1>9, <1>10, KeptOfAppend
  <2>. QED  BY <2>1, <2>3, <2>4, <2>5 DEF OffPath
<1>21. ASSUME spec_mode
       PROVE  \E i \in DOMAIN rob' :
                OffPath(rob', i, machine', right_PC', right_tos', right_machine')
  <2>1. PICK i \in DOMAIN rob : OffPath(rob, i, machine, right_PC, right_tos, right_machine)
    BY <1>21, Parts
  <2>2. \A j \in DOMAIN rob' : Open(rob'[j]) <=> j = i
    <3>. SUFFICES ASSUME NEW j \in DOMAIN rob' PROVE Open(rob'[j]) <=> j = i  OBVIOUS
    <3>1. CASE j = n  BY <1>9, <1>12, <1>21, <2>1, <3>1
    <3>2. CASE j \in 1 .. Len(rob)  BY <1>12, <2>1, <3>2 DEF OffPath
    <3>. QED  BY <1>12, <3>1, <3>2
  <2>3. i \in DOMAIN rob' /\ rob'[i] = rob[i] /\ i \in 1 .. Len(rob)  BY <1>12, <2>1
  <2>4. KeptAfter(rob', i) = Append(KeptAfter(rob, i), Saved(machine, does))
    BY <1>1, <1>9, <1>10, <2>3, KeptOfAppend
  <2>5. Restores(KeptAfter(rob', i), machine', right_machine)
    <3>1. KeptAfter(rob, i) \in Seq(Keeps)  BY <1>1, <2>3, KeptIs
    <3>2. Restores(KeptAfter(rob, i), machine, right_machine)  BY <2>1 DEF OffPath
    <3>3. machine \in Machines /\ right_machine \in Machines  BY Parts
    <3>. QED  BY <1>3, <1>6, <2>4, <3>1, <3>2, <3>3, RestoresLater
  <2>6. /\ right_PC' = right_PC /\ right_tos' = right_tos /\ right_machine' = right_machine
    BY <1>3, <1>10, <1>21
  <2>. QED  BY <2>1, <2>2, <2>3, <2>5, <2>6 DEF OffPath
<1>22. spec_mode' => \E i \in DOMAIN rob' :
                       OffPath(rob', i, machine', right_PC', right_tos', right_machine')
  <2>1. n \in DOMAIN rob'  BY <1>12
  <2>. HIDE DEF n
  <2>. QED  BY <1>10, <1>20, <1>21, <2>1
<1>. HIDE DEF top
<1>23. Follows(Contents(ifq'), fetch_pred_PC', TOS(pred'.ras))  BY <1>13, <1>15
<1>. QED  BY <1>16, <1>17, <1>19, <1>22, <1>23 DEF Then, Good

-----------------------------------------------------------------------------
(* Every step keeps the invariant.                                         *)
LEMMA StepKeeps == FollowsTheProgram /\ [Next]_vars => FollowsTheProgram'
<1>. SUFFICES ASSUME FollowsTheProgram, [Next]_vars PROVE FollowsTheProgram'
  OBVIOUS
<1>1. option' = option
  BY DEF Next, vars, Fetch, Rename, Execve, Writeback, Commit
<1>2. ASSUME Fetch PROVE Then  BY <1>2, FetchKeeps
<1>3. ASSUME Rename PROVE Then  BY <1>3, RenameKeeps
<1>4. ASSUME Execve PROVE Then  BY <1>4, ExecveKeeps
<1>5. ASSUME \E i \in DOMAIN rob : Writeback(i) PROVE Then
  <2>1. PICK i \in DOMAIN rob : Writeback(i)  BY <1>5
  <2>. QED  BY <2>1, FinishKeeps, RollbackKeeps
<1>6. ASSUME Commit PROVE Then  BY <1>6, CommitKeeps
<1>7. ASSUME UNCHANGED vars PROVE Then
  <2>1. /\ pred' = pred /\ ifq' = ifq /\ fetch_pred_PC' = fetch_pred_PC /\ rob' = rob
        /\ spec_mode' = spec_mode /\ machine' = machine /\ right_PC' = right_PC
        /\ right_tos' = right_tos /\ right_machine' = right_machine
    BY <1>7 DEF vars, history
  <2>. QED  BY <2>1 DEF FollowsTheProgram, Now, Then
<1>8. Then  BY <1>2, <1>3, <1>4, <1>5, <1>6, <1>7 DEF Next
<1>9. Now'  BY <1>1, <1>8, OptionStays
<1>10. option' \in Options  BY <1>1 DEF FollowsTheProgram
<1>. QED  BY <1>9, <1>10 DEF FollowsTheProgram

LEMMA AlwaysFollows == Spec => []FollowsTheProgram
BY InitIs, StepKeeps, PTL DEF Spec

(* What comes next, in the words of the properties.                        *)
LEMMA NextIs ==
  ASSUME FollowsTheProgram
  PROVE  /\ NextPC(Contents(ifq), fetch_pred_PC, 0)
              = IF ifq.num = 0 THEN fetch_pred_PC ELSE Oldest(ifq).pc
         /\ NextTos(Contents(ifq), TOS(pred.ras), 0)
              = IF ifq.num = 0 THEN TOS(pred.ras) ELSE Oldest(ifq).stack_recover_idx
<1>1. PICK D : RingOK(ifq, Insts(D))  BY Parts
<1>2. /\ Len(Contents(ifq)) = ifq.num /\ ifq.num \in Nat
      /\ ifq.num > 0 => Oldest(ifq) = Contents(ifq)[1]
  BY <1>1, ContentsIs
<1>. QED  BY <1>2 DEF NextPC, NextTos

(* Fetch keeps to the program: while the thread is not on a wrong path,    *)
(* what is renamed next is where the last instruction went, for every      *)
(* program, every predictor and every size of its tables, its stack, the   *)
(* queue and the ROB.  Source: fetch(), register_rename(), rollbackTo().   *)
THEOREM FetchKeepsToTheProgram == Spec => []PathIsProgram
<1>1. FollowsTheProgram => PathIsProgram
  BY Parts, NextIs DEF OnPath, PathIsProgram
<1>. QED  BY <1>1, AlwaysFollows, PTL

(* Recovery is exact: return stack, registers and memory are again what    *)
(* the right path alone makes of them.                                     *)
(* Source: rollbackTo(), retstack_t::recover(), the copies in rename.      *)
THEOREM WrongPathsLeaveNothing == Spec => []RecoveryIsExact
<1>1. FollowsTheProgram => RecoveryIsExact
  BY Parts, NextIs DEF OnPath, RecoveryIsExact, StackFollowsRightPath, StateFollowsRightPath
<1>. QED  BY <1>1, AlwaysFollows, PTL

LEMMA TypesHold == FollowsTheProgram => FrontEndTypeOK
<1>. SUFFICES ASSUME FollowsTheProgram PROVE FrontEndTypeOK  OBVIOUS
<1>1. PICK D : RingOK(ifq, Insts(D)) /\ rob \in Seq(Entries(D))  BY Parts
<1>2. ifq.num \in 0 .. IfqSize  BY <1>1 DEF RingOK, Rings
<1>3. pred.ras \in Stacks(pred.ras.size, Addresses \cup {0})
  <2>1. pred.ras \in StacksNow  BY Parts, PredParts
  <2>2. Tops \subseteq 0 .. StackSize  BY StackSizes DEF Tops
  <2>3. pred.ras.size = StackSize  BY <2>1 DEF StacksNow
  <2>. QED  BY <2>1, <2>2, <2>3 DEF StacksNow, Stacks
<1>4. \A table \in {pred.tables.bimod, pred.tables.meta, pred.tables.l2} :
        Range(table) \subseteq 0 .. 3
  <2>1. PICK Q : pred.tables \in Tables(Q)  BY Parts, PredParts
  <2>2. /\ pred.tables.bimod \in Counters(BimodSize)
        /\ pred.tables.meta \in Counters(MetaSize)
        /\ pred.tables.l2 \in Counters(L2Size)
    BY <2>1 DEF Tables
  <2>3. \A size : \A f \in Counters(size) : Range(f) \subseteq 0 .. 3
    BY DEF Counters, Range
  <2>. QED  BY <2>2, <2>3
<1>. QED  BY <1>2, <1>3, <1>4, Parts DEF FrontEndTypeOK

LEMMA BufferHolds == FollowsTheProgram => BtbWellFormed /\ BtbTargetsReal
<1>. SUFFICES ASSUME FollowsTheProgram PROVE BtbWellFormed /\ BtbTargetsReal  OBVIOUS
<1>1. option \in Options /\ BtbOK(pred.btb)  BY Parts, PredParts
<1>2. /\ DOMAIN pred.btb = 0 .. BtbSets - 1
      /\ \A s \in DOMAIN pred.btb : SetOK(pred.btb[s])
  BY <1>1 DEF BtbOK
<1>3. ASSUME NEW s \in DOMAIN pred.btb, NEW v \in Ways, NEW w \in Ways
      PROVE  pred.btb[s][v].next = w <=> pred.btb[s][w].prev = v
  <2>1. PICK pos : Permutes(pos) /\ Neighbours(pred.btb[s], pos)
    BY <1>2 DEF SetOK, Ordered
  <2>. QED  BY <2>1 DEF Neighbours
<1>4. ASSUME NEW pc \in DOMAIN Program PROVE WalkAsserts(pred.btb, pc)
  <2>. DEFINE set == pred.btb[SetOf(pc)]
  <2>1. pc \in Nat \ {0}  BY <1>1, AddressFacts
  <2>2. SetOK(set)  BY <1>1, <2>1, SetOfIs DEF BtbOK
  <2>3. PICK pos : Permutes(pos) /\ Neighbours(set, pos)  BY <2>2 DEF SetOK, Ordered
  <2>4. Cardinality(Hits(pred.btb, pc)) <= 1
    <3>1. \A v, w \in Hits(pred.btb, pc) : v = w
      BY <2>1, <2>2 DEF SetOK, Hits
    <3>2. CASE Hits(pred.btb, pc) = {}  BY <3>2, FS_EmptySet
    <3>3. CASE Hits(pred.btb, pc) # {}
      <4>1. PICK w \in Hits(pred.btb, pc) : TRUE  BY <3>3
      <4>2. Hits(pred.btb, pc) = {w}  BY <3>1, <4>1
      <4>3. Cardinality({w}) = 1  BY FS_Singleton
      <4>. QED  BY <4>2, <4>3
    <3>. QED  BY <3>2, <3>3
  <2>5. ASSUME BtbAssoc > 1, NEW w \in Ways PROVE set[w].prev # set[w].next
    <3>. SUFFICES ASSUME set[w].prev = set[w].next PROVE FALSE  OBVIOUS
    <3>1. pos \in [Ways -> Ways] /\ \A x \in Ways : pos[x] \in Nat
      BY <2>3, WayFacts DEF Permutes
    <3>. HIDE DEF set
    <3>2. set[w].next \in Ways \cup {NoWay}  BY <2>3 DEF Neighbours
    <3>3. CASE set[w].next = NoWay
      <4>1. pos[w] = BtbAssoc - 1 /\ pos[w] = 0  BY <2>3, <3>3 DEF Neighbours
      <4>. QED  BY <2>5, <4>1, WayFacts
    <3>4. CASE set[w].next \in Ways
      <4>1. PICK x \in Ways : set[w].next = x /\ set[w].prev = x  BY <3>4
      <4>2. pos[x] = pos[w] + 1 /\ pos[w] = pos[x] + 1  BY <2>3, <4>1 DEF Neighbours
      <4>. QED  BY <3>1, <4>2
    <3>. QED  BY <3>2, <3>3, <3>4
  <2>6. Cardinality(Heads(set)) = 1
    <3>1. PICK h \in Ways : Heads(set) = {h}
      <4>. HIDE DEF set
      <4>. QED  BY <2>3, HeadIs
    <3>. QED  BY <3>1, FS_Singleton
  <2>7. Cardinality(Tails(set)) = 1
    <3>1. PICK h \in Ways : Tails(set) = {h}
      <4>. HIDE DEF set
      <4>. QED  BY <2>3, TailIs
    <3>. QED  BY <3>1, FS_Singleton
  <2>. QED  BY <2>4, <2>5, <2>6, <2>7 DEF WalkAsserts
<1>5. BtbTargetsReal  BY <1>2 DEF SetOK, Learnt, BtbTargetsReal
<1>. QED  BY <1>3, <1>4, <1>5 DEF BtbWellFormed

(* The predictor keeps its form and learns only true targets, whatever     *)
(* branches of wrong paths do to it, and no wrong path calls the system.   *)
(* Source: btb_t::update(), the counters, the SYSCALL macro.               *)
THEOREM WrongPathsDoNoHarm == Spec => []FrontEndInv
<1>1. FollowsTheProgram => NoSpeculativeSyscall
  BY TrapIsOnPath DEF NoSpeculativeSyscall, MayRename
<1>. QED  BY <1>1, TypesHold, BufferHolds, AlwaysFollows, PTL DEF FrontEndInv

LEMMA QueueSteps == FollowsTheProgram /\ [Next]_vars => [Queue!Next]_(Contents(ifq))
<1>. SUFFICES ASSUME FollowsTheProgram, [Next]_vars
              PROVE  Queue!Next \/ Contents(ifq)' = Contents(ifq)
  OBVIOUS
<1>. DEFINE q == Contents(ifq)
            later == Contents(ifq')
<1>0. Contents(ifq)' = later  BY DEF Contents, Wrap
<1>1. PICK D : RingOK(ifq, Insts(D)) /\ rob \in Seq(Entries(D))  BY Parts
<1>2. q \in Seq(Insts(D)) /\ Len(q) = ifq.num /\ ifq.num \in 0 .. IfqSize
  BY <1>1, ContentsIs DEF RingOK, Rings
<1>3. ASSUME Fetch PROVE Queue!Put
  <2>1. PICK x : ifq.num # IfqSize /\ ifq' = Enqueued(ifq, x)
    BY <1>3 DEF Fetch, Full
  <2>2. PICK S : RingOK(ifq, S) /\ x \in S
    <3>1. Insts(D) \subseteq Insts(D) \cup {x}  OBVIOUS
    <3>2. RingOK(ifq, Insts(D) \cup {x})  BY <1>1, <3>1, LargerRing
    <3>. QED  BY <3>2
  <2>3. later = Append(q, x)  BY <2>1, <2>2, EnqueuedIs
  <2>4. q \in Seq(S)  BY <2>2, ContentsIs
  <2>. HIDE DEF q, later
  <2>5. later # <<>> /\ later[Len(later)] = x /\ Len(q) < IfqSize
    BY <1>2, <2>1, <2>2, <2>3, <2>4, RingSize
  <2>. QED  BY <1>0, <2>3, <2>5 DEF Queue!Put, q
<1>4. ASSUME ifq' = Dequeued(ifq), ifq.num > 0 PROVE Queue!Take
  <2>1. later = Tail(q)  BY <1>1, <1>4, DequeuedIs
  <2>2. q # <<>>  BY <1>2, <1>4
  <2>. HIDE DEF later
  <2>. QED  BY <1>0, <2>1, <2>2 DEF Queue!Take
<1>5. ASSUME ifq' = Drained(ifq) PROVE Queue!Drain
  <2>1. later = <<>>  BY <1>1, <1>5, DrainedIs
  <2>. HIDE DEF later
  <2>. QED  BY <1>0, <2>1 DEF Queue!Drain
<1>6. CASE ifq' = ifq
  <2>1. later = q  BY <1>6
  <2>. QED  BY <1>0, <2>1
<1>7. Fetch \/ ifq' = ifq \/ ifq' = Drained(ifq) \/ (ifq' = Dequeued(ifq) /\ ifq.num > 0)
  BY DEF Next, vars, Rename, Execve, Writeback, Rollback, Finish, Commit
<1>. QED  BY <1>3, <1>4, <1>5, <1>6, <1>7 DEF Queue!Next

(* The ring implements the queue of Fifo.  Source: the code that adds to,  *)
(* takes from and drains fetch_data.                                       *)
THEOREM RingImplementsQueue == Spec => RingIsQueue
<1>1. Init => Queue!Init
  BY NewRingIs DEF Init, Queue!Init
<1>. QED  BY <1>1, AlwaysFollows, QueueSteps, PTL DEF Spec, RingIsQueue, Queue!Spec

=============================================================================
