-------------------------- MODULE SchedulerProofs --------------------------
(***************************************************************************)
(* What holds in every instance of Scheduler, whatever the widths, delays, *)
(* latencies and programs.                                                 *)
(*                                                                         *)
(* Every action is first described by what it does to one part of an       *)
(* instruction (Finishes, Enters, Issues, Executes, Ages, PlacedAs).  On   *)
(* these descriptions rests the inductive invariant Inv, layer by layer:   *)
(*   Shapes   a part is in one of six states, and what is issued or runs   *)
(*            is due in the time that its stage allows;                    *)
(*   RegsInv  a result register has one writer, its readers are younger    *)
(*            instructions of the writer's thread, and its times are those *)
(*            of the writer; what is ready has its operands;               *)
(*   Fed      what has begun had its operands, Flow from whom;             *)
(*   Slots    entries of the issue queue and instructions are paired;      *)
(*   Exact    without prediction nothing is announced too early.           *)
(* LoadsBehind, with a functional unit for all, is about loads and the     *)
(* stores before them.                                                     *)
(***************************************************************************)
EXTENDS Scheduler, TLAPS, FiniteSetTheorems, SequenceTheorems, WellFoundedInduction

(***************************************************************************)
(* The life of a part of an instruction: it is fresh until dispatch(),     *)
(* waits, is ready, has been issued, runs, and is over.  An execute() that *)
(* replays sends it back; a load then is as fresh as before.               *)
(***************************************************************************)
Fresh(q)   == q.lists = {} /\ ~q.queued /\ ~q.issued /\ ~q.completed
Waits(q)   == q.lists = {"waiting"} /\ ~q.queued /\ ~q.issued /\ ~q.completed
IsReady(q) == q.lists = {"ready"} /\ q.queued /\ ~q.issued /\ ~q.completed
Issuing(q) == q.lists = {"issue_exec"} /\ ~q.queued /\ q.issued /\ ~q.completed
Runs(q)    == q.lists = {"event"} /\ ~q.queued /\ q.issued /\ ~q.completed
Over(q)    == q.lists = {} /\ ~q.queued /\ q.issued /\ q.completed

Operands   == Regs \cup {NoReg}
EntryTypes == [class : Classes, dest : Operands, src : Operands \X Operands,
               addr : Addrs \cup {NoAddr}, dispatched : BOOLEAN, slot : 0 .. IqSize,
               op : PartTypes, mem : PartTypes]

(* What an instruction's parts may be.                                     *)
InOrder(e) ==
  /\ e.class \in {"store", "branch"} => e.dest = NoReg
  /\ ~e.dispatched => Fresh(e.op) /\ Fresh(e.mem) /\ e.slot = NoSlot
  /\ e.dispatched => Waits(e.op) \/ IsReady(e.op) \/ Issuing(e.op) \/ Runs(e.op) \/ Over(e.op)
  /\ e.dispatched /\ IsStore(e) => Waits(e.mem) \/ IsReady(e.mem) \/ Over(e.mem)
  /\ e.class = "load" => \/ Fresh(e.mem) \/ IsReady(e.mem) \/ Issuing(e.mem)
                         \/ Runs(e.mem) \/ Over(e.mem)
  /\ ~IsMem(e) => Fresh(e.mem)

(* The times of what is issued or runs.                                    *)
IssueFrom(st) == IF st \in {"dispatch", "register_rename"} THEN 1 ELSE 0
RunFrom(st)   == IF st \in {"commit", "writeback"} THEN 0 ELSE 1

InTime(q, st) ==
  /\ q.when \in Past .. MaxTime
  /\ Issuing(q) => q.when \in IssueFrom(st) .. Delay /\ q.exec_lat \in 1 .. MaxTime - Delay
  /\ Runs(q) => q.when \in RunFrom(st) .. MaxTime

Stages == {"commit", "writeback", "lsq_refresh", "wakeup", "selection", "execute",
           "dispatch", "register_rename"}

Shapes ==
  /\ rob \in [Threads -> Seq(EntryTypes)]
  /\ reg \in [Regs -> [spec_ready : Times, ready : Times]]
  /\ iq \in [1 .. IqSize -> BOOLEAN]
  /\ n \in 0 .. Max({Width, RenameWidth})
  /\ recovery_model_v \in Recovery
  /\ stage \in Stages
  /\ \A t \in Threads :
       /\ Len(rob[t]) <= RobSize
       /\ \A i \in DOMAIN rob[t] :
            /\ InOrder(rob[t][i])
            /\ InTime(rob[t][i].op, stage) /\ InTime(rob[t][i].mem, stage)
            /\ \A j \in 1 .. i - 1 : rob[t][i].dispatched => rob[t][j].dispatched

(***************************************************************************)
(* Registers.                                                              *)
(***************************************************************************)
ProducingPart(e) == IF IsMem(e) THEN "mem" ELSE "op"
Producer(e)      == e[ProducingPart(e)]

Settled(v) == v.ready <= 0 \/ (v.ready # Never /\ v.spec_ready = TrueTime(v.ready))
Unknown(v) == v.ready = Never /\ v.spec_ready = Never

(* What the result register of an instruction says of it.                  *)
Announced(c, q, v) ==
  /\ Issuing(q) => v.ready = q.when + q.exec_lat
  /\ Runs(q) => v.ready = q.when
  /\ Over(q) => Settled(v) /\ (c # "store_cond" => v.ready <= 0)
  /\ ~(Issuing(q) \/ Runs(q) \/ Over(q)) => Unknown(v)

OneWriter ==
  \A t, u \in Threads : \A i \in DOMAIN rob[t], j \in DOMAIN rob[u] :
    rob[t][i].dest = rob[u][j].dest /\ rob[t][i].dest # NoReg => t = u /\ i = j

Private ==
  \A t, u \in Threads : \A i \in DOMAIN rob[t], j \in DOMAIN rob[u] :
    rob[u][j].dest \in {rob[t][i].src[1], rob[t][i].src[2]} \ {NoReg} => t = u /\ j < i

IsResult(r) == \E t \in Threads : \E i \in DOMAIN rob[t] : rob[t][i].dest = r

Timed ==
  /\ \A t \in Threads : \A i \in DOMAIN rob[t] :
       rob[t][i].dest # NoReg =>
         Announced(rob[t][i].class, Producer(rob[t][i]), reg[rob[t][i].dest])
  /\ \A r \in Regs : ~IsResult(r) => Settled(reg[r])

ReadyHolds ==
  \A t \in Threads : \A i \in DOMAIN rob[t] : \A p \in {"op", "mem"} :
    IsReady(rob[t][i][p]) => OperandsSpecReady(rob[t][i], p)

RegsInv == OneWriter /\ Private /\ Timed /\ ReadyHolds

HasBegun(q) == Runs(q) \/ Over(q)

Fed ==
  \A t \in Threads : \A i \in DOMAIN rob[t] : \A p \in {"op", "mem"} :
    HasBegun(rob[t][i][p]) /\ ~(p = "mem" /\ IsStore(rob[t][i])) =>
      OperandsReady(rob[t][i], p)

(***************************************************************************)
(* Loads and the stores before them.                                       *)
(***************************************************************************)
Behind(e, o, u, st) ==
  /\ IsReady(u) => \/ st = "wakeup" /\ Waits(o) /\ OperandsSpecReady(e, "op")
                   \/ IsReady(o) \/ Issuing(o) \/ HasBegun(o)
  /\ Issuing(u) => (Issuing(o) /\ o.when <= u.when) \/ HasBegun(o)
  /\ HasBegun(u) => HasBegun(o)

LoadsBehind ==
  \A t \in Threads : \A i \in DOMAIN rob[t] : \A j \in 1 .. i - 1 :
    rob[t][i].class = "load" /\ IsStore(rob[t][j]) =>
      Behind(rob[t][j], rob[t][j].op, rob[t][i].mem, stage)

(***************************************************************************)
(* Issue queue.                                                            *)
(***************************************************************************)
Slots ==
  /\ \A t \in Threads : \A i \in DOMAIN rob[t] : LET e == rob[t][i] IN
       /\ e.dispatched => (e.slot = NoSlot <=> HasBegun(e.op))
       /\ e.slot # NoSlot => iq[e.slot]
  /\ \A t, u \in Threads : \A i \in DOMAIN rob[t], j \in DOMAIN rob[u] :
       rob[t][i].slot = rob[u][j].slot /\ rob[t][i].slot # NoSlot => t = u /\ i = j
  /\ \A s \in 1 .. IqSize : iq[s] => \E t \in Threads : \E i \in DOMAIN rob[t] : rob[t][i].slot = s

(***************************************************************************)
(* Perfect recovery.                                                       *)
(***************************************************************************)
Exact ==
  ~Squash =>
    /\ \A r \in Regs : \/ reg[r].spec_ready = Never
                       \/ reg[r].ready # Never /\ reg[r].ready <= reg[r].spec_ready + Delay
    /\ \A t \in Threads : \A i \in DOMAIN rob[t] : \A p \in {"op", "mem"} :
         Issuing(rob[t][i][p]) => \A r \in SrcsOf(rob[t][i], p) : reg[r].ready <= rob[t][i][p].when

(***************************************************************************)
(* Arithmetic.                                                             *)
(***************************************************************************)
(* Every non-empty set of natural numbers has a least element: Min is one. *)
LEMMA MinFacts ==
  ASSUME NEW S, S \subseteq Nat, S # {}
  PROVE  Min(S) \in S /\ \A y \in S : Min(S) <= y
<1>1. PICK x \in S : \A y \in S : ~ (<<y, x>> \in OpToRel(<, Nat))
  BY NatLessThanWellFounded, WFMin
<1>2. \A y \in S : ~ (y < x)
  BY <1>1 DEF OpToRel
<1>3. \E z \in S : \A y \in S : z <= y
  BY <1>2
<1> QED
  BY <1>3 DEF Min

LEMMA MaxOfTwo ==
  ASSUME NEW a \in Int, NEW b \in Int
  PROVE  Max({a, b}) = IF a >= b THEN a ELSE b
BY DEF Max

(* A finite set of numbers has a greatest: follow an enumeration of it.    *)
LEMMA MaxFacts ==
  ASSUME NEW S, S \subseteq Nat, S # {}, IsFiniteSet(S)
  PROVE  Max(S) \in S /\ \A y \in S : y <= Max(S)
<1>1. PICK c \in Nat : ExistsSurjection(1 .. c, S)
  BY FS_NatSurjection
<1>2. PICK f \in [1 .. c -> S] : \A y \in S : \E i \in 1 .. c : f[i] = y
  BY <1>1 DEF ExistsSurjection, Surjection
<1> DEFINE Tops(k) == \E x \in S : \A i \in 1 .. k : f[i] <= x
           Bad == {k \in 0 .. c : ~Tops(k)}
<1>3. Bad = {}
  <2> SUFFICES ASSUME Bad # {} PROVE FALSE
    OBVIOUS
  <2>1. PICK k \in Bad : \A m \in Bad : k <= m
    <3>1. Bad \subseteq Nat
      OBVIOUS
    <3> HIDE DEF Bad
    <3> QED
      BY <3>1, MinFacts
  <2>2. k \in 0 .. c /\ ~Tops(k)
    BY <2>1
  <2>3. k # 0
    <3>1. PICK x : x \in S
      OBVIOUS
    <3>2. \A i \in 1 .. 0 : f[i] <= x
      OBVIOUS
    <3>3. Tops(0)
      BY <3>1, <3>2
    <3> QED
      BY <2>2, <3>3
  <2>4. PICK x \in S : \A i \in 1 .. k - 1 : f[i] <= x
    <3>1. k - 1 \in 0 .. c /\ ~(k <= k - 1)
      BY <2>2, <2>3
    <3>2. k - 1 \notin Bad
      BY <2>1, <3>1
    <3> QED
      BY <3>1, <3>2
  <2>5. f[k] \in S /\ x \in Nat /\ f[k] \in Nat
    <3>1. k \in 1 .. c
      BY <2>2, <2>3
    <3> QED
      BY <1>2, <2>4, <3>1
  <2>6. \A i \in 1 .. k : i \in 1 .. k - 1 \/ i = k
    BY <2>2
  <2>7. \A i \in 1 .. k : f[i] \in Nat
    <3>1. 1 .. k \subseteq 1 .. c
      BY <2>2
    <3> QED
      BY <1>2, <3>1
  <2>8. CASE f[k] <= x
    <3>1. Tops(k)
      BY <2>4, <2>6, <2>8
    <3> QED
      BY <2>2, <3>1
  <2>9. CASE ~(f[k] <= x)
    <3>1. \A i \in 1 .. k : f[i] <= f[k]
      BY <2>4, <2>5, <2>6, <2>7, <2>9
    <3>2. Tops(k)
      BY <2>5, <3>1
    <3> QED
      BY <2>2, <3>2
  <2> QED
    BY <2>8, <2>9
<1>4. PICK x \in S : \A i \in 1 .. c : f[i] <= x
  <2>1. c \in 0 .. c /\ c \notin Bad
    BY <1>3, SMTT(30)
  <2> QED
    BY <2>1
<1>5. \E z \in S : \A y \in S : z >= y
  BY <1>2, <1>4
<1>6. Max(S) \in S /\ \A y \in S : Max(S) >= y
  BY <1>5 DEF Max
<1> QED
  BY <1>6

(* The times of a cycle: a latency and the way to execution fit in them.   *)
LEMMA TimeFacts ==
  /\ MaxTime \in Nat /\ Delay \in Nat /\ Never = MaxTime + 1 /\ Past = -1
  /\ Delay + 1 <= MaxTime
  /\ \A l \in LoadLats \cup AluLats : l \in Nat /\ 1 <= l /\ l + Delay <= MaxTime
  /\ HitLat \in LoadLats /\ 1 \in AluLats
<1> DEFINE Lats == LoadLats \cup AluLats
<1>1. Lats \subseteq Nat \ {0} /\ IsFiniteSet(Lats) /\ 1 \in Lats
  BY SchedulerAssumption
<1>2. Max(Lats) \in Lats /\ \A l \in Lats : l <= Max(Lats)
  BY <1>1, MaxFacts
<1>3. PICK top \in Nat : top = Max(Lats)
  BY <1>1, <1>2
<1>4. Delay \in Nat /\ MaxTime = top + Delay
  BY <1>3, SchedulerAssumption DEF MaxTime
<1>5. \A l \in Lats : l \in Nat /\ 1 <= l /\ l <= top
  BY <1>1, <1>2, <1>3
<1>6. \A l \in Lats : l \in Nat /\ 1 <= l /\ l + Delay <= MaxTime
  <2> HIDE DEF Lats
  <2> QED
    BY <1>4, <1>5
<1>7. Delay + 1 <= MaxTime
  <2>1. 1 + Delay <= MaxTime
    BY <1>1, <1>6
  <2> QED
    BY <1>4, <2>1
<1> QED
  BY <1>4, <1>6, <1>7, SchedulerAssumption DEF Never, Past

LEMMA PastIsTime == Past \in Times /\ Delay \in Times /\ Never \in Times
BY TimeFacts DEF Times

LEMMA LaterFacts ==
  ASSUME NEW x \in Times
  PROVE  /\ Later(x) \in Times
         /\ x = Never => Later(x) = Never
         /\ x # Never => /\ x \in Past .. MaxTime /\ Later(x) \in Past .. MaxTime
                         /\ Later(x) = IF x = Past THEN Past ELSE x - 1
<1>1. x = Never \/ x \in Past .. MaxTime
  BY DEF Times
<1>2. CASE x = Never
  BY <1>2 DEF Later, Times
<1>3. CASE x # Never
  <2>1. x \in Int /\ Past \in Int /\ x - 1 \in Int
    BY <1>1, <1>3, TimeFacts
  <2>2. Later(x) = IF x - 1 >= Past THEN x - 1 ELSE Past
    BY <1>3, <2>1, MaxOfTwo DEF Later
  <2> QED
    BY <1>1, <1>3, <2>1, <2>2, TimeFacts DEF Times
<1> QED
  BY <1>2, <1>3

LEMMA TrueTimeFacts ==
  ASSUME NEW x \in Times
  PROVE  /\ TrueTime(x) \in Times
         /\ x = Never => TrueTime(x) = Never
         /\ x # Never => /\ TrueTime(x) \in Past .. MaxTime
                         /\ TrueTime(x) = IF x - Delay >= Past THEN x - Delay ELSE Past
<1>1. x = Never \/ x \in Past .. MaxTime
  BY DEF Times
<1>2. CASE x = Never
  BY <1>2 DEF TrueTime, Times
<1>3. CASE x # Never
  <2>1. x \in Int /\ Past \in Int /\ x - Delay \in Int
    BY <1>1, <1>3, TimeFacts
  <2>2. TrueTime(x) = IF x - Delay >= Past THEN x - Delay ELSE Past
    BY <1>3, <2>1, MaxOfTwo DEF TrueTime
  <2> QED
    BY <1>1, <1>3, <2>1, <2>2, TimeFacts DEF Times
<1> QED
  BY <1>2, <1>3

(***************************************************************************)
(* The parts of the instructions in the ROBs.                              *)
(***************************************************************************)
LEMMA EntryFacts ==
  ASSUME Shapes, NEW t \in Threads, NEW i \in DOMAIN rob[t]
  PROVE  /\ rob[t] \in Seq(EntryTypes) /\ Len(rob[t]) \in Nat
         /\ DOMAIN rob[t] = 1 .. Len(rob[t]) /\ i \in 1 .. RobSize /\ i \in Nat
         /\ rob[t][i] \in EntryTypes /\ InOrder(rob[t][i])
         /\ InTime(rob[t][i].op, stage) /\ InTime(rob[t][i].mem, stage)
<1>1. rob[t] \in Seq(EntryTypes)
  BY DEF Shapes
<1>2. Len(rob[t]) \in Nat /\ DOMAIN rob[t] = 1 .. Len(rob[t]) /\ rob[t][i] \in EntryTypes
  BY <1>1
<1>3. Len(rob[t]) <= RobSize /\ RobSize \in Nat
  BY SchedulerAssumption DEF Shapes
<1>4. i \in 1 .. RobSize /\ i \in Nat
  BY <1>2, <1>3
<1> QED
  BY <1>1, <1>2, <1>4 DEF Shapes

AnyState(q) == Fresh(q) \/ Waits(q) \/ IsReady(q) \/ Issuing(q) \/ Runs(q) \/ Over(q)

LEMMA PartFacts ==
  ASSUME NEW e \in EntryTypes, InOrder(e), NEW p \in {"op", "mem"}
  PROVE  /\ e[p] \in PartTypes /\ AnyState(e[p])
         /\ p \notin Parts(e) => p = "mem" /\ ~IsMem(e) /\ Fresh(e[p])
<1>1. e.class \in MemClasses \cup {"alu", "branch"} /\ e.dispatched \in BOOLEAN
  BY SchedulerAssumption DEF EntryTypes
<1>2. e.op \in PartTypes /\ e.mem \in PartTypes
  BY DEF EntryTypes
<1>3. AnyState(e.op)
  BY <1>1 DEF AnyState, InOrder
<1>4. IsMem(e) => e.class = "load" \/ IsStore(e)
  BY DEF IsMem, IsStore, MemClasses, StoreClasses
<1>5. AnyState(e.mem)
  BY <1>1, <1>4 DEF AnyState, InOrder
<1>6. p \notin Parts(e) => p = "mem" /\ ~IsMem(e)
  BY DEF Parts
<1> QED
  BY <1>2, <1>3, <1>5, <1>6 DEF InOrder

(* The flags and the list of a part agree.                                 *)
LEMMA StateFacts ==
  ASSUME NEW q, AnyState(q)
  PROVE  /\ "waiting" \in q.lists <=> Waits(q)
         /\ "ready" \in q.lists <=> IsReady(q)
         /\ "issue_exec" \in q.lists <=> Issuing(q)
         /\ "event" \in q.lists <=> Runs(q)
BY DEF AnyState, Fresh, Waits, IsReady, Issuing, Runs, Over

LEMMA UnitFacts ==
  ASSUME Shapes
  PROVE  /\ \A t \in Threads : \A i \in DOMAIN rob[t] : \A p \in {"op", "mem"} :
              /\ <<t, i, p>> \in Units <=> p \in Parts(rob[t][i])
              /\ At(<<t, i, p>>) = rob[t][i] /\ PartOf(<<t, i, p>>) = rob[t][i][p]
         /\ \A u \in Units : /\ u[1] \in Threads /\ u[2] \in DOMAIN rob[u[1]]
                             /\ u[3] \in {"op", "mem"} /\ u[3] \in Parts(rob[u[1]][u[2]])
                             /\ u = <<u[1], u[2], u[3]>>
<1>1. ASSUME NEW t \in Threads, NEW i \in DOMAIN rob[t], NEW p \in {"op", "mem"}
      PROVE  /\ <<t, i, p>> \in Units <=> p \in Parts(rob[t][i])
             /\ At(<<t, i, p>>) = rob[t][i] /\ PartOf(<<t, i, p>>) = rob[t][i][p]
  <2>1. i \in 1 .. RobSize
    BY EntryFacts
  <2> QED
    BY <2>1 DEF Units, At, PartOf
<1>2. ASSUME NEW u \in Units
      PROVE  /\ u[1] \in Threads /\ u[2] \in DOMAIN rob[u[1]]
             /\ u[3] \in {"op", "mem"} /\ u[3] \in Parts(rob[u[1]][u[2]])
             /\ u = <<u[1], u[2], u[3]>>
  BY DEF Units, At
<1> QED
  BY <1>1, <1>2

(* Who is on a list.                                                       *)
LEMMA OnFacts ==
  ASSUME Shapes, NEW t \in Threads, NEW i \in DOMAIN rob[t], NEW p \in {"op", "mem"}
  PROVE  /\ <<t, i, p>> \in On("waiting") <=> Waits(rob[t][i][p])
         /\ <<t, i, p>> \in On("ready") <=> IsReady(rob[t][i][p])
         /\ <<t, i, p>> \in On("issue_exec") <=> Issuing(rob[t][i][p])
         /\ <<t, i, p>> \in On("event") <=> Runs(rob[t][i][p])
<1>1. /\ <<t, i, p>> \in Units <=> p \in Parts(rob[t][i])
      /\ PartOf(<<t, i, p>>) = rob[t][i][p]
  BY UnitFacts
<1>2. /\ AnyState(rob[t][i][p])
      /\ p \notin Parts(rob[t][i]) => Fresh(rob[t][i][p])
  BY EntryFacts, PartFacts
<1>3. p \notin Parts(rob[t][i]) => rob[t][i][p].lists = {}
  BY <1>2 DEF Fresh
<1>4. \A list : <<t, i, p>> \in On(list) <=> list \in rob[t][i][p].lists
  BY <1>1, <1>3 DEF On
<1> QED
  BY <1>2, <1>4, StateFacts

(* What changing some parts leaves alone.                                  *)
Kept(e, f) == /\ f.class = e.class /\ f.dest = e.dest /\ f.src = e.src /\ f.addr = e.addr
              /\ f.dispatched = e.dispatched

LEMMA ChangedFacts ==
  ASSUME NEW robs \in [Threads -> Seq(EntryTypes)], NEW parts,
         \A u \in DOMAIN parts : parts[u] \in PartTypes
  PROVE  /\ Changed(robs, parts) \in [Threads -> Seq(EntryTypes)]
         /\ \A t \in Threads :
              /\ DOMAIN Changed(robs, parts)[t] = DOMAIN robs[t]
              /\ Len(Changed(robs, parts)[t]) = Len(robs[t])
              /\ \A i \in DOMAIN robs[t] :
                   /\ Kept(robs[t][i], Changed(robs, parts)[t][i])
                   /\ Changed(robs, parts)[t][i].slot = robs[t][i].slot
                   /\ \A p \in {"op", "mem"} : Changed(robs, parts)[t][i][p] =
                        NewPartOf(parts, <<t, i, p>>, robs[t][i][p])
<1> DEFINE new == Changed(robs, parts)
           E(t, i) == [robs[t][i] EXCEPT !.op  = NewPartOf(parts, <<t, i, "op">>, @),
                                         !.mem = NewPartOf(parts, <<t, i, "mem">>, @)]
<1>1. new = [t \in Threads |-> [i \in DOMAIN robs[t] |-> E(t, i)]]
  BY DEF Changed
<1>2. ASSUME NEW t \in Threads, NEW i \in DOMAIN robs[t]
      PROVE  /\ E(t, i) \in EntryTypes /\ Kept(robs[t][i], E(t, i))
             /\ E(t, i).slot = robs[t][i].slot
             /\ \A p \in {"op", "mem"} :
                  E(t, i)[p] = NewPartOf(parts, <<t, i, p>>, robs[t][i][p])
  <2>1. PICK e \in EntryTypes : e = robs[t][i]
    OBVIOUS
  <2>2. e.op \in PartTypes /\ e.mem \in PartTypes
    BY DEF EntryTypes
  <2>3. PICK o \in PartTypes : o = NewPartOf(parts, <<t, i, "op">>, e.op)
    BY <2>2 DEF NewPartOf
  <2>4. PICK m \in PartTypes : m = NewPartOf(parts, <<t, i, "mem">>, e.mem)
    BY <2>2 DEF NewPartOf
  <2>5. E(t, i) = [e EXCEPT !.op = o, !.mem = m]
    BY <2>1, <2>3, <2>4
  <2>6. PICK f : f = [e EXCEPT !.op = o, !.mem = m]
    OBVIOUS
  <2>7. /\ f \in EntryTypes /\ f.op = o /\ f.mem = m /\ f.slot = e.slot /\ Kept(e, f)
    BY <2>6 DEF EntryTypes, Kept
  <2>8. \A p \in {"op", "mem"} : f[p] = NewPartOf(parts, <<t, i, p>>, e[p])
    BY <2>3, <2>4, <2>7
  <2> QED
    BY <2>1, <2>5, <2>6, <2>7, <2>8
<1>3. ASSUME NEW t \in Threads
      PROVE  /\ new[t] = [i \in 1 .. Len(robs[t]) |-> E(t, i)]
             /\ DOMAIN robs[t] = 1 .. Len(robs[t])
             /\ new[t] \in Seq(EntryTypes) /\ Len(new[t]) = Len(robs[t])
             /\ DOMAIN new[t] = DOMAIN robs[t]
  <2>1. DOMAIN robs[t] = 1 .. Len(robs[t]) /\ Len(robs[t]) \in Nat
    OBVIOUS
  <2>2. new[t] = [i \in 1 .. Len(robs[t]) |-> E(t, i)]
    BY <1>1, <2>1
  <2>3. \A i \in 1 .. Len(robs[t]) : E(t, i) \in EntryTypes
    BY <1>2, <2>1
  <2> HIDE DEF new, E
  <2> QED
    BY <2>1, <2>2, <2>3
<1> HIDE DEF E
<1>4. new \in [Threads -> Seq(EntryTypes)]
  <2>1. DOMAIN new = Threads /\ new = [t \in Threads |-> new[t]]
    BY <1>1
  <2> HIDE DEF new
  <2> QED
    BY <1>3, <2>1
<1>5. \A t \in Threads : \A i \in DOMAIN robs[t] : new[t][i] = E(t, i)
  BY <1>3
<1> HIDE DEF new
<1>6. ASSUME NEW t \in Threads
      PROVE  \A i \in DOMAIN robs[t] :
                   /\ Kept(robs[t][i], new[t][i])
                   /\ new[t][i].slot = robs[t][i].slot
                   /\ \A p \in {"op", "mem"} : new[t][i][p] =
                        NewPartOf(parts, <<t, i, p>>, robs[t][i][p])
  BY <1>2, <1>5
<1>7. PICK c : c = Changed(robs, parts)
  OBVIOUS
<1>8. new = c
  BY <1>7 DEF new
<1>9. /\ c \in [Threads -> Seq(EntryTypes)]
      /\ \A t \in Threads :
              /\ DOMAIN c[t] = DOMAIN robs[t] /\ Len(c[t]) = Len(robs[t])
              /\ \A i \in DOMAIN robs[t] :
                   /\ Kept(robs[t][i], c[t][i]) /\ c[t][i].slot = robs[t][i].slot
                   /\ \A p \in {"op", "mem"} : c[t][i][p] =
                        NewPartOf(parts, <<t, i, p>>, robs[t][i][p])
  BY <1>3, <1>4, <1>6, <1>8
<1> QED
  BY <1>7, <1>9

(***************************************************************************)
(* How a stage moves the parts.  Each of the six stages that run over all  *)
(* instructions (commit(), dispatch() and register_rename() change the     *)
(* ROBs one instruction at a time) is described by what it makes of one    *)
(* part q of an instruction e: q2.                                         *)
(***************************************************************************)
SameState(q, q2) == /\ q2.lists = q.lists /\ q2.queued = q.queued
                    /\ q2.issued = q.issued /\ q2.completed = q.completed

IsLoadPart(e, p)  == p = "mem" /\ e.class = "load"
IsStorePart(e, p) == p = "mem" /\ IsStore(e)

(* The steps in the life of a part.                                        *)
Lives(e, p, q, q2) ==
  \/ SameState(q, q2)
  \/ Runs(q) /\ Over(q2)
  \/ Waits(q) /\ IsReady(q2)
  \/ Fresh(q) /\ e.dispatched /\ IsLoadPart(e, p) /\ IsReady(q2)
  \/ IsReady(q) /\ IsStorePart(e, p) /\ Over(q2)
  \/ IsReady(q) /\ ~IsStorePart(e, p) /\ Issuing(q2)
  \/ Issuing(q) /\ Runs(q2)
  \/ (IsReady(q) \/ Issuing(q)) /\ IsLoadPart(e, p) /\ Fresh(q2)
  \/ (IsReady(q) \/ Issuing(q)) /\ ~IsLoadPart(e, p) /\ Waits(q2)

InPlace ==
  /\ rob' \in [Threads -> Seq(EntryTypes)]
  /\ \A t \in Threads : /\ DOMAIN rob'[t] = DOMAIN rob[t] /\ Len(rob'[t]) = Len(rob[t])
                        /\ \A i \in DOMAIN rob[t] : Kept(rob[t][i], rob'[t][i])

LEMMA InOrderKept ==
  ASSUME NEW e \in EntryTypes, NEW f \in EntryTypes, InOrder(e), Kept(e, f),
         f.slot = e.slot \/ f.slot = NoSlot,
         Lives(e, "op", e.op, f.op), Lives(e, "mem", e.mem, f.mem)
  PROVE  InOrder(f)
<1>1. e.class \in MemClasses \cup {"alu", "branch"} /\ e.dispatched \in BOOLEAN
  BY SchedulerAssumption DEF EntryTypes
<1>2. /\ f.class = e.class /\ f.dest = e.dest /\ f.dispatched = e.dispatched
      /\ IsStore(f) <=> IsStore(e)
      /\ IsMem(f) <=> IsMem(e)
  BY DEF Kept, IsStore, IsMem
<1>3. ~IsLoadPart(e, "op") /\ ~IsStorePart(e, "op")
      /\ (IsLoadPart(e, "mem") <=> e.class = "load") /\ (IsStorePart(e, "mem") <=> IsStore(e))
  BY DEF IsLoadPart, IsStorePart
<1>4. /\ e.class = "load" => IsMem(e) /\ ~IsStore(e)
      /\ IsStore(e) => IsMem(e)
      /\ IsMem(e) => e.class = "load" \/ IsStore(e)
  BY DEF IsMem, IsStore, MemClasses, StoreClasses
<1>5. ASSUME ~e.dispatched PROVE Fresh(f.op) /\ Fresh(f.mem) /\ f.slot = NoSlot
  BY <1>5, SMTT(30) DEF InOrder, Lives, SameState, Fresh, Waits, IsReady, Issuing, Runs
<1>6. ASSUME e.dispatched
      PROVE  Waits(f.op) \/ IsReady(f.op) \/ Issuing(f.op) \/ Runs(f.op) \/ Over(f.op)
  BY <1>3, <1>6, SMTT(30) DEF InOrder, Lives, SameState, Fresh, Waits, IsReady, Issuing, Runs, Over
<1>7. ASSUME e.dispatched, IsStore(e) PROVE Waits(f.mem) \/ IsReady(f.mem) \/ Over(f.mem)
  BY <1>3, <1>4, <1>7, SMTT(30) DEF InOrder, Lives, SameState, Fresh, Waits, IsReady, Issuing, Runs, Over
<1>8. ASSUME e.class = "load"
      PROVE  Fresh(f.mem) \/ IsReady(f.mem) \/ Issuing(f.mem) \/ Runs(f.mem) \/ Over(f.mem)
  BY <1>3, <1>4, <1>8, SMTT(30) DEF InOrder, Lives, SameState, Fresh, Waits, IsReady, Issuing, Runs, Over
<1>9. ASSUME ~IsMem(e) PROVE Fresh(f.mem)
  BY <1>3, <1>4, <1>9 DEF InOrder, Lives, SameState, Fresh, Waits, IsReady, Issuing, Runs, Over
<1> QED
  BY <1>1, <1>2, <1>5, <1>6, <1>7, <1>8, <1>9 DEF InOrder

(* A stage that leaves every instruction in order keeps the shapes.        *)
LEMMA ShapesInPlace ==
  ASSUME Shapes, InPlace,
         \A t \in Threads : \A i \in DOMAIN rob[t] :
           /\ rob'[t][i].slot = rob[t][i].slot \/ rob'[t][i].slot = NoSlot
           /\ \A p \in {"op", "mem"} : /\ Lives(rob[t][i], p, rob[t][i][p], rob'[t][i][p])
                                       /\ InTime(rob'[t][i][p], stage'),
         reg' \in [Regs -> [spec_ready : Times, ready : Times]],
         iq' \in [1 .. IqSize -> BOOLEAN], n' = 0, stage' \in Stages,
         UNCHANGED recovery_model_v
  PROVE  Shapes'
<1>1. n' \in 0 .. Max({Width, RenameWidth})
  <2>1. Width \in Nat /\ RenameWidth \in Nat
    BY SchedulerAssumption
  <2> QED
    BY <2>1, MaxOfTwo
<1>2. recovery_model_v' \in Recovery
  BY DEF Shapes
<1>3. ASSUME NEW t \in Threads, NEW i \in DOMAIN rob'[t]
      PROVE  /\ InOrder(rob'[t][i])
             /\ InTime(rob'[t][i].op, stage') /\ InTime(rob'[t][i].mem, stage')
             /\ \A j \in 1 .. i - 1 : rob'[t][i].dispatched => rob'[t][j].dispatched
  <2>1. i \in DOMAIN rob[t]
    BY <1>3 DEF InPlace
  <2>2. rob'[t] \in Seq(EntryTypes) /\ rob'[t][i] \in EntryTypes
    BY <1>3 DEF InPlace
  <2>3. /\ rob[t][i] \in EntryTypes /\ InOrder(rob[t][i])
        /\ DOMAIN rob[t] = 1 .. Len(rob[t]) /\ Len(rob[t]) \in Nat
    BY <2>1, EntryFacts
  <2>4. Kept(rob[t][i], rob'[t][i])
    BY <2>1 DEF InPlace
  <2>5. /\ Lives(rob[t][i], "op", rob[t][i].op, rob'[t][i].op)
        /\ Lives(rob[t][i], "mem", rob[t][i].mem, rob'[t][i].mem)
        /\ InTime(rob'[t][i].op, stage') /\ InTime(rob'[t][i].mem, stage')
        /\ rob'[t][i].slot = rob[t][i].slot \/ rob'[t][i].slot = NoSlot
    BY <2>1
  <2>6. InOrder(rob'[t][i])
    BY <2>2, <2>3, <2>4, <2>5, InOrderKept
  <2>7. ASSUME NEW j \in 1 .. i - 1, rob'[t][i].dispatched PROVE rob'[t][j].dispatched
    <3>1. j \in DOMAIN rob[t]
      BY <2>1, <2>3
    <3>2. rob[t][i].dispatched => rob[t][j].dispatched
      BY <2>1 DEF Shapes
    <3> QED
      BY <2>4, <2>7, <3>1, <3>2 DEF InPlace, Kept
  <2> QED
    BY <2>5, <2>6, <2>7
<1>4. \A t \in Threads : Len(rob'[t]) <= RobSize
  BY DEF Shapes, InPlace
<1> QED
  BY <1>1, <1>2, <1>3, <1>4 DEF Shapes, InPlace

LEMMA InPlaceFacts ==
  ASSUME Shapes, NEW parts, \A u \in DOMAIN parts : parts[u] \in PartTypes,
         rob' = Changed(rob, parts)
  PROVE  /\ InPlace
         /\ \A t \in Threads : \A i \in DOMAIN rob[t] :
              /\ rob'[t][i].slot = rob[t][i].slot
              /\ \A p \in {"op", "mem"} : rob'[t][i][p] =
                   NewPartOf(parts, <<t, i, p>>, rob[t][i][p])
<1>1. rob \in [Threads -> Seq(EntryTypes)]
  BY DEF Shapes
<1>2. PICK new : new = Changed(rob, parts)
  OBVIOUS
<1>3. /\ new \in [Threads -> Seq(EntryTypes)]
      /\ \A t \in Threads :
              /\ DOMAIN new[t] = DOMAIN rob[t] /\ Len(new[t]) = Len(rob[t])
              /\ \A i \in DOMAIN rob[t] :
                   /\ Kept(rob[t][i], new[t][i]) /\ new[t][i].slot = rob[t][i].slot
                   /\ \A p \in {"op", "mem"} : new[t][i][p] =
                        NewPartOf(parts, <<t, i, p>>, rob[t][i][p])
  BY <1>1, <1>2, ChangedFacts
<1>4. rob' = new
  BY <1>2
<1> QED
  BY <1>3, <1>4, ZenonT(60) DEF InPlace

LEMMA UnitPart ==
  ASSUME Shapes, NEW u \in Units
  PROVE  /\ PartOf(u) \in PartTypes
         /\ u \in On("waiting") <=> Waits(PartOf(u))
         /\ u \in On("ready") <=> IsReady(PartOf(u))
         /\ u \in On("issue_exec") <=> Issuing(PartOf(u))
         /\ u \in On("event") <=> Runs(PartOf(u))
         /\ InTime(PartOf(u), stage)
<1>1. PICK t \in Threads, i \in DOMAIN rob[u[1]], p \in {"op", "mem"} :
        u[1] = t /\ u[2] = i /\ u[3] = p /\ u = <<t, i, p>>
  BY UnitFacts
<1>2. i \in DOMAIN rob[t]
  BY <1>1
<1>3. PartOf(u) = rob[t][i][p]
  BY <1>1 DEF PartOf, At
<1>4. /\ rob[t][i] \in EntryTypes /\ InOrder(rob[t][i])
      /\ InTime(rob[t][i].op, stage) /\ InTime(rob[t][i].mem, stage)
  BY <1>2, EntryFacts
<1>5. rob[t][i][p] \in PartTypes
  BY <1>4, PartFacts
<1>6. /\ <<t, i, p>> \in On("waiting") <=> Waits(rob[t][i][p])
      /\ <<t, i, p>> \in On("ready") <=> IsReady(rob[t][i][p])
      /\ <<t, i, p>> \in On("issue_exec") <=> Issuing(rob[t][i][p])
      /\ <<t, i, p>> \in On("event") <=> Runs(rob[t][i][p])
  BY <1>2, OnFacts
<1>7. InTime(rob[t][i][p], stage)
  BY <1>4
<1> QED
  BY <1>1, <1>3, <1>5, <1>6, <1>7

(* writeback().                                                            *)
Finishes(q, q2) ==
  IF Runs(q) /\ q.when <= 0 THEN Over(q2) /\ q2.when = Past ELSE q2 = q

LEMMA WritebackMoves ==
  ASSUME Shapes, Writeback
  PROVE  /\ InPlace
         /\ \A t \in Threads : \A i \in DOMAIN rob[t] :
              /\ rob'[t][i].slot = rob[t][i].slot
              /\ \A p \in {"op", "mem"} : Finishes(rob[t][i][p], rob'[t][i][p])
<1> DEFINE Part(u) == [PartOf(u) EXCEPT !.completed = TRUE, !.lists = @ \ {"event"},
                                        !.when = Past]
           parts == [u \in Finished |-> Part(u)]
<1>1. ASSUME NEW u \in Finished
      PROVE  Part(u) \in PartTypes /\ Over(Part(u)) /\ Part(u).when = Past
  <2>1. PICK q \in PartTypes : q = PartOf(u) /\ Runs(q)
    BY UnitPart DEF Finished, On
  <2>2. PICK f : f = [q EXCEPT !.completed = TRUE, !.lists = @ \ {"event"}, !.when = Past]
    OBVIOUS
  <2>3. f \in PartTypes /\ f.when = Past
    BY <2>1, <2>2, PastIsTime DEF PartTypes
  <2>4. Over(f)
    BY <2>1, <2>2 DEF PartTypes, Runs, Over
  <2> QED
    BY <2>1, <2>2, <2>3, <2>4
<1>2. rob' = Changed(rob, parts) /\ DOMAIN parts = Finished
  BY DEF Writeback
<1>3. \A u \in Finished : parts[u] = Part(u)
  OBVIOUS
<1>4. \A t \in Threads : \A i \in DOMAIN rob[t] : \A p \in {"op", "mem"} :
        <<t, i, p>> \in Finished <=> Runs(rob[t][i][p]) /\ rob[t][i][p].when <= 0
  BY OnFacts, UnitFacts, ZenonT(60) DEF Finished
<1> HIDE DEF parts, Part
<1>5. /\ InPlace
      /\ \A t \in Threads : \A i \in DOMAIN rob[t] :
           /\ rob'[t][i].slot = rob[t][i].slot
           /\ \A p \in {"op", "mem"} :
                rob'[t][i][p] = NewPartOf(parts, <<t, i, p>>, rob[t][i][p])
  BY <1>1, <1>2, <1>3, InPlaceFacts
<1>6. ASSUME NEW t \in Threads, NEW i \in DOMAIN rob[t], NEW p \in {"op", "mem"}
      PROVE  Finishes(rob[t][i][p], rob'[t][i][p])
  <2>1. rob'[t][i][p] = NewPartOf(parts, <<t, i, p>>, rob[t][i][p])
    BY <1>5
  <2>2. <<t, i, p>> \in Finished <=> Runs(rob[t][i][p]) /\ rob[t][i][p].when <= 0
    BY <1>4
  <2> QED
    BY <1>1, <1>2, <1>3, <2>1, <2>2 DEF NewPartOf, Finishes
<1> QED
  BY <1>5, <1>6

(* lsq_refresh() and wakeup(): a part enters the ready queue.              *)
Enters(q, q2, enters) ==
  IF enters THEN (Fresh(q) \/ Waits(q)) /\ IsReady(q2) /\ q2.when = q.when ELSE q2 = q

LEMMA EnqueuedFacts ==
  ASSUME Shapes, NEW u \in Units, Fresh(PartOf(u)) \/ Waits(PartOf(u))
  PROVE  /\ Enqueued(u) \in PartTypes /\ IsReady(Enqueued(u))
         /\ Enqueued(u).when = PartOf(u).when
<1>1. PICK q \in PartTypes : q = PartOf(u) /\ (Fresh(q) \/ Waits(q))
  BY UnitPart
<1>2. PICK f : f = [q EXCEPT !.lists = (@ \ {"waiting"}) \cup {"ready"}, !.queued = TRUE]
  OBVIOUS
<1>3. f \in PartTypes /\ f.when = q.when
  BY <1>1, <1>2 DEF PartTypes
<1>4. IsReady(f)
  BY <1>1, <1>2 DEF PartTypes, Fresh, Waits, IsReady
<1> QED
  BY <1>1, <1>2, <1>3, <1>4 DEF Enqueued

LEMMA EnterMoves ==
  ASSUME Shapes, NEW U \in SUBSET Units,
         \A u \in U : Fresh(PartOf(u)) \/ Waits(PartOf(u)),
         rob' = Changed(rob, [u \in U |-> Enqueued(u)])
  PROVE  /\ InPlace
         /\ \A t \in Threads : \A i \in DOMAIN rob[t] :
              /\ rob'[t][i].slot = rob[t][i].slot
              /\ \A p \in {"op", "mem"} :
                   Enters(rob[t][i][p], rob'[t][i][p], <<t, i, p>> \in U)
<1> DEFINE parts == [u \in U |-> Enqueued(u)]
<1>1. /\ DOMAIN parts = U /\ rob' = Changed(rob, parts)
      /\ \A u \in U : parts[u] = Enqueued(u)
  OBVIOUS
<1>2. \A u \in U : /\ Enqueued(u) \in PartTypes /\ IsReady(Enqueued(u))
                   /\ Enqueued(u).when = PartOf(u).when
  BY EnqueuedFacts
<1> HIDE DEF parts
<1>3. /\ InPlace
      /\ \A t \in Threads : \A i \in DOMAIN rob[t] :
           /\ rob'[t][i].slot = rob[t][i].slot
           /\ \A p \in {"op", "mem"} :
                rob'[t][i][p] = NewPartOf(parts, <<t, i, p>>, rob[t][i][p])
  BY <1>1, <1>2, InPlaceFacts
<1>4. ASSUME NEW t \in Threads, NEW i \in DOMAIN rob[t], NEW p \in {"op", "mem"}
      PROVE  Enters(rob[t][i][p], rob'[t][i][p], <<t, i, p>> \in U)
  <2>1. rob'[t][i][p] = NewPartOf(parts, <<t, i, p>>, rob[t][i][p])
    BY <1>3
  <2>2. PartOf(<<t, i, p>>) = rob[t][i][p]
    BY UnitFacts
  <2> QED
    BY <1>1, <1>2, <2>1, <2>2 DEF NewPartOf, Enters
<1> QED
  BY <1>3, <1>4

LEMMA LoadsToQueueFacts ==
  ASSUME Shapes
  PROVE  /\ LoadsToQueue \subseteq Units
         /\ \A u \in LoadsToQueue :
              /\ Fresh(PartOf(u)) /\ u[3] = "mem" /\ At(u).class = "load"
              /\ At(u).dispatched /\ OperandsSpecReady(At(u), "mem") /\ MayLoad(u[1], u[2])
<1>1. ASSUME NEW u \in LoadsToQueue PROVE Fresh(PartOf(u))
  <2>1. /\ u \in Units /\ u[3] = "mem" /\ At(u).class = "load"
        /\ ~PartOf(u).queued /\ ~PartOf(u).issued /\ ~PartOf(u).completed
    BY DEF LoadsToQueue
  <2>2. u[1] \in Threads /\ u[2] \in DOMAIN rob[u[1]]
    BY <2>1, UnitFacts
  <2>3. InOrder(At(u)) /\ PartOf(u) = At(u).mem
    BY <2>1, <2>2, EntryFacts DEF At, PartOf
  <2> QED
    BY <2>1, <2>3 DEF InOrder, IsReady, Issuing, Runs, Over
<1> QED
  BY <1>1 DEF LoadsToQueue

LEMMA LsqRefreshMoves ==
  ASSUME Shapes, LsqRefresh
  PROVE  /\ InPlace
         /\ \A t \in Threads : \A i \in DOMAIN rob[t] :
              /\ rob'[t][i].slot = rob[t][i].slot
              /\ \A p \in {"op", "mem"} :
                   Enters(rob[t][i][p], rob'[t][i][p], <<t, i, p>> \in LoadsToQueue)
<1>1. /\ LoadsToQueue \in SUBSET Units
      /\ \A u \in LoadsToQueue : Fresh(PartOf(u)) \/ Waits(PartOf(u))
  BY LoadsToQueueFacts
<1>2. rob' = Changed(rob, [u \in LoadsToQueue |-> Enqueued(u)])
  BY DEF LsqRefresh
<1> QED
  BY <1>1, <1>2, EnterMoves

LEMMA WakeupMoves ==
  ASSUME Shapes, Wakeup
  PROVE  /\ InPlace
         /\ \A t \in Threads : \A i \in DOMAIN rob[t] :
              /\ rob'[t][i].slot = rob[t][i].slot
              /\ \A p \in {"op", "mem"} :
                   /\ Enters(rob[t][i][p], rob'[t][i][p], <<t, i, p>> \in Woken)
                   /\ <<t, i, p>> \in Woken <=>
                        Waits(rob[t][i][p]) /\ OperandsSpecReady(rob[t][i], p)
<1>1. /\ Woken \in SUBSET Units
      /\ \A u \in Woken : Fresh(PartOf(u)) \/ Waits(PartOf(u))
  BY UnitPart DEF Woken, On
<1>2. rob' = Changed(rob, [u \in Woken |-> Enqueued(u)])
  BY DEF Wakeup
<1>3. /\ InPlace
      /\ \A t \in Threads : \A i \in DOMAIN rob[t] :
              /\ rob'[t][i].slot = rob[t][i].slot
              /\ \A p \in {"op", "mem"} :
                   Enters(rob[t][i][p], rob'[t][i][p], <<t, i, p>> \in Woken)
  BY <1>1, <1>2, EnterMoves
<1>4. ASSUME NEW t \in Threads, NEW i \in DOMAIN rob[t], NEW p \in {"op", "mem"}
      PROVE  <<t, i, p>> \in Woken <=>
               Waits(rob[t][i][p]) /\ OperandsSpecReady(rob[t][i], p)
  <2>1. /\ At(<<t, i, p>>) = rob[t][i] /\ <<t, i, p>>[3] = p
        /\ <<t, i, p>> \in On("waiting") <=> Waits(rob[t][i][p])
    BY UnitFacts, OnFacts
  <2> QED
    BY <2>1 DEF Woken
<1> QED
  BY <1>3, <1>4

(* selection().                                                            *)
Chosen(I, lat, hit) ==
  /\ I \in SUBSET On("ready") /\ Selectable(I)
  /\ hit \in [{u \in I : IsLoadAccess(u)} -> BOOLEAN]
  /\ \A u \in I : lat[u] \in Latencies(u)
  /\ rob' = Changed(rob, [u \in I |-> Issued(u, lat[u])])
  /\ reg' = AfterIssue(I, lat, hit)

LEMMA SelectionChooses ==
  ASSUME Selection
  PROVE  \E I, lat, hit : Chosen(I, lat, hit)
BY DEF Selection, Chosen

(* A latency is that of a unit or of the caches, unless a store's.         *)
LEMMA LatencyFacts ==
  ASSUME NEW u \in Units, NEW l \in Latencies(u), ~IsStoreAccess(u)
  PROVE  l \in Nat /\ 1 <= l /\ l + Delay <= MaxTime
<1>1. l \in LoadLats \cup AluLats
  BY TimeFacts DEF Latencies, IsStoreAccess, IsLoadAccess, IsStore, StoreClasses
<1> QED
  BY <1>1, TimeFacts

Issues(e, p, q, q2, chosen, l) ==
  IF chosen
  THEN /\ IsReady(q)
       /\ IF IsStorePart(e, p) THEN Over(q2) /\ q2.when = q.when
          ELSE Issuing(q2) /\ q2.when = Delay /\ q2.exec_lat = l
  ELSE q2 = q

LEMMA SelectionMoves ==
  ASSUME Shapes, NEW I, NEW lat, NEW hit, Chosen(I, lat, hit)
  PROVE  /\ InPlace
         /\ \A t \in Threads : \A i \in DOMAIN rob[t] :
              /\ rob'[t][i].slot = rob[t][i].slot
              /\ \A p \in {"op", "mem"} :
                   /\ Issues(rob[t][i], p, rob[t][i][p], rob'[t][i][p],
                             <<t, i, p>> \in I, lat[<<t, i, p>>])
                   /\ <<t, i, p>> \in I /\ ~IsStorePart(rob[t][i], p) =>
                        /\ lat[<<t, i, p>>] \in Nat /\ 1 <= lat[<<t, i, p>>]
                        /\ lat[<<t, i, p>>] + Delay <= MaxTime
<1> DEFINE parts == [u \in I |-> Issued(u, lat[u])]
<1>1. /\ DOMAIN parts = I /\ rob' = Changed(rob, parts)
      /\ \A u \in I : parts[u] = Issued(u, lat[u])
  BY DEF Chosen
<1>2. ASSUME NEW u \in I
      PROVE  /\ u \in Units /\ IsReady(PartOf(u))
             /\ Issued(u, lat[u]) \in PartTypes
             /\ IF IsStoreAccess(u)
                THEN Over(Issued(u, lat[u])) /\ Issued(u, lat[u]).when = PartOf(u).when
                ELSE /\ Issuing(Issued(u, lat[u])) /\ Issued(u, lat[u]).when = Delay
                     /\ Issued(u, lat[u]).exec_lat = lat[u]
                     /\ lat[u] \in Nat /\ 1 <= lat[u] /\ lat[u] + Delay <= MaxTime
  <2>1. u \in Units /\ u \in On("ready") /\ lat[u] \in Latencies(u)
    BY DEF Chosen, On
  <2>2. PICK q \in PartTypes : q = PartOf(u) /\ IsReady(q)
    BY <2>1, UnitPart
  <2>3. CASE IsStoreAccess(u)
    <3>1. PICK f : f = [q EXCEPT !.queued = FALSE, !.issued = TRUE, !.completed = TRUE,
                                 !.lists = @ \ {"ready"}]
      OBVIOUS
    <3>2. f \in PartTypes /\ f.when = q.when
      BY <2>2, <3>1 DEF PartTypes
    <3>3. Over(f)
      BY <2>2, <3>1 DEF PartTypes, IsReady, Over
    <3>4. Issued(u, lat[u]) = f
      BY <2>2, <2>3, <3>1 DEF Issued
    <3> QED
      BY <2>1, <2>2, <2>3, <3>2, <3>3, <3>4
  <2>4. CASE ~IsStoreAccess(u)
    <3>1. PICK l \in Nat : l = lat[u] /\ 1 <= l /\ l + Delay <= MaxTime
      BY <2>1, <2>4, LatencyFacts
    <3>2. l \in 0 .. MaxTime
      BY <3>1, TimeFacts
    <3>3. PICK f : f = [q EXCEPT !.queued = FALSE, !.issued = TRUE, !.exec_lat = l,
                         !.lists = (@ \ {"ready"}) \cup {"issue_exec"}, !.when = Delay]
      OBVIOUS
    <3>4. f \in PartTypes /\ f.when = Delay /\ f.exec_lat = l
      BY <2>2, <3>2, <3>3, PastIsTime DEF PartTypes
    <3>5. Issuing(f)
      BY <2>2, <3>3 DEF PartTypes, IsReady, Issuing
    <3>6. Issued(u, lat[u]) = f
      BY <2>2, <2>4, <3>1, <3>3 DEF Issued
    <3> QED
      BY <2>1, <2>2, <2>4, <3>1, <3>4, <3>5, <3>6
  <2> QED
    BY <2>3, <2>4
<1> HIDE DEF parts
<1>3. /\ InPlace
      /\ \A t \in Threads : \A i \in DOMAIN rob[t] :
           /\ rob'[t][i].slot = rob[t][i].slot
           /\ \A p \in {"op", "mem"} :
                rob'[t][i][p] = NewPartOf(parts, <<t, i, p>>, rob[t][i][p])
  BY <1>1, <1>2, InPlaceFacts
<1>4. ASSUME NEW t \in Threads, NEW i \in DOMAIN rob[t], NEW p \in {"op", "mem"}
      PROVE  /\ Issues(rob[t][i], p, rob[t][i][p], rob'[t][i][p],
                       <<t, i, p>> \in I, lat[<<t, i, p>>])
             /\ <<t, i, p>> \in I /\ ~IsStorePart(rob[t][i], p) =>
                  /\ lat[<<t, i, p>>] \in Nat /\ 1 <= lat[<<t, i, p>>]
                  /\ lat[<<t, i, p>>] + Delay <= MaxTime
  <2>1. rob'[t][i][p] = NewPartOf(parts, <<t, i, p>>, rob[t][i][p])
    BY <1>3
  <2>2. PICK u : u = <<t, i, p>>
    OBVIOUS
  <2>3. PartOf(u) = rob[t][i][p] /\ (IsStoreAccess(u) <=> IsStorePart(rob[t][i], p))
    BY <2>2, UnitFacts DEF IsStoreAccess, IsStorePart
  <2> QED
    BY <1>1, <1>2, <2>1, <2>2, <2>3 DEF NewPartOf, Issues
<1> QED
  BY <1>3, <1>4

(* execute(): the culprit of a replay is the oldest of those that are too  *)
(* early, so nothing that is too early executes.                           *)
LEMMA CulpritFacts ==
  ASSUME Shapes, NEW t \in Threads, Replays(t)
  PROVE  /\ Culprit(t) \in TooEarly(t)
         /\ \A v \in TooEarly(t) : v = Culprit(t) \/ OlderThan(Culprit(t), v)
<1>1. ASSUME NEW v \in TooEarly(t)
      PROVE  v \in Units /\ v[1] = t /\ v[2] \in Nat /\ v[3] \in {"op", "mem"}
             /\ v = <<v[1], v[2], v[3]>>
  <2>1. v \in Units /\ v[1] = t
    BY DEF TooEarly, Due, On
  <2>2. v[2] \in DOMAIN rob[t] /\ v[3] \in {"op", "mem"} /\ v = <<v[1], v[2], v[3]>>
    BY <2>1, UnitFacts
  <2> QED
    BY <2>1, <2>2, EntryFacts
<1> DEFINE Places == {v[2] : v \in TooEarly(t)}
<1>2. Places \subseteq Nat /\ Places # {}
  BY <1>1 DEF Replays
<1>3. PICK i : i \in Places /\ \A j \in Places : i <= j
  <2> HIDE DEF Places
  <2> QED
    BY <1>2, MinFacts
<1>4. \A v \in TooEarly(t) : i <= v[2]
  BY <1>3
<1>5. PICK u \in TooEarly(t) : u[2] = i /\ (u[3] = "op" \/ \A v \in TooEarly(t) : v[2] = i => v[3] # "op")
  <2>1. PICK w \in TooEarly(t) : w[2] = i
    BY <1>3
  <2>2. CASE \E v \in TooEarly(t) : v[2] = i /\ v[3] = "op"
    BY <2>2
  <2>3. CASE ~ \E v \in TooEarly(t) : v[2] = i /\ v[3] = "op"
    BY <2>1, <2>3
  <2> QED
    BY <2>2, <2>3
<1>6. ASSUME NEW v \in TooEarly(t) PROVE v = u \/ OlderThan(u, v)
  <2>1. i <= v[2] /\ v[2] \in Nat /\ i \in Nat
    BY <1>1, <1>2, <1>3, <1>4
  <2>2. CASE v[2] = i
    BY <1>1, <1>5, <2>2 DEF OlderThan
  <2>3. CASE v[2] # i
    <3>1. u[2] < v[2]
      BY <1>5, <2>1, <2>3
    <3> QED
      BY <1>1, <3>1 DEF OlderThan
  <2> QED
    BY <2>2, <2>3
<1>7. \E w \in TooEarly(t) : \A v \in TooEarly(t) : v = w \/ OlderThan(w, v)
  BY <1>6
<1> QED
  BY <1>7 DEF Culprit

LEMMA OlderIsStrict ==
  ASSUME NEW u, NEW v, u[2] \in Nat, v[2] \in Nat, OlderThan(u, v)
  PROVE  u # v /\ ~OlderThan(v, u)
BY DEF OlderThan

(* What becomes of the units in execute().                                 *)
LEMMA ExecuteUnits ==
  ASSUME Shapes
  PROVE  /\ \A u \in Executed : /\ u \in Units /\ Issuing(PartOf(u)) /\ PartOf(u).when <= 0
                                /\ OperandsReady(At(u), u[3])
         /\ \A u \in Replayed : /\ u \in Units /\ Issuing(PartOf(u)) /\ Replays(u[1])
                                /\ u \notin Executed
         /\ \A u \in Flushed : u \in Units /\ IsReady(PartOf(u)) /\ Replays(u[1])
         /\ \A u \in Units : /\ Issuing(PartOf(u)) /\ Replays(u[1]) => u \in Executed \cup Replayed
                             /\ IsReady(PartOf(u)) /\ Replays(u[1]) => u \in Flushed
                             /\ Issuing(PartOf(u)) /\ PartOf(u).when <= 0 =>
                                  u \in Executed \cup Replayed
<1>1. ASSUME NEW u \in Executed
      PROVE  /\ u \in Units /\ Issuing(PartOf(u)) /\ PartOf(u).when <= 0
             /\ OperandsReady(At(u), u[3])
  <2>1. u \in Units /\ u \in On("issue_exec") /\ u \in Due /\ PartOf(u).when <= 0
    BY DEF Executed, Due, On
  <2>2. u[1] \in Threads
    BY <2>1, UnitFacts
  <2>3. ASSUME ~OperandsReady(At(u), u[3]) PROVE FALSE
    <3>1. u \in TooEarly(u[1])
      BY <2>1, <2>3 DEF TooEarly
    <3>2. Replays(u[1])
      BY <3>1 DEF Replays
    <3>3. PICK c : c = Culprit(u[1])
      OBVIOUS
    <3>4. c \in TooEarly(u[1]) /\ (u = c \/ OlderThan(c, u))
      BY <2>2, <3>1, <3>2, <3>3, CulpritFacts
    <3>5. OlderThan(u, c)
      BY <3>2, <3>3 DEF Executed
    <3>6. u[2] \in Nat /\ c[2] \in Nat
      <4>1. c \in Units
        BY <3>4 DEF TooEarly, Due, On
      <4>2. c[1] \in Threads /\ c[2] \in DOMAIN rob[c[1]] /\ u[2] \in DOMAIN rob[u[1]]
        BY <2>1, <4>1, UnitFacts
      <4> QED
        BY <2>2, <4>2, EntryFacts
    <3>7. u # c /\ ~OlderThan(c, u)
      BY <3>5, <3>6, OlderIsStrict
    <3> QED
      BY <3>4, <3>7
  <2> QED
    BY <2>1, <2>3, UnitPart
<1>2. ASSUME NEW u \in Replayed
      PROVE  u \in Units /\ Issuing(PartOf(u)) /\ Replays(u[1]) /\ u \notin Executed
  BY UnitPart DEF Replayed, On
<1>3. ASSUME NEW u \in Flushed PROVE u \in Units /\ IsReady(PartOf(u)) /\ Replays(u[1])
  BY UnitPart DEF Flushed, On
<1>4. ASSUME NEW u \in Units
      PROVE  /\ Issuing(PartOf(u)) /\ Replays(u[1]) => u \in Executed \cup Replayed
             /\ IsReady(PartOf(u)) /\ Replays(u[1]) => u \in Flushed
             /\ Issuing(PartOf(u)) /\ PartOf(u).when <= 0 => u \in Executed \cup Replayed
  <2>1. /\ u \in On("issue_exec") <=> Issuing(PartOf(u))
        /\ u \in On("ready") <=> IsReady(PartOf(u))
    BY UnitPart
  <2> QED
    BY <2>1 DEF Replayed, Flushed, Executed, Due
<1> QED
  BY <1>1, <1>2, <1>3, <1>4

LEMMA StartedFacts ==
  ASSUME Shapes, NEW u \in Units, Issuing(PartOf(u))
  PROVE  /\ Started(u) \in PartTypes /\ Runs(Started(u))
         /\ Started(u).when = PartOf(u).when + PartOf(u).exec_lat
         /\ Started(u).when \in 1 .. MaxTime
<1>1. PICK q \in PartTypes : q = PartOf(u) /\ Issuing(q) /\ InTime(q, stage)
  BY UnitPart
<1>2. q.when \in 0 .. Delay /\ q.exec_lat \in 1 .. MaxTime - Delay
  BY <1>1, TimeFacts DEF InTime, IssueFrom
<1>3. PICK w \in 1 .. MaxTime : w = q.when + q.exec_lat
  BY <1>2, TimeFacts
<1>4. PICK f : f = [q EXCEPT !.lists = (@ \ {"issue_exec"}) \cup {"event"},
                             !.when = w, !.exec_lat = 0]
  OBVIOUS
<1>5. w \in Times /\ 0 \in 0 .. MaxTime
  BY <1>3, TimeFacts DEF Times
<1>6. f \in PartTypes /\ f.when = w
  BY <1>1, <1>4, <1>5 DEF PartTypes
<1>7. Runs(f)
  BY <1>1, <1>4 DEF PartTypes, Issuing, Runs
<1>8. Started(u) = f
  BY <1>1, <1>3, <1>4 DEF Started, PartTypes
<1> QED
  BY <1>1, <1>3, <1>6, <1>7, <1>8

LEMMA RestartedFacts ==
  ASSUME Shapes, NEW u \in Units, IsReady(PartOf(u)) \/ Issuing(PartOf(u))
  PROVE  /\ Restarted(u) \in PartTypes /\ Restarted(u).when = Past
         /\ IF IsLoadAccess(u) THEN Fresh(Restarted(u)) ELSE Waits(Restarted(u))
<1>1. PICK q \in PartTypes : q = PartOf(u) /\ (IsReady(q) \/ Issuing(q))
  BY UnitPart
<1>2. PICK b : b = BackTo(u)
  OBVIOUS
<1>3. b = IF IsLoadAccess(u) THEN {} ELSE {"waiting"}
  BY <1>2 DEF BackTo
<1>4. PICK f : f = [q EXCEPT !.queued = FALSE, !.issued = FALSE,
                             !.lists = (@ \ {"ready", "issue_exec"}) \cup b,
                             !.when = Past, !.exec_lat = 0]
  OBVIOUS
<1>5. f \in PartTypes /\ f.when = Past
  <2>1. 0 \in 0 .. MaxTime
    BY TimeFacts
  <2> QED
    BY <1>1, <1>3, <1>4, <2>1, PastIsTime, ZenonT(60) DEF PartTypes
<1>6. f.lists = b /\ ~f.queued /\ ~f.issued /\ ~f.completed
  BY <1>1, <1>3, <1>4 DEF PartTypes, IsReady, Issuing
<1>7. Restarted(u) = f
  BY <1>1, <1>2, <1>4 DEF Restarted
<1> QED
  BY <1>3, <1>5, <1>6, <1>7 DEF Fresh, Waits

LEMMA SlotsLeftFacts ==
  ASSUME NEW robs \in [Threads -> Seq(EntryTypes)]
  PROVE  /\ SlotsLeft(robs) \in [Threads -> Seq(EntryTypes)]
         /\ \A t \in Threads :
              /\ DOMAIN SlotsLeft(robs)[t] = DOMAIN robs[t]
              /\ Len(SlotsLeft(robs)[t]) = Len(robs[t])
              /\ \A i \in DOMAIN robs[t] :
                   /\ Kept(robs[t][i], SlotsLeft(robs)[t][i])
                   /\ SlotsLeft(robs)[t][i].slot =
                        IF <<t, i, "op">> \in Executed THEN NoSlot ELSE robs[t][i].slot
                   /\ \A p \in {"op", "mem"} : SlotsLeft(robs)[t][i][p] = robs[t][i][p]
<1> DEFINE E(t, i) == [robs[t][i] EXCEPT !.slot =
                         IF <<t, i, "op">> \in Executed THEN NoSlot ELSE @]
<1>1. ASSUME NEW t \in Threads, NEW i \in DOMAIN robs[t]
      PROVE  /\ E(t, i) \in EntryTypes /\ Kept(robs[t][i], E(t, i))
             /\ E(t, i).slot = IF <<t, i, "op">> \in Executed THEN NoSlot ELSE robs[t][i].slot
             /\ \A p \in {"op", "mem"} : E(t, i)[p] = robs[t][i][p]
  <2>1. PICK e \in EntryTypes : e = robs[t][i]
    OBVIOUS
  <2>2. e.slot \in 0 .. IqSize /\ 0 \in 0 .. IqSize
    BY SchedulerAssumption DEF EntryTypes
  <2>3. PICK s \in 0 .. IqSize : s = IF <<t, i, "op">> \in Executed THEN NoSlot ELSE e.slot
    BY <2>2 DEF NoSlot
  <2>4. PICK f : f = [e EXCEPT !.slot = s]
    OBVIOUS
  <2>5. E(t, i) = f
    BY <2>1, <2>3, <2>4
  <2>6. /\ f \in EntryTypes /\ f.op = e.op /\ f.mem = e.mem /\ f.slot = s /\ Kept(e, f)
    BY <2>4 DEF EntryTypes, Kept
  <2>7. \A p \in {"op", "mem"} : f[p] = e[p]
    BY <2>6
  <2> QED
    BY <2>1, <2>3, <2>5, <2>6, <2>7
<1>2. PICK c : c = SlotsLeft(robs)
  OBVIOUS
<1>3. c = [t \in Threads |-> [i \in DOMAIN robs[t] |-> E(t, i)]]
  BY <1>2 DEF SlotsLeft
<1>4. ASSUME NEW t \in Threads
      PROVE  /\ c[t] = [i \in 1 .. Len(robs[t]) |-> E(t, i)]
             /\ DOMAIN robs[t] = 1 .. Len(robs[t])
             /\ c[t] \in Seq(EntryTypes) /\ Len(c[t]) = Len(robs[t])
             /\ DOMAIN c[t] = DOMAIN robs[t]
  <2>1. DOMAIN robs[t] = 1 .. Len(robs[t]) /\ Len(robs[t]) \in Nat
    OBVIOUS
  <2>2. c[t] = [i \in 1 .. Len(robs[t]) |-> E(t, i)]
    BY <1>3, <2>1
  <2>3. \A i \in 1 .. Len(robs[t]) : E(t, i) \in EntryTypes
    BY <1>1, <2>1
  <2> HIDE DEF E
  <2> QED
    BY <2>1, <2>2, <2>3
<1> HIDE DEF E
<1>5. c \in [Threads -> Seq(EntryTypes)]
  <2>1. DOMAIN c = Threads /\ c = [t \in Threads |-> c[t]]
    BY <1>3
  <2> QED
    BY <1>4, <2>1
<1>6. \A t \in Threads : \A i \in DOMAIN robs[t] : c[t][i] = E(t, i)
  BY <1>4
<1>7. ASSUME NEW t \in Threads
      PROVE  \A i \in DOMAIN robs[t] :
                   /\ Kept(robs[t][i], c[t][i])
                   /\ c[t][i].slot =
                        IF <<t, i, "op">> \in Executed THEN NoSlot ELSE robs[t][i].slot
                   /\ \A p \in {"op", "mem"} : c[t][i][p] = robs[t][i][p]
  BY <1>1, <1>6
<1> QED
  BY <1>2, <1>4, <1>5, <1>7

Executes(e, p, q, q2, starts, goesBack) ==
  IF starts THEN Issuing(q) /\ Runs(q2) /\ q2.when = q.when + q.exec_lat
                 /\ q2.when \in 1 .. MaxTime
  ELSE IF goesBack
  THEN /\ IsReady(q) \/ Issuing(q)
       /\ q2.when = Past
       /\ IF IsLoadPart(e, p) THEN Fresh(q2) ELSE Waits(q2)
  ELSE q2 = q

LEMMA ExecuteMoves ==
  ASSUME Shapes, Execute
  PROVE  /\ InPlace
         /\ \A t \in Threads : \A i \in DOMAIN rob[t] :
              /\ rob'[t][i].slot =
                   IF <<t, i, "op">> \in Executed THEN NoSlot ELSE rob[t][i].slot
              /\ \A p \in {"op", "mem"} :
                   Executes(rob[t][i], p, rob[t][i][p], rob'[t][i][p],
                            <<t, i, p>> \in Executed, <<t, i, p>> \in Replayed \cup Flushed)
<1>1. /\ DOMAIN AfterExecute = Executed \cup Replayed \cup Flushed
      /\ \A u \in DOMAIN AfterExecute :
           AfterExecute[u] = IF u \in Executed THEN Started(u) ELSE Restarted(u)
  BY DEF AfterExecute
<1>2. \A u \in Executed : /\ u \in Units /\ Issuing(PartOf(u)) /\ Started(u) \in PartTypes
                          /\ Runs(Started(u)) /\ Started(u).when \in 1 .. MaxTime
                          /\ Started(u).when = PartOf(u).when + PartOf(u).exec_lat
  BY ExecuteUnits, StartedFacts
<1>3. \A u \in Replayed \cup Flushed :
        /\ u \in Units /\ (IsReady(PartOf(u)) \/ Issuing(PartOf(u)))
        /\ Restarted(u) \in PartTypes /\ Restarted(u).when = Past
        /\ IF IsLoadAccess(u) THEN Fresh(Restarted(u)) ELSE Waits(Restarted(u))
  BY ExecuteUnits, RestartedFacts
<1>4. PICK parts : parts = AfterExecute
  OBVIOUS
<1>5. \A u \in DOMAIN parts : parts[u] \in PartTypes
  BY <1>1, <1>2, <1>3, <1>4
<1>6. rob \in [Threads -> Seq(EntryTypes)]
  BY DEF Shapes
<1>7. PICK mid : mid = Changed(rob, parts)
  OBVIOUS
<1>8. /\ mid \in [Threads -> Seq(EntryTypes)]
      /\ \A t \in Threads :
              /\ DOMAIN mid[t] = DOMAIN rob[t] /\ Len(mid[t]) = Len(rob[t])
              /\ \A i \in DOMAIN rob[t] :
                   /\ Kept(rob[t][i], mid[t][i]) /\ mid[t][i].slot = rob[t][i].slot
                   /\ \A p \in {"op", "mem"} : mid[t][i][p] =
                        NewPartOf(parts, <<t, i, p>>, rob[t][i][p])
  BY <1>5, <1>6, <1>7, ChangedFacts
<1>9. rob' = SlotsLeft(mid)
  BY <1>4, <1>7 DEF Execute
<1>10. PICK new : new = SlotsLeft(mid)
  OBVIOUS
<1>11. /\ new \in [Threads -> Seq(EntryTypes)]
       /\ \A t \in Threads :
              /\ DOMAIN new[t] = DOMAIN mid[t] /\ Len(new[t]) = Len(mid[t])
              /\ \A i \in DOMAIN mid[t] :
                   /\ Kept(mid[t][i], new[t][i])
                   /\ new[t][i].slot =
                        IF <<t, i, "op">> \in Executed THEN NoSlot ELSE mid[t][i].slot
                   /\ \A p \in {"op", "mem"} : new[t][i][p] = mid[t][i][p]
  BY <1>8, <1>10, SlotsLeftFacts
<1>12. rob' = new
  BY <1>9, <1>10
<1>13. \A t \in Threads : \A i \in DOMAIN rob[t] :
       /\ Kept(rob[t][i], new[t][i])
       /\ new[t][i].slot = IF <<t, i, "op">> \in Executed THEN NoSlot ELSE rob[t][i].slot
       /\ \A p \in {"op", "mem"} : new[t][i][p] = NewPartOf(parts, <<t, i, p>>, rob[t][i][p])
  <2> SUFFICES ASSUME NEW t \in Threads, NEW i \in DOMAIN rob[t]
               PROVE  /\ Kept(rob[t][i], new[t][i])
                      /\ new[t][i].slot =
                           IF <<t, i, "op">> \in Executed THEN NoSlot ELSE rob[t][i].slot
                      /\ \A p \in {"op", "mem"} :
                           new[t][i][p] = NewPartOf(parts, <<t, i, p>>, rob[t][i][p])
    OBVIOUS
  <2>1. /\ i \in DOMAIN mid[t] /\ Kept(rob[t][i], mid[t][i]) /\ mid[t][i].slot = rob[t][i].slot
        /\ \A p \in {"op", "mem"} : mid[t][i][p] = NewPartOf(parts, <<t, i, p>>, rob[t][i][p])
    BY <1>8
  <2>2. /\ Kept(mid[t][i], new[t][i])
        /\ new[t][i].slot = IF <<t, i, "op">> \in Executed THEN NoSlot ELSE mid[t][i].slot
        /\ \A p \in {"op", "mem"} : new[t][i][p] = mid[t][i][p]
    BY <1>11, <2>1
  <2>3. Kept(rob[t][i], new[t][i])
    BY <2>1, <2>2 DEF Kept
  <2> QED
    BY <2>1, <2>2, <2>3
<1>14. InPlace
  BY <1>8, <1>11, <1>12, <1>13 DEF InPlace
<1>15. ASSUME NEW t \in Threads, NEW i \in DOMAIN rob[t], NEW p \in {"op", "mem"}
       PROVE  Executes(rob[t][i], p, rob[t][i][p], rob'[t][i][p],
                       <<t, i, p>> \in Executed, <<t, i, p>> \in Replayed \cup Flushed)
  <2>1. PICK u : u = <<t, i, p>>
    OBVIOUS
  <2>2. rob'[t][i][p] = NewPartOf(parts, u, rob[t][i][p])
    BY <1>13, <1>12, <2>1
  <2>3. PartOf(u) = rob[t][i][p] /\ (IsLoadAccess(u) <=> IsLoadPart(rob[t][i], p))
    BY <2>1, UnitFacts DEF IsLoadAccess, IsLoadPart
  <2>4. CASE u \in Executed
    BY <1>1, <1>2, <1>4, <2>1, <2>2, <2>3, <2>4 DEF NewPartOf, Executes
  <2>5. CASE u \notin Executed /\ u \in Replayed \cup Flushed
    BY <1>1, <1>3, <1>4, <2>1, <2>2, <2>3, <2>5 DEF NewPartOf, Executes
  <2>6. CASE u \notin Executed /\ u \notin Replayed \cup Flushed
    BY <1>1, <1>4, <2>1, <2>2, <2>6 DEF NewPartOf, Executes
  <2> QED
    BY <2>4, <2>5, <2>6
<1>16. \A t \in Threads : \A i \in DOMAIN rob[t] :
         rob'[t][i].slot = IF <<t, i, "op">> \in Executed THEN NoSlot ELSE rob[t][i].slot
  BY <1>13, <1>12
<1> QED
  BY <1>14, <1>15, <1>16

(* The end of the cycle.                                                   *)
Ages(q, q2) == /\ SameState(q, q2) /\ q2.exec_lat = q.exec_lat
               /\ q2.when = Later(q.when) \/ (Fresh(q) /\ q2 = q)

LEMMA EndCycleMoves ==
  ASSUME Shapes, EndCycle
  PROVE  /\ InPlace
         /\ \A t \in Threads : \A i \in DOMAIN rob[t] :
              /\ rob'[t][i].slot = rob[t][i].slot
              /\ \A p \in {"op", "mem"} : Ages(rob[t][i][p], rob'[t][i][p])
<1> DEFINE Part(u) == [PartOf(u) EXCEPT !.when = Later(@)]
           parts == [u \in Units |-> Part(u)]
<1>1. ASSUME NEW u \in Units
      PROVE  /\ Part(u) \in PartTypes /\ SameState(PartOf(u), Part(u))
             /\ Part(u).exec_lat = PartOf(u).exec_lat
             /\ Part(u).when = Later(PartOf(u).when)
  <2>1. PICK q \in PartTypes : q = PartOf(u)
    BY UnitPart
  <2>2. PICK w \in Times : w = Later(q.when)
    BY LaterFacts DEF PartTypes
  <2>3. PICK f : f = [q EXCEPT !.when = w]
    OBVIOUS
  <2>4. f \in PartTypes /\ f.when = w /\ f.exec_lat = q.exec_lat /\ SameState(q, f)
    BY <2>3 DEF PartTypes, SameState
  <2>5. Part(u) = f
    BY <2>1, <2>2, <2>3 DEF PartTypes
  <2> QED
    BY <2>1, <2>2, <2>4, <2>5
<1>2. /\ DOMAIN parts = Units /\ rob' = Changed(rob, parts)
      /\ \A u \in Units : parts[u] = Part(u)
  BY DEF EndCycle
<1> HIDE DEF parts, Part
<1>3. /\ InPlace
      /\ \A t \in Threads : \A i \in DOMAIN rob[t] :
           /\ rob'[t][i].slot = rob[t][i].slot
           /\ \A p \in {"op", "mem"} :
                rob'[t][i][p] = NewPartOf(parts, <<t, i, p>>, rob[t][i][p])
  BY <1>1, <1>2, InPlaceFacts
<1>4. ASSUME NEW t \in Threads, NEW i \in DOMAIN rob[t], NEW p \in {"op", "mem"}
      PROVE  Ages(rob[t][i][p], rob'[t][i][p])
  <2>1. PICK u : u = <<t, i, p>>
    OBVIOUS
  <2>2. rob'[t][i][p] = NewPartOf(parts, u, rob[t][i][p])
    BY <1>3, <2>1
  <2>3. PartOf(u) = rob[t][i][p] /\ (u \in Units <=> p \in Parts(rob[t][i]))
    BY <2>1, UnitFacts
  <2>4. CASE u \in Units
    BY <1>1, <1>2, <2>2, <2>3, <2>4 DEF NewPartOf, Ages
  <2>5. CASE u \notin Units
    <3>1. Fresh(rob[t][i][p])
      BY <2>3, <2>5, EntryFacts, PartFacts
    <3> QED
      BY <1>2, <2>2, <2>5, <3>1 DEF NewPartOf, Ages, SameState
  <2> QED
    BY <2>4, <2>5
<1> QED
  BY <1>3, <1>4

(***************************************************************************)
(* Every step keeps the shapes.                                            *)
(***************************************************************************)
LEMMA PartInTime ==
  ASSUME Shapes, NEW t \in Threads, NEW i \in DOMAIN rob[t], NEW p \in {"op", "mem"}
  PROVE  /\ rob[t][i][p] \in PartTypes /\ AnyState(rob[t][i][p])
         /\ InTime(rob[t][i][p], stage) /\ rob[t][i][p].when \in Int
<1>1. /\ rob[t][i] \in EntryTypes /\ InOrder(rob[t][i])
      /\ InTime(rob[t][i].op, stage) /\ InTime(rob[t][i].mem, stage)
  BY EntryFacts
<1>2. InTime(rob[t][i][p], stage)
  BY <1>1
<1>3. rob[t][i][p].when \in Int
  BY <1>2, TimeFacts DEF InTime
<1> QED
  BY <1>1, <1>2, <1>3, PartFacts

LEMMA WritebackShapes ==
  ASSUME Shapes, Writeback, UNCHANGED recovery_model_v
  PROVE  Shapes'
<1>1. /\ stage = "writeback" /\ stage' = "lsq_refresh" /\ n' = 0 /\ reg' = reg /\ iq' = iq
  BY DEF Writeback, Goes
<1>2. ASSUME NEW t \in Threads, NEW i \in DOMAIN rob[t], NEW p \in {"op", "mem"}
      PROVE  /\ Lives(rob[t][i], p, rob[t][i][p], rob'[t][i][p])
             /\ InTime(rob'[t][i][p], stage')
  <2>1. PICK q, q2 : q = rob[t][i][p] /\ q2 = rob'[t][i][p]
    OBVIOUS
  <2>2. InTime(q, "writeback") /\ q.when \in Int /\ Finishes(q, q2)
    BY <1>1, <2>1, PartInTime, WritebackMoves
  <2>3. Lives(rob[t][i], p, q, q2)
    BY <2>2 DEF Finishes, Lives, SameState
  <2>4. InTime(q2, "lsq_refresh")
    <3>1. CASE Runs(q) /\ q.when <= 0
      BY <2>2, <3>1, TimeFacts DEF Finishes, InTime, Over, Runs, Issuing
    <3>2. CASE ~(Runs(q) /\ q.when <= 0)
      BY <2>2, <3>2, TimeFacts DEF Finishes, InTime, IssueFrom, RunFrom
    <3> QED
      BY <3>1, <3>2
  <2> QED
    BY <1>1, <2>1, <2>3, <2>4
<1>3. reg' \in [Regs -> [spec_ready : Times, ready : Times]] /\ iq' \in [1 .. IqSize -> BOOLEAN]
  BY <1>1 DEF Shapes
<1> QED
  BY <1>1, <1>2, <1>3, WritebackMoves, ShapesInPlace DEF Stages

LEMMA EnterLives ==
  ASSUME NEW e, NEW p, NEW q, NEW q2, NEW b \in BOOLEAN, NEW from, NEW to,
         Enters(q, q2, b), InTime(q, from),
         b => Waits(q) \/ (Fresh(q) /\ e.dispatched /\ IsLoadPart(e, p)),
         from \in {"lsq_refresh", "wakeup"}, to \in {"wakeup", "selection"}
  PROVE  Lives(e, p, q, q2) /\ InTime(q2, to)
<1>1. CASE b
  BY <1>1 DEF Enters, Lives, InTime, IsReady, Runs, Issuing
<1>2. CASE ~b
  BY <1>2 DEF Enters, Lives, SameState, InTime, IssueFrom, RunFrom
<1> QED
  BY <1>1, <1>2

LEMMA LsqRefreshShapes ==
  ASSUME Shapes, LsqRefresh, UNCHANGED recovery_model_v
  PROVE  Shapes'
<1>1. /\ stage = "lsq_refresh" /\ stage' = "wakeup" /\ n' = 0 /\ reg' = reg /\ iq' = iq
  BY DEF LsqRefresh, Goes
<1>2. ASSUME NEW t \in Threads, NEW i \in DOMAIN rob[t], NEW p \in {"op", "mem"}
      PROVE  /\ Lives(rob[t][i], p, rob[t][i][p], rob'[t][i][p])
             /\ InTime(rob'[t][i][p], stage')
  <2>1. PICK b \in BOOLEAN : b <=> <<t, i, p>> \in LoadsToQueue
    OBVIOUS
  <2>2. Enters(rob[t][i][p], rob'[t][i][p], <<t, i, p>> \in LoadsToQueue)
    BY LsqRefreshMoves
  <2>3. Enters(rob[t][i][p], rob'[t][i][p], b)
    BY <2>1, <2>2 DEF Enters
  <2>4. InTime(rob[t][i][p], "lsq_refresh")
    BY <1>1, PartInTime
  <2>5. b => Fresh(rob[t][i][p]) /\ rob[t][i].dispatched /\ IsLoadPart(rob[t][i], p)
    <3>1. /\ At(<<t, i, p>>) = rob[t][i] /\ PartOf(<<t, i, p>>) = rob[t][i][p]
          /\ <<t, i, p>>[3] = p
      BY UnitFacts
    <3> QED
      BY <2>1, <3>1, LoadsToQueueFacts DEF IsLoadPart
  <2> QED
    BY <1>1, <2>3, <2>4, <2>5, EnterLives
<1>3. reg' \in [Regs -> [spec_ready : Times, ready : Times]] /\ iq' \in [1 .. IqSize -> BOOLEAN]
  BY <1>1 DEF Shapes
<1> QED
  BY <1>1, <1>2, <1>3, LsqRefreshMoves, ShapesInPlace DEF Stages

LEMMA WakeupShapes ==
  ASSUME Shapes, Wakeup, UNCHANGED recovery_model_v
  PROVE  Shapes'
<1>1. /\ stage = "wakeup" /\ stage' = "selection" /\ n' = 0 /\ reg' = reg /\ iq' = iq
  BY DEF Wakeup, Goes
<1>2. ASSUME NEW t \in Threads, NEW i \in DOMAIN rob[t], NEW p \in {"op", "mem"}
      PROVE  /\ Lives(rob[t][i], p, rob[t][i][p], rob'[t][i][p])
             /\ InTime(rob'[t][i][p], stage')
  <2>1. PICK b \in BOOLEAN : b <=> <<t, i, p>> \in Woken
    OBVIOUS
  <2>2. /\ Enters(rob[t][i][p], rob'[t][i][p], <<t, i, p>> \in Woken)
        /\ <<t, i, p>> \in Woken <=> Waits(rob[t][i][p]) /\ OperandsSpecReady(rob[t][i], p)
    BY WakeupMoves
  <2>3. Enters(rob[t][i][p], rob'[t][i][p], b)
    BY <2>1, <2>2 DEF Enters
  <2>4. InTime(rob[t][i][p], "wakeup")
    BY <1>1, PartInTime
  <2> QED
    BY <1>1, <2>1, <2>2, <2>3, <2>4, EnterLives
<1>3. reg' \in [Regs -> [spec_ready : Times, ready : Times]] /\ iq' \in [1 .. IqSize -> BOOLEAN]
  BY <1>1 DEF Shapes
<1> QED
  BY <1>1, <1>2, <1>3, WakeupMoves, ShapesInPlace DEF Stages

(* The announcements of selection(): a register is that of one of the      *)
(* instructions that are issued, or as it was.                             *)
Announces(u, r) == Produces(At(u), u[3]) /\ At(u).dest = r

AnnouncedAs(v, u, lat, hit) ==
  /\ lat[u] \in Latencies(u)
  /\ v = [spec_ready |-> SpecReady(u, lat[u], IsLoadAccess(u) /\ hit[u]),
          ready |-> ReadyTime(lat[u])]

LEMMA AfterIssueFacts ==
  ASSUME Shapes, NEW I, NEW lat, NEW hit, Chosen(I, lat, hit), NEW r \in Regs
  PROVE  /\ (\A u \in I : ~Announces(u, r)) => reg'[r] = reg[r]
         /\ (\E u \in I : Announces(u, r)) =>
              \E u \in I : Announces(u, r) /\ AnnouncedAs(reg'[r], u, lat, hit)
<1>1. IssuesTo(I, r) = {u \in I : Announces(u, r)}
  BY DEF IssuesTo, Announces
<1>2. CASE IssuesTo(I, r) = {}
  BY <1>1, <1>2 DEF Chosen, AfterIssue
<1>3. CASE IssuesTo(I, r) # {}
  <2>1. PICK u : u = CHOOSE v \in IssuesTo(I, r) : TRUE
    OBVIOUS
  <2>2. u \in IssuesTo(I, r)
    BY <1>3, <2>1
  <2>3. reg'[r] = [spec_ready |-> SpecReady(u, lat[u], IsLoadAccess(u) /\ hit[u]),
                   ready |-> ReadyTime(lat[u])]
    BY <1>3, <2>1 DEF Chosen, AfterIssue
  <2>4. u \in I /\ Announces(u, r) /\ lat[u] \in Latencies(u)
    BY <1>1, <2>2 DEF Chosen
  <2>5. AnnouncedAs(reg'[r], u, lat, hit)
    BY <2>3, <2>4 DEF AnnouncedAs
  <2> QED
    BY <2>4, <2>5
<1> QED
  BY <1>2, <1>3

LEMMA SpecReadyFacts ==
  ASSUME NEW u, NEW l \in Nat, l + Delay <= MaxTime, NEW hit
  PROVE  /\ SpecReady(u, l, hit) \in Times /\ ReadyTime(l) \in Times /\ ReadyTime(l) = l + Delay
         /\ ~IsLoadAccess(u) \/ ~Squash => SpecReady(u, l, hit) = l
<1>1. l \in Times /\ l + Delay \in Times
  BY TimeFacts DEF Times
<1>2. HitLat \in Times
  BY TimeFacts DEF Times
<1> QED
  BY <1>1, <1>2 DEF SpecReady, ReadyTime

(* The lowest latency of a store conditional is 0.                         *)
LEMMA LatencyIsTime ==
  ASSUME NEW u \in Units, NEW l \in Latencies(u)
  PROVE  l \in Nat /\ l + Delay <= MaxTime
<1>1. l \in LoadLats \cup AluLats \cup {0}
  BY TimeFacts DEF Latencies
<1>2. CASE l = 0
  BY <1>2, TimeFacts
<1> QED
  BY <1>1, <1>2, TimeFacts

LEMMA SelectionShapes ==
  ASSUME Shapes, Selection, UNCHANGED recovery_model_v
  PROVE  Shapes'
<1>1. /\ stage = "selection" /\ stage' = "execute" /\ n' = 0 /\ iq' = iq
  BY DEF Selection, Goes
<1>2. PICK I, lat, hit : Chosen(I, lat, hit)
  BY SelectionChooses
<1>3. /\ InPlace
      /\ \A t \in Threads : \A i \in DOMAIN rob[t] :
              /\ rob'[t][i].slot = rob[t][i].slot
              /\ \A p \in {"op", "mem"} :
                   /\ Issues(rob[t][i], p, rob[t][i][p], rob'[t][i][p],
                             <<t, i, p>> \in I, lat[<<t, i, p>>])
                   /\ <<t, i, p>> \in I /\ ~IsStorePart(rob[t][i], p) =>
                        /\ lat[<<t, i, p>>] \in Nat /\ 1 <= lat[<<t, i, p>>]
                        /\ lat[<<t, i, p>>] + Delay <= MaxTime
  BY <1>2, SelectionMoves
<1>4. ASSUME NEW t \in Threads, NEW i \in DOMAIN rob[t], NEW p \in {"op", "mem"}
      PROVE  /\ Lives(rob[t][i], p, rob[t][i][p], rob'[t][i][p])
             /\ InTime(rob'[t][i][p], stage')
  <2>1. PICK q, q2, l : q = rob[t][i][p] /\ q2 = rob'[t][i][p] /\ l = lat[<<t, i, p>>]
    OBVIOUS
  <2>2. PICK b \in BOOLEAN : b <=> <<t, i, p>> \in I
    OBVIOUS
  <2>3. InTime(q, "selection") /\ q.when \in Int
    BY <1>1, <2>1, PartInTime
  <2>4. /\ Issues(rob[t][i], p, q, q2, b, l)
        /\ b /\ ~IsStorePart(rob[t][i], p) => l \in Nat /\ 1 <= l /\ l + Delay <= MaxTime
    BY <1>3, <2>1, <2>2 DEF Issues
  <2>5. Lives(rob[t][i], p, q, q2)
    BY <2>4 DEF Issues, Lives, SameState
  <2>6. CASE ~b
    BY <1>1, <2>1, <2>3, <2>4, <2>5, <2>6 DEF Issues, InTime, IssueFrom, RunFrom
  <2>7. CASE b /\ IsStorePart(rob[t][i], p)
    BY <2>1, <2>3, <2>4, <2>5, <2>7 DEF Issues, InTime, Over, Runs, Issuing
  <2>8. CASE b /\ ~IsStorePart(rob[t][i], p)
    <3>1. Delay \in Past .. MaxTime /\ Delay \in 0 .. Delay /\ l \in 1 .. MaxTime - Delay
      BY <2>4, <2>8, TimeFacts
    <3> QED
      BY <1>1, <2>1, <2>4, <2>5, <2>8, <3>1 DEF Issues, InTime, IssueFrom, Runs, Issuing
  <2> QED
    BY <2>6, <2>7, <2>8
<1>5. reg' \in [Regs -> [spec_ready : Times, ready : Times]]
  <2>1. reg \in [Regs -> [spec_ready : Times, ready : Times]]
    BY DEF Shapes
  <2>2. ASSUME NEW r \in Regs PROVE reg'[r] \in [spec_ready : Times, ready : Times]
    <3>1. CASE reg'[r] = reg[r]
      BY <2>1, <3>1
    <3>2. CASE reg'[r] # reg[r]
      <4>1. PICK u \in I : AnnouncedAs(reg'[r], u, lat, hit)
        BY <1>2, <3>2, AfterIssueFacts
      <4>2. u \in Units
        BY <1>2 DEF Chosen, On
      <4>3. PICK l \in Nat : l = lat[u] /\ l + Delay <= MaxTime
        BY <4>1, <4>2, LatencyIsTime DEF AnnouncedAs
      <4>4. SpecReady(u, l, IsLoadAccess(u) /\ hit[u]) \in Times /\ ReadyTime(l) \in Times
        BY <4>3, SpecReadyFacts
      <4> QED
        BY <4>1, <4>3, <4>4 DEF AnnouncedAs
    <3> QED
      BY <3>1, <3>2
  <2>3. reg' = [r \in Regs |-> reg'[r]]
    BY <1>2 DEF Chosen, AfterIssue
  <2> QED
    BY <2>2, <2>3
<1>6. iq' \in [1 .. IqSize -> BOOLEAN]
  BY <1>1 DEF Shapes
<1> QED
  BY <1>1, <1>3, <1>4, <1>5, <1>6, ShapesInPlace DEF Stages

LEMMA ExecuteRegs ==
  ASSUME Shapes, Execute, NEW r \in Regs
  PROVE  /\ reg'[r] \in [spec_ready : Times, ready : Times]
         /\ Withdrawn(r) => Unknown(reg'[r])
         /\ ~Withdrawn(r) => reg'[r].ready = reg[r].ready
         /\ ~Withdrawn(r) /\ Adjusted(r) => reg'[r].spec_ready = TrueTime(reg[r].ready)
         /\ ~Withdrawn(r) /\ ~Adjusted(r) => reg'[r] = reg[r]
<1>1. PICK v \in [spec_ready : Times, ready : Times] : v = reg[r]
  BY DEF Shapes
<1>2. reg'[r] = IF Withdrawn(r) THEN [spec_ready |-> Never, ready |-> Never]
                ELSE IF Adjusted(r) THEN [v EXCEPT !.spec_ready = TrueTime(v.ready)]
                ELSE v
  BY <1>1 DEF Execute
<1>3. v.ready \in Times
  OBVIOUS
<1>4. PICK w \in Times : w = TrueTime(v.ready)
  BY <1>3, TrueTimeFacts
<1>5. Never \in Times
  BY PastIsTime
<1>6. CASE Withdrawn(r)
  BY <1>2, <1>5, <1>6 DEF Unknown
<1>7. CASE ~Withdrawn(r) /\ Adjusted(r)
  <2>1. reg'[r] = [v EXCEPT !.spec_ready = w]
    BY <1>2, <1>4, <1>7
  <2> QED
    BY <1>1, <1>4, <1>7, <2>1
<1>8. CASE ~Withdrawn(r) /\ ~Adjusted(r)
  BY <1>1, <1>2, <1>8
<1> QED
  BY <1>6, <1>7, <1>8

LEMMA ExecuteShapes ==
  ASSUME Shapes, Execute, UNCHANGED recovery_model_v
  PROVE  Shapes'
<1>1. stage = "execute" /\ stage' = "dispatch" /\ n' = 0
  BY DEF Execute, Goes
<1>2. ASSUME NEW t \in Threads, NEW i \in DOMAIN rob[t], NEW p \in {"op", "mem"}
      PROVE  /\ Lives(rob[t][i], p, rob[t][i][p], rob'[t][i][p])
             /\ InTime(rob'[t][i][p], stage')
  <2>1. PICK q, q2, u : q = rob[t][i][p] /\ q2 = rob'[t][i][p] /\ u = <<t, i, p>>
    OBVIOUS
  <2>2. PICK b \in BOOLEAN : b <=> u \in Executed
    OBVIOUS
  <2>3. PICK g \in BOOLEAN : g <=> u \in Replayed \cup Flushed
    OBVIOUS
  <2>4. Executes(rob[t][i], p, q, q2, u \in Executed, u \in Replayed \cup Flushed)
    BY <2>1, ExecuteMoves
  <2>5. Executes(rob[t][i], p, q, q2, b, g)
    BY <2>2, <2>3, <2>4 DEF Executes
  <2>6. InTime(q, "execute") /\ q.when \in Int
    BY <1>1, <2>1, PartInTime
  <2>7. ~IsLoadPart(rob[t][i], p) \/ ~IsStorePart(rob[t][i], p)
    BY DEF IsLoadPart, IsStorePart, IsStore, StoreClasses
  <2>8. Lives(rob[t][i], p, q, q2)
    BY <2>5 DEF Executes, Lives, SameState
  <2>9. InTime(q2, "dispatch")
    <3>1. CASE b
      <4>1. Runs(q2) /\ q2.when \in 1 .. MaxTime /\ ~Issuing(q2)
        BY <2>5, <3>1 DEF Executes, Runs, Issuing
      <4> QED
        BY <4>1, TimeFacts DEF InTime, RunFrom
    <3>2. CASE ~b /\ g
      <4>1. q2.when = Past /\ ~Runs(q2) /\ ~Issuing(q2)
        BY <2>5, <3>2 DEF Executes, Runs, Issuing, Fresh, Waits
      <4> QED
        BY <4>1, TimeFacts DEF InTime
    <3>3. CASE ~b /\ ~g
      <4>1. q2 = q
        BY <2>5, <3>3 DEF Executes
      <4>2. Issuing(q) => 1 <= q.when
        <5>1. u \in Units => u \notin Executed \cup Replayed /\ PartOf(u) = q
          BY <2>1, <2>2, <2>3, <3>3, UnitFacts, ZenonT(60)
        <5>2. Issuing(q) => u \in Units
          BY <2>1, OnFacts DEF On
        <5> QED
          BY <2>6, <5>1, <5>2, ExecuteUnits
      <4> QED
        BY <2>6, <4>1, <4>2 DEF InTime, IssueFrom, RunFrom
    <3> QED
      BY <3>1, <3>2, <3>3
  <2> QED
    BY <1>1, <2>1, <2>8, <2>9
<1>3. reg' \in [Regs -> [spec_ready : Times, ready : Times]]
  <2>1. reg' = [r \in Regs |-> reg'[r]]
    BY DEF Execute
  <2>2. \A r \in Regs : reg'[r] \in [spec_ready : Times, ready : Times]
    BY ExecuteRegs
  <2> QED
    BY <2>1, <2>2
<1>4. iq' \in [1 .. IqSize -> BOOLEAN]
  BY DEF Execute
<1>5. /\ InPlace
      /\ \A t \in Threads : \A i \in DOMAIN rob[t] :
           rob'[t][i].slot = rob[t][i].slot \/ rob'[t][i].slot = NoSlot
  BY ExecuteMoves
<1> QED
  BY <1>1, <1>2, <1>3, <1>4, <1>5, ShapesInPlace DEF Stages

LEMMA EndCycleShapes ==
  ASSUME Shapes, EndCycle, UNCHANGED recovery_model_v
  PROVE  Shapes'
<1>1. stage = "register_rename" /\ stage' = "commit" /\ n' = 0 /\ iq' = iq
  BY DEF EndCycle, Goes
<1>2. ASSUME NEW t \in Threads, NEW i \in DOMAIN rob[t], NEW p \in {"op", "mem"}
      PROVE  /\ Lives(rob[t][i], p, rob[t][i][p], rob'[t][i][p])
             /\ InTime(rob'[t][i][p], stage')
  <2>1. PICK q, q2 : q = rob[t][i][p] /\ q2 = rob'[t][i][p]
    OBVIOUS
  <2>2. /\ InTime(q, "register_rename") /\ q.when \in Int /\ Ages(q, q2)
    BY <1>1, <2>1, PartInTime, EndCycleMoves
  <2>3. q.when \in Past .. MaxTime /\ q.when \in Times /\ q.when # Never
    BY <2>2, TimeFacts DEF InTime, Times
  <2>4. /\ Later(q.when) \in Past .. MaxTime
        /\ Later(q.when) = IF q.when = Past THEN Past ELSE q.when - 1
    BY <2>3, LaterFacts
  <2>5. Lives(rob[t][i], p, q, q2)
    BY <2>2 DEF Ages, Lives
  <2>6. InTime(q2, "commit")
    <3>1. CASE Fresh(q) /\ q2 = q
      BY <2>2, <3>1 DEF InTime, Fresh, Runs, Issuing
    <3>2. CASE q2.when = Later(q.when)
      <4>1. q2.when \in Past .. MaxTime
        BY <2>4, <3>2
      <4>2. Runs(q2) => q2.when \in 0 .. MaxTime
        <5>1. Runs(q2) => q.when \in 1 .. MaxTime
          BY <2>2 DEF Ages, SameState, Runs, InTime, RunFrom
        <5> QED
          BY <2>4, <3>2, <5>1, TimeFacts
      <4>3. Issuing(q2) => q2.when \in 0 .. Delay /\ q2.exec_lat \in 1 .. MaxTime - Delay
        <5>1. Issuing(q2) => q.when \in 1 .. Delay /\ q2.exec_lat \in 1 .. MaxTime - Delay
          BY <2>2 DEF Ages, SameState, Issuing, InTime, IssueFrom
        <5> QED
          BY <2>4, <3>2, <5>1, TimeFacts
      <4> QED
        BY <4>1, <4>2, <4>3 DEF InTime, IssueFrom, RunFrom
    <3> QED
      BY <2>2, <3>1, <3>2 DEF Ages
  <2> QED
    BY <1>1, <2>1, <2>5, <2>6
<1>3. reg' \in [Regs -> [spec_ready : Times, ready : Times]]
  <2>1. \A r \in Regs : reg[r].spec_ready \in Times /\ reg[r].ready \in Times
    BY DEF Shapes
  <2>2. \A r \in Regs : Later(reg[r].spec_ready) \in Times /\ Later(reg[r].ready) \in Times
    BY <2>1, LaterFacts
  <2> QED
    BY <2>2 DEF EndCycle
<1>4. iq' \in [1 .. IqSize -> BOOLEAN]
  BY <1>1 DEF Shapes
<1>5. /\ InPlace
      /\ \A t \in Threads : \A i \in DOMAIN rob[t] : rob'[t][i].slot = rob[t][i].slot
  BY EndCycleMoves
<1> QED
  BY <1>1, <1>2, <1>3, <1>4, <1>5, ShapesInPlace DEF Stages

(* commit() takes the oldest: the others move up.                          *)
LEMMA CommitMoves ==
  ASSUME Shapes, NEW t \in Threads, Commit(t)
  PROVE  /\ rob' \in [Threads -> Seq(EntryTypes)]
         /\ 1 \in DOMAIN rob[t] /\ Done(rob[t][1])
         /\ DOMAIN rob'[t] = 1 .. Len(rob[t]) - 1 /\ Len(rob'[t]) = Len(rob[t]) - 1
         /\ \A i \in DOMAIN rob'[t] : i + 1 \in DOMAIN rob[t] /\ rob'[t][i] = rob[t][i + 1]
         /\ \A u \in Threads \ {t} : rob'[u] = rob[u]
<1>1. rob \in [Threads -> Seq(EntryTypes)] /\ rob[t] \in Seq(EntryTypes) /\ rob[t] # <<>>
  BY DEF Shapes, Commit
<1>2. PICK r \in Seq(EntryTypes) : r = Tail(rob[t])
  BY <1>1, HeadTailProperties
<1>3. /\ Len(r) = Len(rob[t]) - 1 /\ DOMAIN r = 1 .. Len(rob[t]) - 1
      /\ \A i \in DOMAIN r : r[i] = rob[t][i + 1]
      /\ DOMAIN rob[t] = 1 .. Len(rob[t]) /\ Len(rob[t]) \in Nat /\ Len(rob[t]) >= 1
      /\ Head(rob[t]) = rob[t][1]
  BY <1>1, <1>2
<1>4. rob' = [rob EXCEPT ![t] = r]
  BY <1>2 DEF Commit
<1>5. rob'[t] = r /\ (\A u \in Threads \ {t} : rob'[u] = rob[u])
      /\ rob' \in [Threads -> Seq(EntryTypes)]
  BY <1>1, <1>4
<1>6. 1 \in DOMAIN rob[t] /\ \A i \in DOMAIN r : i + 1 \in DOMAIN rob[t]
  BY <1>3
<1>7. Done(rob[t][1])
  BY <1>3 DEF Commit
<1> QED
  BY <1>3, <1>5, <1>6, <1>7

LEMMA CommitShapes ==
  ASSUME Shapes, NEW t \in Threads, Commit(t), UNCHANGED recovery_model_v
  PROVE  Shapes'
<1>1. /\ rob' \in [Threads -> Seq(EntryTypes)]
      /\ DOMAIN rob'[t] = 1 .. Len(rob[t]) - 1 /\ Len(rob'[t]) = Len(rob[t]) - 1
      /\ \A i \in DOMAIN rob'[t] : i + 1 \in DOMAIN rob[t] /\ rob'[t][i] = rob[t][i + 1]
      /\ \A u \in Threads \ {t} : rob'[u] = rob[u]
  BY CommitMoves
<1>2. UNCHANGED <<reg, iq, stage, n>>
  BY DEF Commit
<1>3. rob[t] \in Seq(EntryTypes) /\ Len(rob[t]) \in Nat /\ DOMAIN rob[t] = 1 .. Len(rob[t])
  BY DEF Shapes
<1>4. ASSUME NEW i \in DOMAIN rob'[t]
      PROVE  /\ InOrder(rob'[t][i])
             /\ InTime(rob'[t][i].op, stage) /\ InTime(rob'[t][i].mem, stage)
             /\ \A j \in 1 .. i - 1 : rob'[t][i].dispatched => rob'[t][j].dispatched
  <2>1. i + 1 \in DOMAIN rob[t] /\ rob'[t][i] = rob[t][i + 1]
    BY <1>1
  <2>2. ASSUME NEW j \in 1 .. i - 1, rob'[t][i].dispatched PROVE rob'[t][j].dispatched
    <3>1. j \in DOMAIN rob'[t] /\ j + 1 \in 1 .. (i + 1) - 1
      BY <1>1, <1>3
    <3>2. rob[t][i + 1].dispatched => rob[t][j + 1].dispatched
      BY <2>1, <3>1 DEF Shapes
    <3>3. rob'[t][j] = rob[t][j + 1]
      BY <1>1, <3>1
    <3> QED
      BY <2>1, <2>2, <3>2, <3>3
  <2> QED
    BY <2>1, <2>2 DEF Shapes
<1>5. Len(rob'[t]) <= RobSize
  <2>1. Len(rob[t]) <= RobSize /\ RobSize \in Nat
    BY SchedulerAssumption DEF Shapes
  <2> QED
    BY <1>1, <1>3, <2>1
<1>6. \A u \in Threads : u = t \/ u \in Threads \ {t}
  OBVIOUS
<1> QED
  BY <1>1, <1>2, <1>4, <1>5, <1>6 DEF Shapes

(* dispatch(): the oldest instruction that is not dispatched gets a place  *)
(* in the issue queue, and its parts go to a list.                         *)
PlacedAs(e, p, q2) == IF OperandsSpecReady(e, p) THEN IsReady(q2) ELSE Waits(q2)

DispatchesAs(t, i, s, f) ==
  /\ i \in DOMAIN rob[t] /\ ~rob[t][i].dispatched
  /\ \A j \in 1 .. i - 1 : rob[t][j].dispatched
  /\ s \in 1 .. IqSize /\ ~iq[s]
  /\ f \in EntryTypes
  /\ f.class = rob[t][i].class /\ f.dest = rob[t][i].dest /\ f.src = rob[t][i].src
  /\ f.addr = rob[t][i].addr /\ f.dispatched /\ f.slot = s
  /\ PlacedAs(rob[t][i], "op", f.op)
  /\ IF IsStore(rob[t][i]) THEN PlacedAs(rob[t][i], "mem", f.mem)
     ELSE f.mem = rob[t][i].mem
  /\ f.op.when = rob[t][i].op.when /\ f.mem.when = rob[t][i].mem.when
  /\ rob' = [rob EXCEPT ![t][i] = f]
  /\ iq' = [iq EXCEPT ![s] = TRUE]

LEMMA PlacedFacts ==
  ASSUME NEW e \in EntryTypes, NEW p \in {"op", "mem"}, Fresh(e[p])
  PROVE  Placed(e, p) \in PartTypes /\ PlacedAs(e, p, Placed(e, p)) /\ Placed(e, p).when = e[p].when
<1>1. PICK q \in PartTypes : q = e[p]
  BY DEF EntryTypes
<1>2. CASE OperandsSpecReady(e, p)
  <2>1. PICK f : f = [q EXCEPT !.lists = {"ready"}, !.queued = TRUE]
    OBVIOUS
  <2>2. f \in PartTypes /\ IsReady(f) /\ f.when = q.when
    BY <1>1, <2>1 DEF PartTypes, Fresh, IsReady
  <2>3. Placed(e, p) = f
    BY <1>1, <1>2, <2>1 DEF Placed
  <2> QED
    BY <1>1, <1>2, <2>2, <2>3 DEF PlacedAs
<1>3. CASE ~OperandsSpecReady(e, p)
  <2>1. PICK f : f = [q EXCEPT !.lists = {"waiting"}]
    OBVIOUS
  <2>2. f \in PartTypes /\ Waits(f) /\ f.when = q.when
    BY <1>1, <2>1 DEF PartTypes, Fresh, Waits
  <2>3. Placed(e, p) = f
    BY <1>1, <1>3, <2>1 DEF Placed
  <2> QED
    BY <1>1, <1>3, <2>2, <2>3 DEF PlacedAs
<1> QED
  BY <1>2, <1>3

LEMMA DispatchMoves ==
  ASSUME Shapes, NEW t \in Threads, Dispatch(t)
  PROVE  \E i, s, f : DispatchesAs(t, i, s, f)
<1>1. PICK i : i = Min(Undispatched(t))
  OBVIOUS
<1>2. PICK s : s = Min(FreeSlots)
  OBVIOUS
<1>3. DOMAIN rob[t] = 1 .. Len(rob[t]) /\ Len(rob[t]) \in Nat
  BY DEF Shapes
<1>4. Undispatched(t) \subseteq Nat /\ Undispatched(t) # {}
  BY <1>3 DEF Undispatched, Dispatch, CanDispatch
<1>5. i \in Undispatched(t) /\ \A j \in Undispatched(t) : i <= j
  BY <1>1, <1>4, MinFacts
<1>6. FreeSlots \subseteq Nat /\ FreeSlots # {}
  BY SchedulerAssumption DEF FreeSlots, Dispatch, CanDispatch
<1>7. s \in FreeSlots
  BY <1>2, <1>6, MinFacts
<1>8. i \in DOMAIN rob[t] /\ ~rob[t][i].dispatched /\ s \in 1 .. IqSize /\ ~iq[s]
  BY <1>5, <1>7 DEF Undispatched, FreeSlots
<1>9. ASSUME NEW j \in 1 .. i - 1 PROVE rob[t][j].dispatched
  <2>1. j \in DOMAIN rob[t] /\ ~(i <= j)
    BY <1>3, <1>8
  <2> QED
    BY <1>5, <2>1 DEF Undispatched
<1>10. PICK e \in EntryTypes : e = rob[t][i]
  BY <1>8, EntryFacts
<1>11. InOrder(e) /\ ~e.dispatched /\ Fresh(e.op) /\ Fresh(e.mem)
  BY <1>8, <1>10, EntryFacts DEF InOrder
<1>12. PICK o \in PartTypes : o = Placed(e, "op") /\ PlacedAs(e, "op", o) /\ o.when = e.op.when
  BY <1>11, PlacedFacts
<1>13. PICK m \in PartTypes : /\ m = IF IsStore(e) THEN Placed(e, "mem") ELSE e.mem
                              /\ IsStore(e) => PlacedAs(e, "mem", m)
                              /\ m.when = e.mem.when
  BY <1>11, PlacedFacts DEF EntryTypes
<1>14. PICK f : f = [e EXCEPT !.dispatched = TRUE, !.slot = s, !.op = o, !.mem = m]
  OBVIOUS
<1>15. s \in 0 .. IqSize
  BY <1>8, SchedulerAssumption
<1>16. /\ f \in EntryTypes /\ f.class = e.class /\ f.dest = e.dest /\ f.src = e.src
       /\ f.addr = e.addr /\ f.dispatched /\ f.slot = s /\ f.op = o /\ f.mem = m
  BY <1>14, <1>15 DEF EntryTypes
<1>17. /\ rob' = [rob EXCEPT ![t][i] =
            [e EXCEPT !.dispatched = TRUE, !.slot = s, !.op = Placed(e, "op"),
                      !.mem = IF IsStore(e) THEN Placed(e, "mem") ELSE @]]
       /\ iq' = [iq EXCEPT ![s] = TRUE]
  BY <1>1, <1>2, <1>10 DEF Dispatch
<1>18. rob' = [rob EXCEPT ![t][i] = f]
  <2>1. f = [e EXCEPT !.dispatched = TRUE, !.slot = s, !.op = Placed(e, "op"),
                      !.mem = IF IsStore(e) THEN Placed(e, "mem") ELSE @]
    BY <1>12, <1>13, <1>14
  <2> QED
    BY <1>17, <2>1
<1>19. DispatchesAs(t, i, s, f)
  BY <1>8, <1>9, <1>10, <1>12, <1>13, <1>16, <1>17, <1>18 DEF DispatchesAs
<1> QED
  BY <1>19

LEMMA ReplacedEntry ==
  ASSUME Shapes, NEW t \in Threads, NEW i \in DOMAIN rob[t], NEW f \in EntryTypes,
         rob' = [rob EXCEPT ![t][i] = f]
  PROVE  /\ rob' \in [Threads -> Seq(EntryTypes)]
         /\ DOMAIN rob'[t] = DOMAIN rob[t] /\ Len(rob'[t]) = Len(rob[t])
         /\ rob'[t][i] = f /\ \A j \in DOMAIN rob[t] \ {i} : rob'[t][j] = rob[t][j]
         /\ \A u \in Threads \ {t} : rob'[u] = rob[u]
<1>1. rob \in [Threads -> Seq(EntryTypes)] /\ rob[t] \in Seq(EntryTypes)
  BY DEF Shapes
<1>2. PICK r : r = [rob[t] EXCEPT ![i] = f]
  OBVIOUS
<1>3. /\ r \in Seq(EntryTypes) /\ DOMAIN r = DOMAIN rob[t] /\ Len(r) = Len(rob[t])
      /\ r[i] = f /\ \A j \in DOMAIN rob[t] \ {i} : r[j] = rob[t][j]
  BY <1>1, <1>2
<1>4. rob' = [rob EXCEPT ![t] = r]
  BY <1>2
<1>5. rob'[t] = r /\ (\A u \in Threads \ {t} : rob'[u] = rob[u])
      /\ rob' \in [Threads -> Seq(EntryTypes)]
  BY <1>1, <1>3, <1>4
<1> QED
  BY <1>3, <1>5

LEMMA CountFits ==
  ASSUME NEW k \in Nat, k < Width \/ k < RenameWidth
  PROVE  k + 1 \in 0 .. Max({Width, RenameWidth})
<1>1. Width \in Nat /\ RenameWidth \in Nat
  BY SchedulerAssumption
<1> QED
  BY <1>1, MaxOfTwo

LEMMA CountIsNat == Shapes => n \in Nat
<1>1. Width \in Nat /\ RenameWidth \in Nat
  BY SchedulerAssumption
<1> QED
  BY <1>1, MaxOfTwo DEF Shapes

LEMMA DispatchShapes ==
  ASSUME Shapes, NEW t \in Threads, Dispatch(t), UNCHANGED recovery_model_v
  PROVE  Shapes'
<1>1. PICK i, s, f : DispatchesAs(t, i, s, f)
  BY DispatchMoves
<1>2. i \in DOMAIN rob[t] /\ f \in EntryTypes /\ rob' = [rob EXCEPT ![t][i] = f]
  BY <1>1 DEF DispatchesAs
<1>3. /\ rob' \in [Threads -> Seq(EntryTypes)]
      /\ DOMAIN rob'[t] = DOMAIN rob[t] /\ Len(rob'[t]) = Len(rob[t])
      /\ rob'[t][i] = f /\ \A j \in DOMAIN rob[t] \ {i} : rob'[t][j] = rob[t][j]
      /\ \A u \in Threads \ {t} : rob'[u] = rob[u]
  BY <1>2, ReplacedEntry
<1>4. UNCHANGED <<reg, stage>> /\ n' = n + 1 /\ n < Width
  BY DEF Dispatch, CanDispatch
<1>5. n' \in 0 .. Max({Width, RenameWidth})
  BY <1>4, CountFits, CountIsNat
<1>6. InOrder(f) /\ InTime(f.op, stage) /\ InTime(f.mem, stage)
  <2>1. PICK e \in EntryTypes : e = rob[t][i] /\ InOrder(e)
    BY <1>2, EntryFacts
  <2>2. /\ ~e.dispatched /\ f.dispatched /\ f.class = e.class /\ f.dest = e.dest
        /\ PlacedAs(e, "op", f.op)
        /\ IF IsStore(e) THEN PlacedAs(e, "mem", f.mem) ELSE f.mem = e.mem
        /\ f.op.when = e.op.when /\ f.mem.when = e.mem.when
    BY <1>1, <2>1 DEF DispatchesAs
  <2>3. Fresh(e.mem) /\ InTime(e.op, stage) /\ InTime(e.mem, stage)
    BY <1>2, <2>1, <2>2, EntryFacts DEF InOrder
  <2>4. Waits(f.op) \/ IsReady(f.op)
    BY <2>2 DEF PlacedAs
  <2>5. IF IsStore(e) THEN Waits(f.mem) \/ IsReady(f.mem) ELSE Fresh(f.mem)
    BY <2>2, <2>3 DEF PlacedAs
  <2>6. /\ IsStore(f) <=> IsStore(e)
        /\ IsMem(f) <=> IsMem(e)
        /\ IsStore(e) => IsMem(e) /\ e.class # "load"
    BY <2>2 DEF IsStore, IsMem, StoreClasses, MemClasses
  <2>7. InOrder(f)
    BY <2>1, <2>2, <2>4, <2>5, <2>6 DEF InOrder
  <2>8. InTime(f.op, stage)
    BY <2>2, <2>3, <2>4 DEF InTime, Waits, IsReady, Runs, Issuing
  <2>9. InTime(f.mem, stage)
    BY <2>2, <2>3, <2>5 DEF InTime, Waits, IsReady, Fresh, Runs, Issuing
  <2> QED
    BY <2>7, <2>8, <2>9
<1>7. ASSUME NEW k \in DOMAIN rob'[t]
      PROVE  /\ InOrder(rob'[t][k])
             /\ InTime(rob'[t][k].op, stage) /\ InTime(rob'[t][k].mem, stage)
             /\ \A j \in 1 .. k - 1 : rob'[t][k].dispatched => rob'[t][j].dispatched
  <2>1. DOMAIN rob[t] = 1 .. Len(rob[t]) /\ Len(rob[t]) \in Nat
    BY DEF Shapes
  <2>2. \A j \in 1 .. i - 1 : rob[t][j].dispatched
    BY <1>1 DEF DispatchesAs
  <2>3. CASE k = i
    <3>1. \A j \in 1 .. k - 1 : j \in DOMAIN rob[t] \ {i}
      BY <1>2, <2>1, <2>3
    <3> QED
      BY <1>3, <1>6, <2>2, <2>3, <3>1
  <2>4. CASE k # i
    <3>1. k \in DOMAIN rob[t] \ {i} /\ rob'[t][k] = rob[t][k]
      BY <1>3, <2>4
    <3>2. ASSUME NEW j \in 1 .. k - 1, rob[t][k].dispatched PROVE rob'[t][j].dispatched
      <4>1. j \in DOMAIN rob[t] /\ rob[t][j].dispatched
        BY <2>1, <3>1, <3>2 DEF Shapes
      <4>2. j = i => f.dispatched
        BY <1>1 DEF DispatchesAs
      <4> QED
        BY <1>3, <4>1, <4>2
    <3> QED
      BY <3>1, <3>2 DEF Shapes
  <2> QED
    BY <2>3, <2>4
<1>8. iq' \in [1 .. IqSize -> BOOLEAN]
  <2>1. s \in 1 .. IqSize /\ iq' = [iq EXCEPT ![s] = TRUE] /\ iq \in [1 .. IqSize -> BOOLEAN]
    BY <1>1 DEF DispatchesAs, Shapes
  <2> QED
    BY <2>1
<1>9. \A u \in Threads : u = t \/ u \in Threads \ {t}
  OBVIOUS
<1> QED
  BY <1>3, <1>4, <1>5, <1>7, <1>8, <1>9, ZenonT(60) DEF Shapes

(* register_rename(): a new instruction reads what it may, and its result  *)
(* has a register of its own.                                              *)
RenamesAs(t, f) ==
  /\ f \in EntryTypes /\ ~f.dispatched /\ f.slot = NoSlot
  /\ Fresh(f.op) /\ Fresh(f.mem) /\ f.op.when = Past /\ f.mem.when = Past
  /\ f.src[1] \in Readable(t) /\ f.src[2] \in Readable(t)
  /\ f.class \in {"store", "branch"} => f.dest = NoReg
  /\ \/ f.dest = NoReg /\ reg' = reg
     \/ /\ f.dest \in Regs /\ f.dest \notin InUse /\ f.dest \notin {f.src[1], f.src[2]}
        /\ reg' = [reg EXCEPT ![f.dest] = [spec_ready |-> Never, ready |-> Never]]
  /\ rob' = [rob EXCEPT ![t] = Append(@, f)]

LEMMA ReadableIsOperand == Shapes => \A t \in Threads : Readable(t) \subseteq Operands
<1> SUFFICES ASSUME Shapes, NEW t \in Threads, NEW r \in Readable(t) PROVE r \in Operands
  OBVIOUS
<1>1. CASE r \in Dests(t)
  <2>1. PICK i \in DOMAIN rob[t] : r = rob[t][i].dest
    BY <1>1 DEF Dests
  <2>2. rob[t][i] \in EntryTypes
    BY <2>1, EntryFacts
  <2> QED
    BY <2>1, <2>2 DEF EntryTypes
<1> QED
  BY <1>1 DEF Readable, Operands

LEMMA RenameMoves ==
  ASSUME Shapes, NEW t \in Threads, Rename(t)
  PROVE  \E f : RenamesAs(t, f)
<1>1. PICK e \in Entries(t) :
        LET free == Regs \ (InUse \cup Range(e.src))
        IN /\ WellFormed(e)
           /\ \/ /\ e.class \notin {"store", "branch"}
                 /\ free # {}
                 /\ rob' = [rob EXCEPT ![t] = Append(@, [e EXCEPT !.dest = Min(free)])]
                 /\ reg' = [reg EXCEPT ![Min(free)] = [spec_ready |-> Never, ready |-> Never]]
              \/ /\ e.class \in {"store", "branch"}
                 /\ rob' = [rob EXCEPT ![t] = Append(@, e)]
                 /\ UNCHANGED reg
  BY DEF Rename
<1>2. PICK c \in Classes, s1 \in Readable(t), s2 \in Readable(t), a \in Addrs \cup {NoAddr} :
        e = NewEntry(c, NoReg, <<s1, s2>>, a)
  BY <1>1 DEF Entries
<1>3. PICK np \in PartTypes : np = NewPart /\ Fresh(np) /\ np.when = Past
  <2>1. 0 \in 0 .. MaxTime
    BY TimeFacts
  <2>2. NewPart \in PartTypes
    BY <2>1, PastIsTime DEF NewPart, PartTypes
  <2>3. Fresh(NewPart) /\ NewPart.when = Past
    BY DEF NewPart, Fresh
  <2> QED
    BY <2>2, <2>3
<1>4. e = [class |-> c, dest |-> NoReg, src |-> <<s1, s2>>, addr |-> a,
           dispatched |-> FALSE, slot |-> NoSlot, op |-> np, mem |-> np]
  BY <1>2, <1>3 DEF NewEntry
<1>5. s1 \in Operands /\ s2 \in Operands /\ NoReg \in Operands /\ NoSlot \in 0 .. IqSize
  BY ReadableIsOperand, SchedulerAssumption DEF Operands, NoSlot
<1>6. e \in EntryTypes
  BY <1>4, <1>5 DEF EntryTypes
<1>7. DEFINE free == Regs \ (InUse \cup Range(e.src))
<1>8. CASE e.class \in {"store", "branch"}
  <2>1. rob' = [rob EXCEPT ![t] = Append(@, e)] /\ reg' = reg
    BY <1>1, <1>8
  <2>2. RenamesAs(t, e)
    BY <1>3, <1>4, <1>6, <2>1 DEF RenamesAs
  <2> QED
    BY <2>2
<1>9. CASE e.class \notin {"store", "branch"}
  <2>1. PICK d : d = Min(free)
    OBVIOUS
  <2>2. free # {} /\ free \subseteq Nat
    BY <1>1, <1>9, SchedulerAssumption
  <2>3. d \in free
    <3> HIDE DEF free
    <3> QED
      BY <2>1, <2>2, MinFacts
  <2>4. Range(e.src) = {s1, s2}
    <3>1. e.src = <<s1, s2>>
      BY <1>4
    <3>2. DOMAIN <<s1, s2>> = {1, 2}
      OBVIOUS
    <3> QED
      BY <3>1, <3>2 DEF Range
  <2>5. d \in Regs /\ d \notin InUse /\ d # s1 /\ d # s2
    BY <2>3, <2>4
  <2>6. PICK f : f = [e EXCEPT !.dest = d]
    OBVIOUS
  <2>7. /\ f \in EntryTypes /\ f.class = e.class /\ f.src = <<s1, s2>> /\ f.dest = d
        /\ ~f.dispatched /\ f.slot = NoSlot /\ f.op = np /\ f.mem = np
    BY <1>4, <1>6, <2>5, <2>6 DEF EntryTypes, Operands
  <2>8. /\ rob' = [rob EXCEPT ![t] = Append(@, f)]
        /\ reg' = [reg EXCEPT ![d] = [spec_ready |-> Never, ready |-> Never]]
    BY <1>1, <1>9, <2>1, <2>6
  <2>9. RenamesAs(t, f)
    BY <1>3, <1>9, <2>5, <2>7, <2>8 DEF RenamesAs
  <2> QED
    BY <2>9
<1> QED
  BY <1>8, <1>9

LEMMA AppendedEntry ==
  ASSUME Shapes, NEW t \in Threads, NEW f \in EntryTypes,
         rob' = [rob EXCEPT ![t] = Append(@, f)]
  PROVE  /\ rob' \in [Threads -> Seq(EntryTypes)]
         /\ Len(rob[t]) \in Nat /\ DOMAIN rob[t] = 1 .. Len(rob[t])
         /\ DOMAIN rob'[t] = 1 .. Len(rob[t]) + 1 /\ Len(rob'[t]) = Len(rob[t]) + 1
         /\ rob'[t][Len(rob[t]) + 1] = f
         /\ \A j \in DOMAIN rob[t] : j \in DOMAIN rob'[t] /\ rob'[t][j] = rob[t][j]
         /\ \A j \in DOMAIN rob'[t] : j \in DOMAIN rob[t] \/ j = Len(rob[t]) + 1
         /\ \A u \in Threads \ {t} : rob'[u] = rob[u]
<1>1. rob \in [Threads -> Seq(EntryTypes)] /\ rob[t] \in Seq(EntryTypes)
  BY DEF Shapes
<1>2. PICK r : r = Append(rob[t], f)
  OBVIOUS
<1>3. PICK k \in Nat : k = Len(rob[t])
  BY <1>1
<1>4. /\ r \in Seq(EntryTypes) /\ Len(r) = k + 1 /\ DOMAIN r = 1 .. k + 1
      /\ DOMAIN rob[t] = 1 .. k /\ r[k + 1] = f
      /\ \A j \in 1 .. k : r[j] = rob[t][j]
  BY <1>1, <1>2, <1>3, AppendProperties
<1>5. rob' = [rob EXCEPT ![t] = r]
  BY <1>2
<1>6. rob'[t] = r /\ (\A u \in Threads \ {t} : rob'[u] = rob[u])
      /\ rob' \in [Threads -> Seq(EntryTypes)]
  BY <1>1, <1>4, <1>5
<1>7. (\A j \in 1 .. k : j \in 1 .. k + 1) /\ (\A j \in 1 .. k + 1 : j \in 1 .. k \/ j = k + 1)
  OBVIOUS
<1> QED
  BY <1>3, <1>4, <1>6, <1>7

LEMMA RenameShapes ==
  ASSUME Shapes, NEW t \in Threads, Rename(t), UNCHANGED recovery_model_v
  PROVE  Shapes'
<1>1. PICK f : RenamesAs(t, f)
  BY RenameMoves
<1>2. f \in EntryTypes /\ rob' = [rob EXCEPT ![t] = Append(@, f)]
  BY <1>1 DEF RenamesAs
<1>3. /\ rob' \in [Threads -> Seq(EntryTypes)]
      /\ Len(rob[t]) \in Nat /\ DOMAIN rob[t] = 1 .. Len(rob[t])
      /\ DOMAIN rob'[t] = 1 .. Len(rob[t]) + 1 /\ Len(rob'[t]) = Len(rob[t]) + 1
      /\ rob'[t][Len(rob[t]) + 1] = f
      /\ \A j \in DOMAIN rob[t] : j \in DOMAIN rob'[t] /\ rob'[t][j] = rob[t][j]
      /\ \A j \in DOMAIN rob'[t] : j \in DOMAIN rob[t] \/ j = Len(rob[t]) + 1
      /\ \A u \in Threads \ {t} : rob'[u] = rob[u]
  BY <1>2, AppendedEntry
<1>4. UNCHANGED <<iq, stage>> /\ n' = n + 1 /\ n < RenameWidth /\ Len(rob[t]) < RobSize
  BY DEF Rename, CanRename
<1>5. n' \in 0 .. Max({Width, RenameWidth})
  BY <1>4, CountFits, CountIsNat
<1>6. InOrder(f) /\ InTime(f.op, stage) /\ InTime(f.mem, stage)
  <2>1. InOrder(f)
    BY <1>1 DEF RenamesAs, InOrder
  <2>2. ~Runs(f.op) /\ ~Issuing(f.op) /\ ~Runs(f.mem) /\ ~Issuing(f.mem)
    BY <1>1 DEF RenamesAs, Fresh, Runs, Issuing
  <2>3. f.op.when \in Past .. MaxTime /\ f.mem.when \in Past .. MaxTime
    BY <1>1, TimeFacts DEF RenamesAs
  <2> QED
    BY <2>1, <2>2, <2>3 DEF InTime
<1>7. ASSUME NEW k \in DOMAIN rob'[t]
      PROVE  /\ InOrder(rob'[t][k])
             /\ InTime(rob'[t][k].op, stage) /\ InTime(rob'[t][k].mem, stage)
             /\ \A j \in 1 .. k - 1 : rob'[t][k].dispatched => rob'[t][j].dispatched
  <2>1. CASE k = Len(rob[t]) + 1
    <3>1. ~f.dispatched
      BY <1>1 DEF RenamesAs
    <3> QED
      BY <1>3, <1>6, <2>1, <3>1
  <2>2. CASE k \in DOMAIN rob[t]
    <3>1. \A j \in 1 .. k - 1 : j \in DOMAIN rob[t]
      BY <1>3, <2>2
    <3> QED
      BY <1>3, <2>2, <3>1 DEF Shapes
  <2> QED
    BY <1>3, <2>1, <2>2
<1>8. reg' \in [Regs -> [spec_ready : Times, ready : Times]]
  <2>1. reg \in [Regs -> [spec_ready : Times, ready : Times]]
    BY DEF Shapes
  <2>2. [spec_ready |-> Never, ready |-> Never] \in [spec_ready : Times, ready : Times]
    BY PastIsTime
  <2> QED
    BY <1>1, <2>1, <2>2 DEF RenamesAs
<1>9. Len(rob'[t]) <= RobSize
  BY <1>3, <1>4, SchedulerAssumption
<1>10. \A u \in Threads : u = t \/ u \in Threads \ {t}
  OBVIOUS
<1> QED
  BY <1>3, <1>4, <1>5, <1>7, <1>8, <1>9, <1>10 DEF Shapes

LEMMA InitShapes == Init => Shapes
<1> SUFFICES ASSUME Init PROVE Shapes
  OBVIOUS
<1>1. rob \in [Threads -> Seq(EntryTypes)] /\ \A t \in Threads : rob[t] = <<>>
  BY DEF Init
<1>2. \A t \in Threads : Len(rob[t]) <= RobSize /\ DOMAIN rob[t] = {}
  BY <1>1, SchedulerAssumption
<1>3. reg \in [Regs -> [spec_ready : Times, ready : Times]]
  BY PastIsTime DEF Init
<1>4. n \in 0 .. Max({Width, RenameWidth})
  <2>1. Width \in Nat /\ RenameWidth \in Nat
    BY SchedulerAssumption
  <2> QED
    BY <2>1, MaxOfTwo DEF Init
<1> QED
  BY <1>1, <1>2, <1>3, <1>4 DEF Init, Shapes, Stages

LEMMA ShapesStep == Shapes /\ [Next]_vars => Shapes'
<1> SUFFICES ASSUME Shapes, [Next]_vars PROVE Shapes'
  OBVIOUS
<1>1. CASE Next
  <2> USE <1>1
  <2>1. UNCHANGED recovery_model_v
    BY DEF Next
  <2>2. ASSUME EndCommit \/ EndDispatch PROVE Shapes'
    <3>1. /\ UNCHANGED <<rob, reg, iq>> /\ n' = 0
          /\ \/ stage = "commit" /\ stage' = "writeback"
             \/ stage = "dispatch" /\ stage' = "register_rename"
      BY <2>2 DEF EndCommit, EndDispatch, Goes
    <3>2. IssueFrom(stage') = IssueFrom(stage) /\ RunFrom(stage') = RunFrom(stage)
      BY <3>1 DEF IssueFrom, RunFrom
    <3>3. n' \in 0 .. Max({Width, RenameWidth})
      <4>1. Width \in Nat /\ RenameWidth \in Nat
        BY SchedulerAssumption
      <4> QED
        BY <3>1, <4>1, MaxOfTwo
    <3>4. \A q : InTime(q, stage') = InTime(q, stage)
      BY <3>2 DEF InTime
    <3> QED
      BY <2>1, <3>1, <3>3, <3>4 DEF Shapes, Stages
  <2> QED
    BY <2>1, <2>2, CommitShapes, DispatchShapes, RenameShapes, WritebackShapes, LsqRefreshShapes,
       WakeupShapes, SelectionShapes, ExecuteShapes, EndCycleShapes DEF Next
<1>2. CASE UNCHANGED vars
  BY <1>2 DEF vars, Shapes
<1> QED
  BY <1>1, <1>2

(***************************************************************************)
(* Who writes a register, and who reads it.                                *)
(***************************************************************************)
LEMMA OperandFacts ==
  ASSUME Shapes, NEW t \in Threads, NEW i \in DOMAIN rob[t]
  PROVE  /\ rob[t][i].dest # NoReg => rob[t][i].dest \in Regs
         /\ \A p : /\ SrcsOf(rob[t][i], p) \subseteq Regs
                   /\ SrcsOf(rob[t][i], p) \subseteq {rob[t][i].src[1], rob[t][i].src[2]} \ {NoReg}
<1>1. PICK e \in EntryTypes : e = rob[t][i]
  BY EntryFacts
<1>2. e.dest \in Operands /\ e.src[1] \in Operands /\ e.src[2] \in Operands
  BY DEF EntryTypes
<1>3. \A p : SrcsOf(e, p) \subseteq {e.src[1], e.src[2]} \ {NoReg}
  BY DEF SrcsOf
<1> QED
  BY <1>1, <1>2, <1>3 DEF Operands

LEMMA SrcsKept ==
  ASSUME NEW e, NEW f, Kept(e, f)
  PROVE  /\ \A p : SrcsOf(f, p) = SrcsOf(e, p)
         /\ IsMem(f) <=> IsMem(e)
         /\ IsStore(f) <=> IsStore(e)
         /\ ProducingPart(f) = ProducingPart(e)
BY DEF Kept, SrcsOf, IsMem, IsStore, ProducingPart

LEMMA StaticInPlace ==
  ASSUME InPlace
  PROVE  /\ OneWriter => OneWriter'
         /\ Private => Private'
         /\ \A r : IsResult(r)' <=> IsResult(r)
<1>1. \A t \in Threads : DOMAIN rob'[t] = DOMAIN rob[t]
  BY DEF InPlace
<1>2. \A t \in Threads : \A i \in DOMAIN rob[t] :
        rob'[t][i].dest = rob[t][i].dest /\ rob'[t][i].src = rob[t][i].src
  BY DEF InPlace, Kept
<1>3. OneWriter => OneWriter'
  BY <1>1, <1>2 DEF OneWriter
<1>4. Private => Private'
  BY <1>1, <1>2 DEF Private
<1>5. \A r : IsResult(r)' <=> IsResult(r)
  BY <1>1, <1>2 DEF IsResult
<1> QED
  BY <1>3, <1>4, <1>5

(* A unit that produces is the producing part of its instruction.          *)
LEMMA ProducerFacts ==
  ASSUME Shapes, NEW u \in Units, Produces(At(u), u[3])
  PROVE  /\ u[1] \in Threads /\ u[2] \in DOMAIN rob[u[1]] /\ At(u) = rob[u[1]][u[2]]
         /\ u = <<u[1], u[2], ProducingPart(At(u))>>
         /\ PartOf(u) = Producer(At(u)) /\ At(u).dest # NoReg /\ At(u).dest \in Regs
<1>1. /\ u[1] \in Threads /\ u[2] \in DOMAIN rob[u[1]] /\ u[3] \in Parts(rob[u[1]][u[2]])
      /\ u = <<u[1], u[2], u[3]>> /\ At(u) = rob[u[1]][u[2]]
  BY UnitFacts DEF At
<1>2. u[3] = ProducingPart(At(u)) /\ At(u).dest # NoReg
  BY <1>1 DEF Produces, Parts, ProducingPart
<1>3. PartOf(u) = Producer(At(u))
  BY <1>2 DEF PartOf, Producer
<1>4. rob[u[1]][u[2]].dest # NoReg => rob[u[1]][u[2]].dest \in Regs
  BY <1>1, OperandFacts
<1> QED
  BY <1>1, <1>2, <1>3, <1>4

LEMMA ProducingUnit ==
  ASSUME Shapes, NEW t \in Threads, NEW i \in DOMAIN rob[t], rob[t][i].dest # NoReg,
         NEW u, u = <<t, i, ProducingPart(rob[t][i])>>
  PROVE  /\ u \in Units /\ At(u) = rob[t][i] /\ PartOf(u) = Producer(rob[t][i])
         /\ Produces(At(u), u[3])
<1>1. ProducingPart(rob[t][i]) \in {"op", "mem"} /\ ProducingPart(rob[t][i]) \in Parts(rob[t][i])
  BY DEF ProducingPart, Parts
<1>2. u \in Units /\ At(u) = rob[t][i] /\ PartOf(u) = Producer(rob[t][i])
  BY <1>1, UnitFacts DEF Producer
<1>3. u[3] = ProducingPart(rob[t][i])
  OBVIOUS
<1> QED
  BY <1>2, <1>3 DEF Produces, ProducingPart

(* With one writer for each register, two units that announce in the same  *)
(* register are the same.                                                  *)
LEMMA SameProducer ==
  ASSUME Shapes, OneWriter, NEW u \in Units, NEW v \in Units,
         Produces(At(u), u[3]), Produces(At(v), v[3]), At(u).dest = At(v).dest
  PROVE  u = v
<1>1. /\ u[1] \in Threads /\ u[2] \in DOMAIN rob[u[1]] /\ At(u) = rob[u[1]][u[2]]
      /\ u = <<u[1], u[2], ProducingPart(At(u))>> /\ At(u).dest # NoReg
  BY ProducerFacts
<1>2. /\ v[1] \in Threads /\ v[2] \in DOMAIN rob[v[1]] /\ At(v) = rob[v[1]][v[2]]
      /\ v = <<v[1], v[2], ProducingPart(At(v))>>
  BY ProducerFacts
<1>3. u[1] = v[1] /\ u[2] = v[2]
  BY <1>1, <1>2 DEF OneWriter
<1> QED
  BY <1>1, <1>2, <1>3

(* An instruction whose result is not announced has an unknown register.   *)
LEMMA TimedUnit ==
  ASSUME Shapes, Timed, NEW u \in Units, Produces(At(u), u[3])
  PROVE  Announced(At(u).class, PartOf(u), reg[At(u).dest])
BY ProducerFacts DEF Timed

LEMMA SelectionChanges ==
  ASSUME Shapes, Timed, NEW I, NEW lat, NEW hit, Chosen(I, lat, hit), NEW r \in Regs,
         reg'[r] # reg[r]
  PROVE  Unknown(reg[r])
<1>1. PICK u \in I : Produces(At(u), u[3]) /\ At(u).dest = r
  BY AfterIssueFacts DEF Announces
<1>2. u \in Units /\ u \in On("ready")
  BY DEF Chosen, On
<1>3. IsReady(PartOf(u)) /\ Announced(At(u).class, PartOf(u), reg[r])
  BY <1>1, <1>2, UnitPart, TimedUnit
<1> QED
  BY <1>3 DEF Announced, IsReady, Issuing, Runs, Over

LEMMA WithdrawnFacts ==
  ASSUME Shapes, Timed, NEW r \in Regs, Withdrawn(r)
  PROVE  /\ reg[r].ready # Never /\ 0 < reg[r].ready
         /\ \E t \in Threads : Replays(t) /\ \E i \in DOMAIN rob[t] : rob[t][i].dest = r
<1>1. PICK u \in Replayed : Produces(At(u), u[3]) /\ At(u).dest = r
  BY DEF Withdrawn
<1>2. u \in Units /\ Issuing(PartOf(u)) /\ Replays(u[1])
  BY ExecuteUnits
<1>3. Announced(At(u).class, PartOf(u), reg[r])
  BY <1>1, <1>2, TimedUnit
<1>4. PICK q : q = PartOf(u) /\ InTime(q, stage) /\ Issuing(q)
  BY <1>2, UnitPart
<1>5. q.when \in 0 .. Delay /\ q.exec_lat \in 1 .. MaxTime - Delay
  BY <1>4, TimeFacts DEF InTime, IssueFrom
<1>6. reg[r].ready = q.when + q.exec_lat
  BY <1>3, <1>4 DEF Announced
<1>7. reg[r].ready # Never /\ 0 < reg[r].ready
  BY <1>5, <1>6, TimeFacts
<1> QED
  BY <1>1, <1>2, <1>7, ProducerFacts

(* What a step has to show of the registers, where the ROBs stay in place. *)
LEMMA RegsInPlace ==
  ASSUME Shapes, OneWriter, Private, InPlace,
         \A t \in Threads : \A i \in DOMAIN rob[t] :
           rob[t][i].dest # NoReg =>
             Announced(rob[t][i].class, rob'[t][i][ProducingPart(rob[t][i])],
                       reg'[rob[t][i].dest]),
         \A r \in Regs : ~IsResult(r) => Settled(reg'[r]),
         \A t \in Threads : \A i \in DOMAIN rob[t] : \A p \in {"op", "mem"} :
           IsReady(rob'[t][i][p]) => \A r \in SrcsOf(rob[t][i], p) : reg'[r].spec_ready <= 0
  PROVE  RegsInv'
<1>1. /\ \A t \in Threads : DOMAIN rob'[t] = DOMAIN rob[t]
      /\ \A t \in Threads : \A i \in DOMAIN rob[t] :
        /\ rob'[t][i].dest = rob[t][i].dest /\ rob'[t][i].class = rob[t][i].class
        /\ ProducingPart(rob'[t][i]) = ProducingPart(rob[t][i])
        /\ \A p : SrcsOf(rob'[t][i], p) = SrcsOf(rob[t][i], p)
  BY SrcsKept DEF InPlace, Kept
<1>2. Timed'
  <2>1. ASSUME NEW t \in Threads, NEW i \in DOMAIN rob'[t], rob'[t][i].dest # NoReg
        PROVE  Announced(rob'[t][i].class, Producer(rob'[t][i]), reg'[rob'[t][i].dest])
    BY <1>1, <2>1 DEF Producer
  <2>2. \A r \in Regs : ~IsResult(r)' => Settled(reg'[r])
    BY StaticInPlace
  <2>3. \A t \in Threads : \A i \in DOMAIN rob'[t] : rob'[t][i].dest # NoReg =>
          Announced(rob'[t][i].class, Producer(rob'[t][i]), reg'[rob'[t][i].dest])
    BY <2>1
  <2> QED
    BY <2>2, <2>3 DEF Timed
<1>3. ReadyHolds'
  BY <1>1 DEF ReadyHolds, OperandsSpecReady
<1> QED
  BY <1>2, <1>3, StaticInPlace DEF RegsInv

LEMMA ProducerIs ==
  ASSUME Shapes, Timed, NEW t \in Threads, NEW i \in DOMAIN rob[t], rob[t][i].dest # NoReg
  PROVE  /\ ProducingPart(rob[t][i]) \in {"op", "mem"}
         /\ Announced(rob[t][i].class, rob[t][i][ProducingPart(rob[t][i])], reg[rob[t][i].dest])
         /\ rob[t][i].dest \in Regs
         /\ reg[rob[t][i].dest].ready \in Times /\ reg[rob[t][i].dest].spec_ready \in Times
<1>1. rob[t][i].dest \in Regs
  BY OperandFacts
<1>2. reg[rob[t][i].dest].ready \in Times /\ reg[rob[t][i].dest].spec_ready \in Times
  BY <1>1 DEF Shapes
<1> QED
  BY <1>1, <1>2 DEF ProducingPart, Timed, Producer

LEMMA WritebackRegs ==
  ASSUME Shapes, RegsInv, Writeback
  PROVE  RegsInv'
<1>1. InPlace /\ reg' = reg /\ stage = "writeback"
  BY WritebackMoves DEF Writeback
<1>2. ASSUME NEW t \in Threads, NEW i \in DOMAIN rob[t], rob[t][i].dest # NoReg
      PROVE  Announced(rob[t][i].class, rob'[t][i][ProducingPart(rob[t][i])],
                       reg'[rob[t][i].dest])
  <2>1. PICK p \in {"op", "mem"} : p = ProducingPart(rob[t][i])
    BY <1>2, ProducerIs DEF RegsInv
  <2>2. PICK q, q2, v : q = rob[t][i][p] /\ q2 = rob'[t][i][p] /\ v = reg[rob[t][i].dest]
    OBVIOUS
  <2>3. Announced(rob[t][i].class, q, v)
    BY <1>2, <2>1, <2>2, ProducerIs DEF RegsInv
  <2>4. Finishes(q, q2) /\ InTime(q, "writeback")
    BY <1>1, <2>2, WritebackMoves, PartInTime
  <2>5. CASE Runs(q) /\ q.when <= 0
    <3>1. q.when = 0
      BY <2>4, <2>5, TimeFacts DEF InTime, RunFrom
    <3>2. v.ready = 0 /\ Over(q2)
      BY <2>3, <2>4, <2>5, <3>1 DEF Announced, Finishes
    <3>3. ~Issuing(q2) /\ ~Runs(q2)
      BY <3>2 DEF Over, Issuing, Runs
    <3>4. Settled(v) /\ v.ready <= 0
      BY <3>2 DEF Settled
    <3>5. Announced(rob[t][i].class, q2, v)
      BY <3>2, <3>3, <3>4 DEF Announced
    <3> QED
      BY <1>1, <2>1, <2>2, <3>5
  <2>6. CASE ~(Runs(q) /\ q.when <= 0)
    BY <1>1, <2>1, <2>2, <2>3, <2>4, <2>6 DEF Finishes
  <2> QED
    BY <2>5, <2>6
<1>3. \A r \in Regs : ~IsResult(r) => Settled(reg'[r])
  BY <1>1 DEF RegsInv, Timed
<1>4. ASSUME NEW t \in Threads, NEW i \in DOMAIN rob[t], NEW p \in {"op", "mem"},
             IsReady(rob'[t][i][p])
      PROVE  \A r \in SrcsOf(rob[t][i], p) : reg'[r].spec_ready <= 0
  <2>1. Finishes(rob[t][i][p], rob'[t][i][p])
    BY WritebackMoves
  <2>2. IsReady(rob[t][i][p])
    BY <1>4, <2>1 DEF Finishes, Over, IsReady
  <2> QED
    BY <1>1, <2>2 DEF RegsInv, ReadyHolds, OperandsSpecReady
<1> QED
  BY <1>1, <1>2, <1>3, <1>4, RegsInPlace DEF RegsInv

(* The parts that enter the ready queue have their operands.               *)
LEMMA EnterRegs ==
  ASSUME Shapes, RegsInv, InPlace, reg' = reg, NEW U \in SUBSET Units,
         \A t \in Threads : \A i \in DOMAIN rob[t] : \A p \in {"op", "mem"} :
           /\ Enters(rob[t][i][p], rob'[t][i][p], <<t, i, p>> \in U)
           /\ <<t, i, p>> \in U => OperandsSpecReady(rob[t][i], p)
  PROVE  RegsInv'
<1>2. ASSUME NEW t \in Threads, NEW i \in DOMAIN rob[t], rob[t][i].dest # NoReg
      PROVE  Announced(rob[t][i].class, rob'[t][i][ProducingPart(rob[t][i])],
                       reg'[rob[t][i].dest])
  <2>1. PICK p \in {"op", "mem"} : p = ProducingPart(rob[t][i])
    BY <1>2, ProducerIs DEF RegsInv
  <2>2. PICK q, q2, v : q = rob[t][i][p] /\ q2 = rob'[t][i][p] /\ v = reg[rob[t][i].dest]
    OBVIOUS
  <2>3. Announced(rob[t][i].class, q, v)
    BY <1>2, <2>1, <2>2, ProducerIs DEF RegsInv
  <2>4. q2 = q \/ ((Fresh(q) \/ Waits(q)) /\ IsReady(q2))
    BY <2>2 DEF Enters
  <2>5. CASE q2 = q
    BY <2>1, <2>2, <2>3, <2>5
  <2>6. CASE (Fresh(q) \/ Waits(q)) /\ IsReady(q2)
    <3>1. ~Issuing(q) /\ ~Runs(q) /\ ~Over(q) /\ ~Issuing(q2) /\ ~Runs(q2) /\ ~Over(q2)
      BY <2>6 DEF Fresh, Waits, IsReady, Issuing, Runs, Over
    <3>2. Announced(rob[t][i].class, q2, v)
      BY <2>3, <3>1 DEF Announced
    <3> QED
      BY <2>1, <2>2, <3>2
  <2> QED
    BY <2>4, <2>5, <2>6
<1>3. \A r \in Regs : ~IsResult(r) => Settled(reg'[r])
  BY DEF RegsInv, Timed
<1>4. ASSUME NEW t \in Threads, NEW i \in DOMAIN rob[t], NEW p \in {"op", "mem"},
             IsReady(rob'[t][i][p])
      PROVE  \A r \in SrcsOf(rob[t][i], p) : reg'[r].spec_ready <= 0
  <2>1. Enters(rob[t][i][p], rob'[t][i][p], <<t, i, p>> \in U)
    OBVIOUS
  <2>2. CASE <<t, i, p>> \in U
    BY <2>2 DEF OperandsSpecReady
  <2>3. CASE <<t, i, p>> \notin U
    <3>1. IsReady(rob[t][i][p])
      BY <1>4, <2>1, <2>3 DEF Enters
    <3> QED
      BY <3>1 DEF RegsInv, ReadyHolds, OperandsSpecReady
  <2> QED
    BY <2>2, <2>3
<1> QED
  BY <1>2, <1>3, <1>4, RegsInPlace DEF RegsInv

LEMMA LsqRefreshRegs ==
  ASSUME Shapes, RegsInv, LsqRefresh
  PROVE  RegsInv'
<1>1. \A t \in Threads : \A i \in DOMAIN rob[t] : \A p \in {"op", "mem"} :
        <<t, i, p>> \in LoadsToQueue => OperandsSpecReady(rob[t][i], p)
  <2> SUFFICES ASSUME NEW t \in Threads, NEW i \in DOMAIN rob[t], NEW p \in {"op", "mem"},
                      <<t, i, p>> \in LoadsToQueue
               PROVE  OperandsSpecReady(rob[t][i], p)
    OBVIOUS
  <2>1. At(<<t, i, p>>) = rob[t][i] /\ <<t, i, p>>[3] = p
    BY UnitFacts
  <2> QED
    BY <2>1, LoadsToQueueFacts
<1>2. LoadsToQueue \in SUBSET Units /\ reg' = reg
  BY LoadsToQueueFacts DEF LsqRefresh
<1> QED
  BY <1>1, <1>2, LsqRefreshMoves, EnterRegs

LEMMA WakeupRegs ==
  ASSUME Shapes, RegsInv, Wakeup
  PROVE  RegsInv'
<1>1. Woken \in SUBSET Units /\ reg' = reg
  BY DEF Woken, On, Wakeup
<1> QED
  BY <1>1, WakeupMoves, EnterRegs

LEMMA SelectionRegs ==
  ASSUME Shapes, RegsInv, Selection
  PROVE  RegsInv'
<1>1. PICK I, lat, hit : Chosen(I, lat, hit)
  BY SelectionChooses
<1>2. /\ InPlace
      /\ \A t \in Threads : \A i \in DOMAIN rob[t] : \A p \in {"op", "mem"} :
                   /\ Issues(rob[t][i], p, rob[t][i][p], rob'[t][i][p],
                             <<t, i, p>> \in I, lat[<<t, i, p>>])
                   /\ <<t, i, p>> \in I /\ ~IsStorePart(rob[t][i], p) =>
                        /\ lat[<<t, i, p>>] \in Nat /\ 1 <= lat[<<t, i, p>>]
                        /\ lat[<<t, i, p>>] + Delay <= MaxTime
  BY <1>1, SelectionMoves
<1>3. I \subseteq Units /\ OneWriter /\ Private /\ Timed /\ ReadyHolds
  BY <1>1 DEF Chosen, On, RegsInv
<1>4. ASSUME NEW t \in Threads, NEW i \in DOMAIN rob[t], rob[t][i].dest # NoReg
      PROVE  Announced(rob[t][i].class, rob'[t][i][ProducingPart(rob[t][i])],
                       reg'[rob[t][i].dest])
  <2>1. PICK p \in {"op", "mem"} : p = ProducingPart(rob[t][i])
    BY <1>3, <1>4, ProducerIs
  <2>2. PICK u : u = <<t, i, p>>
    OBVIOUS
  <2>3. PICK q, q2, d : q = rob[t][i][p] /\ q2 = rob'[t][i][p] /\ d = rob[t][i].dest
    OBVIOUS
  <2>4. Announced(rob[t][i].class, q, reg[d]) /\ d \in Regs
    BY <1>3, <1>4, <2>1, <2>3, ProducerIs
  <2>5. u \in Units /\ At(u) = rob[t][i] /\ PartOf(u) = q /\ Produces(At(u), u[3]) /\ u[3] = p
    BY <1>4, <2>1, <2>2, <2>3, ProducingUnit DEF Producer
  <2>6. \A w \in I : Announces(w, d) => w = u
    BY <1>3, <2>3, <2>5, SameProducer DEF Announces
  <2>7. Issues(rob[t][i], p, q, q2, u \in I, lat[u])
    BY <1>2, <2>2, <2>3
  <2>8. CASE u \notin I
    <3>1. reg'[d] = reg[d]
      BY <1>1, <2>4, <2>6, <2>8, AfterIssueFacts
    <3> QED
      BY <2>1, <2>3, <2>4, <2>7, <2>8, <3>1 DEF Issues
  <2>9. CASE u \in I
    <3>1. PICK w \in I : Announces(w, d) /\ AnnouncedAs(reg'[d], w, lat, hit)
      <4>1. Announces(u, d)
        BY <2>3, <2>5 DEF Announces
      <4> QED
        BY <1>1, <2>4, <2>9, <4>1, AfterIssueFacts
    <3>2. w = u
      BY <2>6, <3>1
    <3>3. PICK l \in Nat : l = lat[u] /\ l + Delay <= MaxTime
      BY <2>5, <3>1, <3>2, LatencyIsTime DEF AnnouncedAs
    <3>4. PICK b : b = (IsLoadAccess(u) /\ hit[u])
      OBVIOUS
    <3>5. /\ reg'[d].ready = l + Delay
          /\ reg'[d].spec_ready = SpecReady(u, l, b)
          /\ ~IsLoadAccess(u) => SpecReady(u, l, b) = l
      BY <3>1, <3>2, <3>3, <3>4, SpecReadyFacts DEF AnnouncedAs
    <3>6. CASE IsStorePart(rob[t][i], p)
      <4>1. Over(q2) /\ ~Issuing(q2) /\ ~Runs(q2)
        BY <2>7, <2>9, <3>6 DEF Issues, Over, Issuing, Runs
      <4>2. ~IsLoadAccess(u)
        BY <2>5, <3>6 DEF IsLoadAccess, IsStorePart, IsStore, StoreClasses
      <4>3. rob[t][i].class = "store_cond"
        <5>1. rob[t][i].class # "store"
          BY <1>4, EntryFacts DEF InOrder
        <5> QED
          BY <3>6, <5>1 DEF IsStorePart, IsStore, StoreClasses
      <4>4. l + Delay \in Times /\ l + Delay # Never
        BY <3>3, TimeFacts DEF Times
      <4>5. TrueTime(l + Delay) = l
        BY <3>3, <4>4, TrueTimeFacts, TimeFacts
      <4>6. Settled(reg'[d])
        BY <3>5, <4>2, <4>4, <4>5 DEF Settled
      <4>7. Announced(rob[t][i].class, q2, reg'[d])
        BY <4>1, <4>3, <4>6 DEF Announced
      <4> QED
        BY <2>1, <2>3, <4>7
    <3>7. CASE ~IsStorePart(rob[t][i], p)
      <4>1. Issuing(q2) /\ q2.when = Delay /\ q2.exec_lat = l
        BY <2>7, <2>9, <3>3, <3>7 DEF Issues
      <4>2. ~Over(q2) /\ ~Runs(q2)
        BY <4>1 DEF Over, Issuing, Runs
      <4>3. reg'[d].ready = q2.when + q2.exec_lat
        BY <3>3, <3>5, <4>1, TimeFacts
      <4>4. Announced(rob[t][i].class, q2, reg'[d])
        BY <4>1, <4>2, <4>3 DEF Announced
      <4> QED
        BY <2>1, <2>3, <4>4
    <3> QED
      BY <3>6, <3>7
  <2> QED
    BY <2>8, <2>9
<1>5. ASSUME NEW r \in Regs, ~IsResult(r) PROVE Settled(reg'[r])
  <2>1. \A w \in I : ~Announces(w, r)
    <3> SUFFICES ASSUME NEW w \in I, Produces(At(w), w[3]), At(w).dest = r PROVE FALSE
      BY DEF Announces
    <3>1. w[1] \in Threads /\ w[2] \in DOMAIN rob[w[1]] /\ At(w) = rob[w[1]][w[2]]
      BY <1>3, ProducerFacts
    <3> QED
      BY <1>5, <3>1 DEF IsResult
  <2>2. reg'[r] = reg[r]
    BY <1>1, <2>1, AfterIssueFacts
  <2> QED
    BY <1>3, <1>5, <2>2 DEF Timed
<1>6. ASSUME NEW t \in Threads, NEW i \in DOMAIN rob[t], NEW p \in {"op", "mem"},
             IsReady(rob'[t][i][p]), NEW r \in SrcsOf(rob[t][i], p)
      PROVE  reg'[r].spec_ready <= 0
  <2>1. Issues(rob[t][i], p, rob[t][i][p], rob'[t][i][p], <<t, i, p>> \in I, lat[<<t, i, p>>])
    BY <1>2
  <2>2. IsReady(rob[t][i][p])
    BY <1>6, <2>1 DEF Issues, Over, Issuing, IsReady
  <2>3. reg[r].spec_ready <= 0 /\ r \in Regs
    BY <1>3, <2>2, OperandFacts DEF ReadyHolds, OperandsSpecReady
  <2>4. ~Unknown(reg[r])
    BY <2>3, TimeFacts DEF Unknown
  <2>5. reg'[r] = reg[r]
    BY <1>1, <1>3, <2>3, <2>4, SelectionChanges
  <2> QED
    BY <2>3, <2>5
<1> QED
  BY <1>2, <1>3, <1>4, <1>5, <1>6, RegsInPlace

(* A register that nobody is to write stays settled when a replay adjusts  *)
(* its time.                                                               *)
LEMMA SettledAdjusted ==
  ASSUME NEW v, NEW w, v.ready \in Times, Settled(v), w.ready = v.ready,
         w.spec_ready = TrueTime(v.ready) \/ w.spec_ready = v.spec_ready
  PROVE  Settled(w)
BY DEF Settled

LEMMA ExecuteRegsInv ==
  ASSUME Shapes, RegsInv, Execute
  PROVE  RegsInv'
<1>1. /\ InPlace
      /\ \A t \in Threads : \A i \in DOMAIN rob[t] : \A p \in {"op", "mem"} :
                   Executes(rob[t][i], p, rob[t][i][p], rob'[t][i][p],
                            <<t, i, p>> \in Executed, <<t, i, p>> \in Replayed \cup Flushed)
  BY ExecuteMoves
<1>2. OneWriter /\ Private /\ Timed /\ ReadyHolds
  BY DEF RegsInv
<1>3. ASSUME NEW t \in Threads, NEW i \in DOMAIN rob[t], rob[t][i].dest # NoReg
      PROVE  Announced(rob[t][i].class, rob'[t][i][ProducingPart(rob[t][i])],
                       reg'[rob[t][i].dest])
  <2>1. PICK p \in {"op", "mem"} : p = ProducingPart(rob[t][i])
    BY <1>2, <1>3, ProducerIs
  <2>2. PICK u : u = <<t, i, p>>
    OBVIOUS
  <2>3. PICK q, q2, d : q = rob[t][i][p] /\ q2 = rob'[t][i][p] /\ d = rob[t][i].dest
    OBVIOUS
  <2>4. Announced(rob[t][i].class, q, reg[d]) /\ d \in Regs /\ reg[d].ready \in Times
    BY <1>2, <1>3, <2>1, <2>3, ProducerIs
  <2>5. u \in Units /\ At(u) = rob[t][i] /\ PartOf(u) = q /\ Produces(At(u), u[3])
    BY <1>3, <2>1, <2>2, <2>3, ProducingUnit DEF Producer
  <2>6. Withdrawn(d) <=> u \in Replayed
    <3>1. \A w \in Replayed : Produces(At(w), w[3]) /\ At(w).dest = d => w = u
      BY <1>2, <2>3, <2>5, SameProducer, ExecuteUnits
    <3> QED
      BY <2>3, <2>5, <3>1 DEF Withdrawn
  <2>7. Executes(rob[t][i], p, q, q2, u \in Executed, u \in Replayed \cup Flushed)
    BY <1>1, <2>2, <2>3
  <2>8. /\ Withdrawn(d) => Unknown(reg'[d])
        /\ ~Withdrawn(d) => /\ reg'[d].ready = reg[d].ready
                            /\ \/ reg'[d].spec_ready = TrueTime(reg[d].ready)
                               \/ reg'[d].spec_ready = reg[d].spec_ready
    BY <2>4, ExecuteRegs
  <2>9. Unknown(reg[d]) => Unknown(reg'[d])
    <3>1. TrueTime(Never) = Never
      BY DEF TrueTime
    <3> QED
      BY <2>8, <3>1 DEF Unknown
  <2>10. CASE u \in Executed
    <3>1. Issuing(q) /\ Runs(q2) /\ q2.when = q.when + q.exec_lat /\ ~Issuing(q2) /\ ~Over(q2)
      BY <2>7, <2>10 DEF Executes, Issuing, Runs, Over
    <3>2. ~Withdrawn(d)
      BY <2>6, <2>10, ExecuteUnits
    <3>3. reg'[d].ready = q2.when
      BY <2>4, <2>8, <3>1, <3>2 DEF Announced
    <3>4. Announced(rob[t][i].class, q2, reg'[d])
      BY <3>1, <3>3 DEF Announced
    <3> QED
      BY <2>1, <2>3, <3>4
  <2>11. CASE u \notin Executed /\ u \in Replayed \cup Flushed
    <3>1. ~Issuing(q2) /\ ~Over(q2) /\ ~Runs(q2)
      BY <2>7, <2>11 DEF Executes, Fresh, Waits, Issuing, Runs, Over
    <3>2. Unknown(reg'[d])
      <4>1. CASE u \in Replayed
        BY <2>6, <2>8, <4>1
      <4>2. CASE u \in Flushed
        <5>1. IsReady(q)
          BY <2>5, <4>2, ExecuteUnits
        <5>2. Unknown(reg[d])
          BY <2>4, <5>1 DEF Announced, IsReady, Issuing, Runs, Over
        <5> QED
          BY <2>9, <5>2
      <4> QED
        BY <2>11, <4>1, <4>2
    <3>3. Announced(rob[t][i].class, q2, reg'[d])
      BY <3>1, <3>2 DEF Announced
    <3> QED
      BY <2>1, <2>3, <3>3
  <2>12. CASE u \notin Executed /\ u \notin Replayed \cup Flushed
    <3>1. q2 = q /\ ~Withdrawn(d)
      BY <2>6, <2>7, <2>12 DEF Executes
    <3>2. Settled(reg[d]) => Settled(reg'[d])
      BY <2>4, <2>8, <3>1, SettledAdjusted
    <3>3. Announced(rob[t][i].class, q2, reg'[d])
      BY <2>4, <2>8, <2>9, <3>1, <3>2 DEF Announced
    <3> QED
      BY <2>1, <2>3, <3>3
  <2> QED
    BY <2>10, <2>11, <2>12
<1>4. ASSUME NEW r \in Regs, ~IsResult(r) PROVE Settled(reg'[r])
  <2>1. ~Withdrawn(r)
    BY <1>2, <1>4, WithdrawnFacts DEF IsResult
  <2>2. Settled(reg[r]) /\ reg[r].ready \in Times
    BY <1>2, <1>4 DEF Timed, Shapes
  <2>3. /\ reg'[r].ready = reg[r].ready
        /\ reg'[r].spec_ready = TrueTime(reg[r].ready) \/ reg'[r].spec_ready = reg[r].spec_ready
    BY <2>1, ExecuteRegs
  <2> QED
    BY <2>2, <2>3, SettledAdjusted
<1>5. ASSUME NEW t \in Threads, NEW i \in DOMAIN rob[t], NEW p \in {"op", "mem"},
             IsReady(rob'[t][i][p]), NEW r \in SrcsOf(rob[t][i], p)
      PROVE  reg'[r].spec_ready <= 0
  <2>1. PICK u : u = <<t, i, p>>
    OBVIOUS
  <2>2. Executes(rob[t][i], p, rob[t][i][p], rob'[t][i][p],
                 u \in Executed, u \in Replayed \cup Flushed)
    BY <1>1, <2>1
  <2>3. IsReady(rob[t][i][p]) /\ u \notin Executed /\ u \notin Replayed \cup Flushed
    BY <1>5, <2>2 DEF Executes, Runs, Fresh, Waits, IsReady
  <2>4. ~Replays(t)
    <3>1. u \in Units /\ PartOf(u) = rob[t][i][p] /\ u[1] = t
      BY <2>1, <2>3, UnitFacts, OnFacts, ZenonT(60) DEF On
    <3> QED
      BY <2>3, <3>1, ExecuteUnits
  <2>5. reg[r].spec_ready <= 0 /\ r \in Regs /\ r \in {rob[t][i].src[1], rob[t][i].src[2]} \ {NoReg}
    BY <1>2, <2>3, OperandFacts DEF ReadyHolds, OperandsSpecReady
  <2>6. ~Withdrawn(r)
    <3> SUFFICES ASSUME Withdrawn(r) PROVE FALSE
      OBVIOUS
    <3>1. PICK t2 \in Threads : Replays(t2) /\ \E j \in DOMAIN rob[t2] : rob[t2][j].dest = r
      BY <1>2, <2>5, WithdrawnFacts
    <3>2. t2 = t
      BY <1>2, <2>5, <3>1 DEF Private
    <3> QED
      BY <2>4, <3>1, <3>2
  <2>7. CASE ~Adjusted(r)
    BY <2>5, <2>6, <2>7, ExecuteRegs
  <2>8. CASE Adjusted(r)
    <3>1. PICK t2 \in Threads : Replays(t2) /\ r \in Range(At(Culprit(t2)).src)
      BY <2>8 DEF Adjusted
    <3>2. PICK c : c = Culprit(t2) /\ c \in TooEarly(t2)
      BY <3>1, CulpritFacts
    <3>3. c \in Units /\ c[1] = t2
      BY <3>2 DEF TooEarly, Due, On
    <3>4. c[2] \in DOMAIN rob[t2] /\ At(c) = rob[t2][c[2]]
      BY <3>3, UnitFacts DEF At
    <3>5. r \in {rob[t2][c[2]].src[1], rob[t2][c[2]].src[2]} \ {NoReg}
      <4>1. PICK s1, s2 : rob[t2][c[2]].src = <<s1, s2>>
        BY <3>4, EntryFacts DEF EntryTypes
      <4>2. Range(<<s1, s2>>) = {s1, s2}
        <5>1. DOMAIN <<s1, s2>> = {1, 2}
          OBVIOUS
        <5> QED
          BY <5>1 DEF Range
      <4> QED
        BY <2>5, <3>1, <3>2, <3>4, <4>1, <4>2
    <3>6. ~IsResult(r)
      <4> SUFFICES ASSUME NEW t3 \in Threads, NEW j \in DOMAIN rob[t3], rob[t3][j].dest = r
                   PROVE  FALSE
        BY DEF IsResult
      <4>1. t3 = t
        BY <1>2, <2>5 DEF Private
      <4>2. t3 = t2
        BY <1>2, <3>4, <3>5 DEF Private
      <4> QED
        BY <2>4, <3>1, <4>1, <4>2
    <3>7. Settled(reg[r]) /\ reg[r].ready \in Times
      BY <1>2, <2>5, <3>6 DEF Timed, Shapes
    <3>8. reg'[r].spec_ready = TrueTime(reg[r].ready)
      BY <2>5, <2>6, <2>8, ExecuteRegs
    <3>9. CASE reg[r].ready <= 0
      <4>1. reg[r].ready # Never
        BY <3>9, TimeFacts
      <4>2. /\ TrueTime(reg[r].ready) =
                 IF reg[r].ready - Delay >= Past THEN reg[r].ready - Delay ELSE Past
            /\ reg[r].ready \in Int
        <5>1. reg[r].ready \in Past .. MaxTime
          BY <3>7, <4>1 DEF Times
        <5> QED
          BY <3>7, <4>1, <5>1, TrueTimeFacts, TimeFacts
      <4>3. PICK x \in Int : x = reg[r].ready /\ x <= 0
        BY <3>9, <4>2
      <4>4. (IF x - Delay >= Past THEN x - Delay ELSE Past) <= 0
        BY <4>3, TimeFacts
      <4> QED
        BY <3>8, <4>2, <4>3, <4>4
    <3>10. CASE ~(reg[r].ready <= 0)
      BY <2>5, <3>7, <3>8, <3>10 DEF Settled
    <3> QED
      BY <3>9, <3>10
  <2> QED
    BY <2>7, <2>8
<1> QED
  BY <1>1, <1>2, <1>3, <1>4, <1>5, RegsInPlace

(* A cycle passes.                                                         *)
LEMMA SettledLater ==
  ASSUME NEW v, NEW w, v.ready \in Times, v.spec_ready \in Times, Settled(v),
         w.ready = Later(v.ready), w.spec_ready = Later(v.spec_ready)
  PROVE  Settled(w)
<1>1. v.ready # Never
  BY TimeFacts DEF Settled
<1>2. PICK x \in Past .. MaxTime : x = v.ready
  BY <1>1 DEF Times
<1>3. x \in Times /\ x # Never /\ x \in Int
  BY <1>1, <1>2, TimeFacts DEF Times
<1>4. Later(x) = (IF x = Past THEN Past ELSE x - 1) /\ Later(x) # Never
  BY <1>3, LaterFacts, TimeFacts
<1>5. CASE x <= 0
  <2>1. Later(x) <= 0
    BY <1>3, <1>4, <1>5, TimeFacts
  <2> QED
    BY <1>2, <2>1 DEF Settled
<1>6. CASE ~(x <= 0)
  <2>1. Later(x) = x - 1 /\ x - 1 \in Times /\ x - 1 # Never
    <3>1. x # Past /\ x - 1 \in 0 .. MaxTime
      BY <1>2, <1>3, <1>6, TimeFacts
    <3> QED
      BY <1>4, <3>1, TimeFacts DEF Times
  <2>2. v.spec_ready = TrueTime(x)
    BY <1>2, <1>6 DEF Settled
  <2>3. PICK y : y = TrueTime(x)
    OBVIOUS
  <2>4. y \in Times /\ y # Never /\ y = (IF x - Delay >= Past THEN x - Delay ELSE Past)
    BY <1>3, <2>3, TrueTimeFacts, TimeFacts
  <2>5. Later(y) = IF y = Past THEN Past ELSE y - 1
    BY <2>4, LaterFacts
  <2>6. TrueTime(x - 1) = IF x - 1 - Delay >= Past THEN x - 1 - Delay ELSE Past
    BY <2>1, TrueTimeFacts
  <2>7. Later(y) = TrueTime(x - 1)
    BY <1>3, <2>4, <2>5, <2>6, TimeFacts
  <2> QED
    BY <1>2, <2>1, <2>2, <2>3, <2>7 DEF Settled
<1> QED
  BY <1>5, <1>6

LEMMA EndCycleRegs ==
  ASSUME Shapes, RegsInv, EndCycle
  PROVE  RegsInv'
<1>1. /\ InPlace
      /\ \A t \in Threads : \A i \in DOMAIN rob[t] : \A p \in {"op", "mem"} :
           Ages(rob[t][i][p], rob'[t][i][p])
  BY EndCycleMoves
<1>2. stage = "register_rename" /\ OneWriter /\ Private /\ Timed /\ ReadyHolds
  BY DEF EndCycle, RegsInv
<1>3. \A r \in Regs : /\ reg'[r].ready = Later(reg[r].ready)
                      /\ reg'[r].spec_ready = Later(reg[r].spec_ready)
                      /\ reg[r].ready \in Times /\ reg[r].spec_ready \in Times
  BY DEF EndCycle, Shapes
<1>4. ASSUME NEW t \in Threads, NEW i \in DOMAIN rob[t], rob[t][i].dest # NoReg
      PROVE  Announced(rob[t][i].class, rob'[t][i][ProducingPart(rob[t][i])],
                       reg'[rob[t][i].dest])
  <2>1. PICK p \in {"op", "mem"} : p = ProducingPart(rob[t][i])
    BY <1>2, <1>4, ProducerIs
  <2>2. PICK q, q2, v, w : /\ q = rob[t][i][p] /\ q2 = rob'[t][i][p]
                           /\ v = reg[rob[t][i].dest] /\ w = reg'[rob[t][i].dest]
    OBVIOUS
  <2>3. /\ Announced(rob[t][i].class, q, v) /\ w.ready = Later(v.ready)
        /\ w.spec_ready = Later(v.spec_ready) /\ v.ready \in Times /\ v.spec_ready \in Times
    BY <1>2, <1>3, <1>4, <2>1, <2>2, ProducerIs
  <2>4. Ages(q, q2) /\ InTime(q, "register_rename") /\ q \in PartTypes
    BY <1>1, <1>2, <2>2, PartInTime
  <2>5. /\ Issuing(q2) <=> Issuing(q)
        /\ Runs(q2) <=> Runs(q)
        /\ Over(q2) <=> Over(q)
    BY <2>4 DEF Ages, SameState, Issuing, Runs, Over
  <2>6. Issuing(q) => w.ready = q2.when + q2.exec_lat
    <3> SUFFICES ASSUME Issuing(q) PROVE w.ready = q2.when + q2.exec_lat
      OBVIOUS
    <3>1. PICK x, l \in Int : x = q.when /\ l = q.exec_lat
      BY <2>4, TimeFacts DEF InTime, IssueFrom
    <3>2. x \in 1 .. Delay /\ l \in 1 .. MaxTime - Delay
      BY <2>4, <3>1 DEF InTime, IssueFrom
    <3>3. x \in 1 .. MaxTime /\ x + l \in 1 .. MaxTime
      BY <3>1, <3>2, TimeFacts
    <3>4. x \in Times /\ x # Never /\ x # Past
          /\ x + l \in Times /\ x + l # Never /\ x + l # Past
      BY <3>3, TimeFacts DEF Times
    <3>5. Later(x) = x - 1 /\ Later(x + l) = x + l - 1
      BY <3>4, LaterFacts
    <3>6. q2.when = x - 1 /\ q2.exec_lat = l
      BY <2>4, <3>1, <3>5 DEF Ages, Fresh, Issuing
    <3>7. w.ready = x + l - 1
      BY <2>3, <3>1, <3>5 DEF Announced
    <3> QED
      BY <3>1, <3>6, <3>7
  <2>7. Runs(q) => w.ready = q2.when
    BY <2>3, <2>4 DEF Announced, Ages, Fresh, Runs
  <2>8. Over(q) => Settled(w) /\ (rob[t][i].class # "store_cond" => w.ready <= 0)
    <3> SUFFICES ASSUME Over(q)
                 PROVE  Settled(w) /\ (rob[t][i].class # "store_cond" => w.ready <= 0)
      OBVIOUS
    <3>1. Settled(w)
      BY <2>3, SettledLater DEF Announced
    <3>2. ASSUME v.ready <= 0 PROVE w.ready <= 0
      <4>1. v.ready # Never
        BY <3>2, TimeFacts
      <4>2. /\ v.ready \in Past .. MaxTime
            /\ w.ready = IF v.ready = Past THEN Past ELSE v.ready - 1
        BY <2>3, <4>1, LaterFacts
      <4>3. PICK x \in Int : x = v.ready
        BY <4>2, TimeFacts
      <4> QED
        BY <3>2, <4>2, <4>3, TimeFacts
    <3> QED
      BY <2>3, <3>1, <3>2 DEF Announced
  <2>9. Unknown(v) => Unknown(w)
    BY <2>3 DEF Unknown, Later
  <2>10. Announced(rob[t][i].class, q2, w)
    BY <2>3, <2>5, <2>6, <2>7, <2>8, <2>9 DEF Announced
  <2> QED
    BY <2>1, <2>2, <2>10
<1>5. \A r \in Regs : ~IsResult(r) => Settled(reg'[r])
  BY <1>2, <1>3, SettledLater DEF Timed
<1>6. ASSUME NEW t \in Threads, NEW i \in DOMAIN rob[t], NEW p \in {"op", "mem"},
             IsReady(rob'[t][i][p]), NEW r \in SrcsOf(rob[t][i], p)
      PROVE  reg'[r].spec_ready <= 0
  <2>1. IsReady(rob[t][i][p])
    <3>1. Ages(rob[t][i][p], rob'[t][i][p])
      BY <1>1
    <3> QED
      BY <1>6, <3>1 DEF Ages, SameState, IsReady
  <2>2. reg[r].spec_ready <= 0 /\ r \in Regs
    BY <1>2, <2>1, OperandFacts DEF ReadyHolds, OperandsSpecReady
  <2>3. reg[r].spec_ready # Never /\ reg[r].spec_ready \in Times
    BY <1>3, <2>2, TimeFacts
  <2>4. /\ reg[r].spec_ready \in Past .. MaxTime
        /\ reg'[r].spec_ready = IF reg[r].spec_ready = Past THEN Past ELSE reg[r].spec_ready - 1
    BY <1>3, <2>2, <2>3, LaterFacts
  <2>5. PICK x \in Int : x = reg[r].spec_ready
    BY <2>4, TimeFacts
  <2> QED
    BY <2>2, <2>4, <2>5, TimeFacts
<1> QED
  BY <1>1, <1>2, <1>4, <1>5, <1>6, RegsInPlace

(* The entries that stay move up by one place.                             *)
LEMMA CommitShifts ==
  ASSUME Shapes, NEW t \in Threads, Commit(t)
  PROVE  \E d \in [Threads -> {0, 1}] :
           /\ d[t] = 1 /\ \A u \in Threads \ {t} : d[u] = 0
           /\ \A u \in Threads : \A i \in DOMAIN rob'[u] :
                /\ i \in Nat /\ i + d[u] \in DOMAIN rob[u]
                /\ rob'[u][i] = rob[u][i + d[u]]
           /\ \A u \in Threads : \A k \in DOMAIN rob[u] :
                \/ u = t /\ k = 1
                \/ k - d[u] \in DOMAIN rob'[u] /\ rob'[u][k - d[u]] = rob[u][k]
<1> DEFINE D == [u \in Threads |-> IF u = t THEN 1 ELSE 0]
<1>1. D \in [Threads -> {0, 1}] /\ D[t] = 1 /\ \A u \in Threads \ {t} : D[u] = 0
  OBVIOUS
<1>2. /\ DOMAIN rob'[t] = 1 .. Len(rob[t]) - 1
      /\ \A i \in DOMAIN rob'[t] : i + 1 \in DOMAIN rob[t] /\ rob'[t][i] = rob[t][i + 1]
      /\ \A u \in Threads \ {t} : rob'[u] = rob[u]
  BY CommitMoves
<1>3. \A u \in Threads : /\ DOMAIN rob[u] = 1 .. Len(rob[u])
                         /\ Len(rob[u]) \in Nat
  BY DEF Shapes
<1>4. ASSUME NEW u \in Threads, NEW i \in DOMAIN rob'[u]
      PROVE  /\ i \in Nat /\ i + D[u] \in DOMAIN rob[u]
             /\ rob'[u][i] = rob[u][i + D[u]]
  <2>1. CASE u = t
    <3>1. D[u] = 1 /\ i \in Nat
      BY <1>2, <1>3, <2>1
    <3> QED
      BY <1>2, <2>1, <3>1
  <2>2. CASE u # t
    <3>1. D[u] = 0 /\ rob'[u] = rob[u] /\ i \in Nat
      BY <1>2, <1>3, <2>2
    <3> QED
      BY <3>1
  <2> QED
    BY <2>1, <2>2
<1>5. ASSUME NEW u \in Threads, NEW k \in DOMAIN rob[u]
      PROVE  \/ u = t /\ k = 1
             \/ k - D[u] \in DOMAIN rob'[u] /\ rob'[u][k - D[u]] = rob[u][k]
  <2>1. k \in Nat
    BY <1>3
  <2>2. CASE u = t /\ k # 1
    <3>1. D[u] = 1 /\ k - 1 \in DOMAIN rob'[t] /\ (k - 1) + 1 = k
      BY <1>2, <1>3, <2>2
    <3> QED
      BY <1>2, <2>2, <3>1
  <2>3. CASE u # t
    <3>1. D[u] = 0 /\ rob'[u] = rob[u] /\ k - 0 = k
      BY <1>2, <2>1, <2>3
    <3> QED
      BY <3>1
  <2> QED
    BY <2>2, <2>3
<1> HIDE DEF D
<1> QED
  BY <1>1, <1>4, <1>5

LEMMA CommitRegs ==
  ASSUME Shapes, RegsInv, NEW t \in Threads, Commit(t)
  PROVE  RegsInv'
<1>1. PICK d \in [Threads -> {0, 1}] :
           /\ \A u \in Threads : \A i \in DOMAIN rob'[u] :
                /\ i \in Nat /\ i + d[u] \in DOMAIN rob[u]
                /\ rob'[u][i] = rob[u][i + d[u]]
           /\ \A u \in Threads : \A k \in DOMAIN rob[u] :
                \/ u = t /\ k = 1
                \/ k - d[u] \in DOMAIN rob'[u] /\ rob'[u][k - d[u]] = rob[u][k]
  BY CommitShifts
<1>2. reg' = reg /\ OneWriter /\ Private /\ Timed /\ ReadyHolds
  BY DEF Commit, RegsInv
<1>3. OneWriter'
  <2> SUFFICES ASSUME NEW t1 \in Threads, NEW t2 \in Threads,
                      NEW i \in DOMAIN rob'[t1], NEW j \in DOMAIN rob'[t2],
                      rob'[t1][i].dest = rob'[t2][j].dest, rob'[t1][i].dest # NoReg
               PROVE  t1 = t2 /\ i = j
    BY DEF OneWriter
  <2>1. PICK a, b : a = i + d[t1] /\ b = j + d[t2]
    OBVIOUS
  <2>2. /\ a \in DOMAIN rob[t1] /\ rob'[t1][i] = rob[t1][a] /\ i \in Nat
        /\ b \in DOMAIN rob[t2] /\ rob'[t2][j] = rob[t2][b] /\ j \in Nat
    BY <1>1, <2>1
  <2>3. t1 = t2 /\ a = b
    BY <1>2, <2>2 DEF OneWriter
  <2>4. d[t1] \in {0, 1}
    OBVIOUS
  <2> QED
    BY <2>1, <2>2, <2>3, <2>4
<1>4. Private'
  <2> SUFFICES ASSUME NEW t1 \in Threads, NEW t2 \in Threads,
                      NEW i \in DOMAIN rob'[t1], NEW j \in DOMAIN rob'[t2],
                      rob'[t2][j].dest \in {rob'[t1][i].src[1], rob'[t1][i].src[2]} \ {NoReg}
               PROVE  t1 = t2 /\ j < i
    BY DEF Private
  <2>1. PICK a, b : a = i + d[t1] /\ b = j + d[t2]
    OBVIOUS
  <2>2. /\ a \in DOMAIN rob[t1] /\ rob'[t1][i] = rob[t1][a] /\ i \in Nat
        /\ b \in DOMAIN rob[t2] /\ rob'[t2][j] = rob[t2][b] /\ j \in Nat
    BY <1>1, <2>1
  <2>3. t1 = t2 /\ b < a
    BY <1>2, <2>2 DEF Private
  <2>4. d[t1] \in {0, 1}
    OBVIOUS
  <2> QED
    BY <2>1, <2>2, <2>3, <2>4
<1>5. Timed'
  <2>1. ASSUME NEW u \in Threads, NEW i \in DOMAIN rob'[u], rob'[u][i].dest # NoReg
        PROVE  Announced(rob'[u][i].class, Producer(rob'[u][i]), reg'[rob'[u][i].dest])
    BY <1>1, <1>2, <2>1 DEF Timed
  <2>2. ASSUME NEW r \in Regs, ~(\E u \in Threads : \E i \in DOMAIN rob'[u] : rob'[u][i].dest = r)
        PROVE  Settled(reg'[r])
    <3>1. CASE ~IsResult(r)
      BY <1>2, <3>1 DEF Timed
    <3>2. CASE IsResult(r)
      <4>1. PICK u \in Threads : \E k \in DOMAIN rob[u] : rob[u][k].dest = r
        BY <3>2 DEF IsResult
      <4>9. PICK k \in DOMAIN rob[u] : rob[u][k].dest = r
        BY <4>1
      <4>2. u = t /\ k = 1
        BY <1>1, <2>2, <4>9
      <4>3. 1 \in DOMAIN rob[t] /\ Done(rob[t][1]) /\ rob[t][1].dest = r /\ r # NoReg
        BY <4>9, <4>2, CommitMoves, SchedulerAssumption DEF NoReg
      <4>4. PICK e, q : e = rob[t][1] /\ q = Producer(e)
        OBVIOUS
      <4>5. PICK p \in {"op", "mem"} : p = ProducingPart(e) /\ (p = "mem" => IsMem(e))
        BY DEF ProducingPart
      <4>6. q = e[p] /\ q.completed
        BY <4>3, <4>4, <4>5 DEF Producer, Done
      <4>7. Over(q)
        <5>1. AnyState(q)
          BY <4>3, <4>4, <4>6, PartInTime
        <5> QED
          BY <4>6, <5>1 DEF AnyState, Fresh, Waits, IsReady, Issuing, Runs, Over
      <4>8. Announced(e.class, q, reg[r])
        BY <1>2, <4>3, <4>4 DEF Timed
      <4> QED
        BY <1>2, <4>7, <4>8 DEF Announced
    <3> QED
      BY <3>1, <3>2
  <2> QED
    BY <2>1, <2>2 DEF Timed, IsResult
<1>6. ReadyHolds'
  BY <1>1, <1>2 DEF ReadyHolds, OperandsSpecReady
<1> QED
  BY <1>3, <1>4, <1>5, <1>6 DEF RegsInv

(* A new instruction is placed by what its operands say.                   *)
LEMMA DispatchRegs ==
  ASSUME Shapes, RegsInv, NEW t \in Threads, Dispatch(t)
  PROVE  RegsInv'
<1>1. PICK i, s, f : DispatchesAs(t, i, s, f)
  BY DispatchMoves
<1>2. PICK e : e = rob[t][i] /\ i \in DOMAIN rob[t] /\ ~e.dispatched
  BY <1>1 DEF DispatchesAs
<1>3. /\ f \in EntryTypes /\ f.class = e.class /\ f.dest = e.dest /\ f.src = e.src
      /\ PlacedAs(e, "op", f.op)
      /\ IF IsStore(e) THEN PlacedAs(e, "mem", f.mem) ELSE f.mem = e.mem
      /\ rob' = [rob EXCEPT ![t][i] = f]
  BY <1>1, <1>2 DEF DispatchesAs
<1>4. /\ DOMAIN rob'[t] = DOMAIN rob[t]
      /\ rob'[t][i] = f /\ \A j \in DOMAIN rob[t] \ {i} : rob'[t][j] = rob[t][j]
      /\ \A u \in Threads \ {t} : rob'[u] = rob[u]
  BY <1>2, <1>3, ReplacedEntry
<1>5. reg' = reg /\ OneWriter /\ Private /\ Timed /\ ReadyHolds
  BY DEF Dispatch, RegsInv
<1>6. \A u \in Threads : /\ DOMAIN rob'[u] = DOMAIN rob[u]
                         /\ \A j \in DOMAIN rob[u] :
                              /\ rob'[u][j].dest = rob[u][j].dest
                              /\ rob'[u][j].src = rob[u][j].src
                              /\ rob'[u][j].class = rob[u][j].class
  BY <1>2, <1>3, <1>4
<1>7. e \in EntryTypes /\ InOrder(e) /\ Fresh(e.op) /\ Fresh(e.mem)
  BY <1>2, EntryFacts DEF InOrder
<1>8. ASSUME NEW u \in Threads, NEW j \in DOMAIN rob'[u], rob'[u][j].dest # NoReg
      PROVE  Announced(rob'[u][j].class, Producer(rob'[u][j]), reg'[rob'[u][j].dest])
  <2>1. CASE u = t /\ j = i
    <3>1. Announced(e.class, Producer(e), reg[e.dest]) /\ e.dest = f.dest
      BY <1>2, <1>3, <1>4, <1>5, <1>8, <2>1 DEF Timed
    <3>2. \A q : Fresh(q) => ~Issuing(q) /\ ~Runs(q) /\ ~Over(q)
      BY DEF Fresh, Issuing, Runs, Over
    <3>3. \A q : IsReady(q) \/ Waits(q) => ~Issuing(q) /\ ~Runs(q) /\ ~Over(q)
      BY DEF IsReady, Waits, Issuing, Runs, Over
    <3>4. Fresh(Producer(e))
      BY <1>7 DEF Producer, ProducingPart
    <3>5. Unknown(reg[e.dest])
      BY <3>1, <3>2, <3>4 DEF Announced
    <3>6. IsReady(Producer(f)) \/ Waits(Producer(f)) \/ Fresh(Producer(f))
      <4>1. IsMem(f) <=> IsMem(e)
        BY <1>3 DEF IsMem
      <4> QED
        BY <1>3, <1>7, <4>1 DEF Producer, ProducingPart, PlacedAs
    <3>7. Announced(f.class, Producer(f), reg[f.dest])
      BY <3>1, <3>2, <3>3, <3>5, <3>6 DEF Announced
    <3> QED
      BY <1>4, <1>5, <2>1, <3>7
  <2>2. CASE ~(u = t /\ j = i)
    <3>1. rob'[u][j] = rob[u][j] /\ j \in DOMAIN rob[u]
      BY <1>4, <1>6, <2>2
    <3> QED
      BY <1>5, <1>8, <3>1 DEF Timed
  <2> QED
    BY <2>1, <2>2
<1>9. ASSUME NEW u \in Threads, NEW j \in DOMAIN rob'[u], NEW p \in {"op", "mem"},
             IsReady(rob'[u][j][p])
      PROVE  \A r \in SrcsOf(rob'[u][j], p) : reg'[r].spec_ready <= 0
  <2>1. CASE u = t /\ j = i
    <3>1. SrcsOf(f, p) = SrcsOf(e, p)
      BY <1>3 DEF SrcsOf, IsMem
    <3>2. IsReady(f[p])
      BY <1>4, <1>9, <2>1
    <3>3. PlacedAs(e, p, f[p])
      BY <1>3, <1>7, <3>2 DEF Fresh, IsReady
    <3>4. OperandsSpecReady(e, p)
      BY <3>2, <3>3 DEF PlacedAs, Waits, IsReady
    <3> QED
      BY <1>4, <1>5, <2>1, <3>1, <3>4 DEF OperandsSpecReady
  <2>2. CASE ~(u = t /\ j = i)
    <3>1. rob'[u][j] = rob[u][j] /\ j \in DOMAIN rob[u]
      BY <1>4, <1>6, <2>2
    <3> QED
      BY <1>5, <1>9, <3>1 DEF ReadyHolds, OperandsSpecReady
  <2> QED
    BY <2>1, <2>2
<1>10. OneWriter' /\ Private'
  <2>1. OneWriter'
    BY <1>5, <1>6 DEF OneWriter
  <2>2. Private'
    BY <1>5, <1>6 DEF Private
  <2> QED
    BY <2>1, <2>2
<1>11. \A r \in Regs : ~IsResult(r)' => Settled(reg'[r])
  BY <1>5, <1>6 DEF IsResult, Timed
<1>12. Timed'
  BY <1>8, <1>11 DEF Timed
<1>13. ReadyHolds'
  BY <1>9 DEF ReadyHolds, OperandsSpecReady
<1> QED
  BY <1>10, <1>12, <1>13 DEF RegsInv

(* The result register of a new instruction was nobody's; what it reads is *)
(* a result of its thread or nobody's.                                     *)
LEMMA NewOperands ==
  ASSUME Shapes, OneWriter, NEW t \in Threads, NEW f, RenamesAs(t, f)
  PROVE  /\ f.dest # NoReg => \A u \in Threads : \A j \in DOMAIN rob[u] :
              f.dest \notin {rob[u][j].dest, rob[u][j].src[1], rob[u][j].src[2]}
         /\ f.dest # NoReg => f.dest \in Regs /\ f.dest \notin {f.src[1], f.src[2]}
         /\ \A u \in Threads : \A j \in DOMAIN rob[u] :
              rob[u][j].dest \in {f.src[1], f.src[2]} \ {NoReg} => u = t
<1>1. ASSUME f.dest # NoReg, NEW u \in Threads, NEW j \in DOMAIN rob[u]
      PROVE  f.dest \notin {rob[u][j].dest, rob[u][j].src[1], rob[u][j].src[2]}
  <2>1. f.dest \notin InUse
    BY <1>1 DEF RenamesAs
  <2>2. f.dest # rob[u][j].dest
    BY <1>1, <2>1 DEF InUse, Dests
  <2>3. PICK s1, s2 : rob[u][j].src = <<s1, s2>>
    BY EntryFacts DEF EntryTypes
  <2>4. Range(<<s1, s2>>) = {s1, s2}
    <3>1. DOMAIN <<s1, s2>> = {1, 2}
      OBVIOUS
    <3> QED
      BY <3>1 DEF Range
  <2>5. f.dest \notin Range(rob[u][j].src)
    BY <2>1 DEF InUse
  <2> QED
    BY <2>2, <2>3, <2>4, <2>5
<1>2. ASSUME NEW u \in Threads, NEW j \in DOMAIN rob[u], NEW s \in Readable(t),
             rob[u][j].dest = s, s # NoReg
      PROVE  u = t
  <2>1. s \in Dests(u)
    BY <1>2 DEF Dests
  <2>2. s \in Dests(t)
    BY <1>2, <2>1 DEF Readable
  <2>3. PICK k \in DOMAIN rob[t] : rob[t][k].dest = s
    BY <2>2 DEF Dests
  <2> QED
    BY <1>2, <2>3 DEF OneWriter
<1>3. f.src[1] \in Readable(t) /\ f.src[2] \in Readable(t)
  BY DEF RenamesAs
<1>4. f.dest # NoReg => f.dest \in Regs /\ f.dest \notin {f.src[1], f.src[2]}
  BY DEF RenamesAs
<1> QED
  BY <1>1, <1>2, <1>3, <1>4

LEMMA RenameRegs ==
  ASSUME Shapes, RegsInv, NEW t \in Threads, Rename(t)
  PROVE  RegsInv'
<1>1. PICK f : RenamesAs(t, f)
  BY RenameMoves
<1>2. PICK m : m = Len(rob[t]) + 1
  OBVIOUS
<1>3. /\ f \in EntryTypes /\ Fresh(f.op) /\ Fresh(f.mem)
      /\ rob' = [rob EXCEPT ![t] = Append(@, f)]
  BY <1>1 DEF RenamesAs
<1>4. /\ Len(rob[t]) \in Nat /\ DOMAIN rob[t] = 1 .. Len(rob[t])
      /\ m \in DOMAIN rob'[t] /\ rob'[t][m] = f
      /\ \A j \in DOMAIN rob[t] : j \in DOMAIN rob'[t] /\ rob'[t][j] = rob[t][j]
      /\ \A j \in DOMAIN rob'[t] : j \in DOMAIN rob[t] \/ j = m
      /\ \A u \in Threads \ {t} : rob'[u] = rob[u]
  <2>1. /\ Len(rob[t]) \in Nat /\ DOMAIN rob[t] = 1 .. Len(rob[t])
        /\ DOMAIN rob'[t] = 1 .. Len(rob[t]) + 1
        /\ rob'[t][Len(rob[t]) + 1] = f
    BY <1>3, AppendedEntry
  <2>2. m \in DOMAIN rob'[t] /\ rob'[t][m] = f
    BY <1>2, <2>1
  <2>3. /\ \A j \in DOMAIN rob[t] : j \in DOMAIN rob'[t] /\ rob'[t][j] = rob[t][j]
        /\ \A j \in DOMAIN rob'[t] : j \in DOMAIN rob[t] \/ j = Len(rob[t]) + 1
        /\ \A u \in Threads \ {t} : rob'[u] = rob[u]
    BY <1>3, AppendedEntry
  <2> QED
    BY <1>2, <2>1, <2>2, <2>3
<1>5. \A u \in Threads : \A j \in DOMAIN rob'[u] :
        \/ u = t /\ j = m /\ rob'[u][j] = f
        \/ j \in DOMAIN rob[u] /\ rob'[u][j] = rob[u][j]
  BY <1>4
<1>6. \A u \in Threads : \A j \in DOMAIN rob[u] :
        j \in DOMAIN rob'[u] /\ rob'[u][j] = rob[u][j]
  BY <1>4
<1>7. m \notin DOMAIN rob[t] /\ \A j \in DOMAIN rob[t] : j < m
  BY <1>2, <1>4
<1>8. OneWriter /\ Private /\ Timed /\ ReadyHolds
  BY DEF RegsInv
<1>9. /\ f.dest # NoReg => \A u \in Threads : \A j \in DOMAIN rob[u] :
              f.dest \notin {rob[u][j].dest, rob[u][j].src[1], rob[u][j].src[2]}
      /\ f.dest # NoReg => f.dest \in Regs /\ f.dest \notin {f.src[1], f.src[2]}
      /\ \A u \in Threads : \A j \in DOMAIN rob[u] :
              rob[u][j].dest \in {f.src[1], f.src[2]} \ {NoReg} => u = t
  BY <1>1, <1>8, NewOperands
<1>10. \A r \in Regs : r # f.dest => reg'[r] = reg[r]
  BY <1>1 DEF RenamesAs, Shapes
<1>11. f.dest # NoReg => Unknown(reg'[f.dest])
  BY <1>1, <1>9 DEF RenamesAs, Shapes, Unknown, NoReg
<1>12. OneWriter'
  <2> SUFFICES ASSUME NEW t1 \in Threads, NEW t2 \in Threads,
                      NEW i \in DOMAIN rob'[t1], NEW j \in DOMAIN rob'[t2],
                      rob'[t1][i].dest = rob'[t2][j].dest, rob'[t1][i].dest # NoReg
               PROVE  t1 = t2 /\ i = j
    BY DEF OneWriter
  <2> QED
    BY <1>5, <1>8, <1>9 DEF OneWriter
<1>13. Private'
  <2> SUFFICES ASSUME NEW t1 \in Threads, NEW t2 \in Threads,
                      NEW i \in DOMAIN rob'[t1], NEW j \in DOMAIN rob'[t2],
                      rob'[t2][j].dest \in {rob'[t1][i].src[1], rob'[t1][i].src[2]} \ {NoReg}
               PROVE  t1 = t2 /\ j < i
    BY DEF Private
  <2>1. CASE j \in DOMAIN rob[t2] /\ rob'[t2][j] = rob[t2][j]
    <3>1. CASE i \in DOMAIN rob[t1] /\ rob'[t1][i] = rob[t1][i]
      BY <1>8, <2>1, <3>1 DEF Private
    <3>2. CASE t1 = t /\ i = m /\ rob'[t1][i] = f
      BY <1>7, <1>9, <2>1, <3>2
    <3> QED
      BY <1>5, <3>1, <3>2
  <2>2. CASE t2 = t /\ j = m /\ rob'[t2][j] = f
    BY <1>5, <1>9, <2>2
  <2> QED
    BY <1>5, <2>1, <2>2
<1>14. ASSUME NEW u \in Threads, NEW j \in DOMAIN rob'[u], rob'[u][j].dest # NoReg
       PROVE  Announced(rob'[u][j].class, Producer(rob'[u][j]), reg'[rob'[u][j].dest])
  <2>1. CASE u = t /\ j = m /\ rob'[u][j] = f
    <3>1. Fresh(Producer(f))
      BY <1>3 DEF Producer, ProducingPart
    <3>2. ~Issuing(Producer(f)) /\ ~Runs(Producer(f)) /\ ~Over(Producer(f))
      BY <3>1 DEF Fresh, Issuing, Runs, Over
    <3> QED
      BY <1>11, <1>14, <2>1, <3>2 DEF Announced
  <2>2. CASE j \in DOMAIN rob[u] /\ rob'[u][j] = rob[u][j]
    <3>1. Announced(rob[u][j].class, Producer(rob[u][j]), reg[rob[u][j].dest])
      BY <1>8, <1>14, <2>2 DEF Timed
    <3>2. rob[u][j].dest \in Regs /\ rob[u][j].dest # f.dest
      BY <1>9, <1>14, <2>2, OperandFacts
    <3> QED
      BY <1>10, <2>2, <3>1, <3>2
  <2> QED
    BY <1>5, <2>1, <2>2
<1>15. ASSUME NEW r \in Regs, ~IsResult(r)' PROVE Settled(reg'[r])
  <2>1. ~IsResult(r)
    BY <1>6, <1>15 DEF IsResult
  <2>2. r # f.dest
    BY <1>4, <1>15 DEF IsResult
  <2> QED
    BY <1>8, <1>10, <2>1, <2>2 DEF Timed
<1>16. ASSUME NEW u \in Threads, NEW j \in DOMAIN rob'[u], NEW p \in {"op", "mem"},
              IsReady(rob'[u][j][p]), NEW r \in SrcsOf(rob'[u][j], p)
       PROVE  reg'[r].spec_ready <= 0
  <2>1. CASE u = t /\ j = m /\ rob'[u][j] = f
    BY <1>3, <1>16, <2>1 DEF Fresh, IsReady
  <2>2. CASE j \in DOMAIN rob[u] /\ rob'[u][j] = rob[u][j]
    <3>1. reg[r].spec_ready <= 0
      BY <1>8, <1>16, <2>2 DEF ReadyHolds, OperandsSpecReady
    <3>2. r \in Regs /\ r \in {rob[u][j].src[1], rob[u][j].src[2]} \ {NoReg}
      BY <1>16, <2>2, OperandFacts
    <3>3. r # f.dest
      BY <1>9, <2>2, <3>2
    <3> QED
      BY <1>10, <3>1, <3>2, <3>3
  <2> QED
    BY <1>5, <2>1, <2>2
<1>17. Timed'
  BY <1>14, <1>15 DEF Timed
<1>18. ReadyHolds'
  BY <1>16 DEF ReadyHolds, OperandsSpecReady
<1> QED
  BY <1>12, <1>13, <1>17, <1>18 DEF RegsInv

LEMMA InitRegs == Init => RegsInv
<1> SUFFICES ASSUME Init PROVE RegsInv
  OBVIOUS
<1>1. /\ \A t \in Threads : DOMAIN rob[t] = {}
      /\ \A r \in Regs : reg[r].ready = Past
  BY DEF Init
<1>2. \A r \in Regs : Settled(reg[r])
  BY <1>1 DEF Settled, Past
<1>3. OneWriter /\ Private /\ ReadyHolds
  BY <1>1 DEF OneWriter, Private, ReadyHolds
<1>4. Timed
  BY <1>1, <1>2 DEF Timed
<1> QED
  BY <1>3, <1>4 DEF RegsInv

LEMMA RegsStep == Shapes /\ RegsInv /\ [Next]_vars => RegsInv'
<1> SUFFICES ASSUME Shapes, RegsInv, [Next]_vars PROVE RegsInv'
  OBVIOUS
<1>1. ASSUME UNCHANGED <<rob, reg>> PROVE RegsInv'
  <2>1. OneWriter' /\ Private'
    BY <1>1 DEF RegsInv, OneWriter, Private
  <2>2. Timed'
    BY <1>1 DEF RegsInv, Timed, IsResult
  <2>3. ReadyHolds'
    BY <1>1 DEF RegsInv, ReadyHolds, OperandsSpecReady
  <2> QED
    BY <2>1, <2>2, <2>3 DEF RegsInv
<1>2. CASE UNCHANGED vars
  BY <1>1, <1>2 DEF vars
<1>3. CASE EndCommit \/ EndDispatch
  BY <1>1, <1>3 DEF EndCommit, EndDispatch
<1> QED
  BY <1>2, <1>3, CommitRegs, WritebackRegs, LsqRefreshRegs, WakeupRegs, SelectionRegs,
     ExecuteRegsInv, DispatchRegs, RenameRegs, EndCycleRegs DEF Next

(***************************************************************************)
(* What begins to execute has its operands.                                *)
(***************************************************************************)
(* Who reads the result of an instruction begins after it has delivered.   *)
Flow ==
  \A t \in Threads : \A i, j \in DOMAIN rob[t] : \A p \in {"op", "mem"} :
    /\ HasBegun(rob[t][i][p]) /\ ~IsStorePart(rob[t][i], p)
    /\ rob[t][j].dest \in SrcsOf(rob[t][i], p) /\ rob[t][j].class # "store_cond"
    => Over(Producer(rob[t][j]))

Stays == Writeback \/ LsqRefresh \/ Wakeup \/ Selection \/ Execute \/ EndCycle

Proceeds(e, p, q, q2) ==
  /\ Over(q) => Over(q2)
  /\ HasBegun(q) => HasBegun(q2)
  /\ HasBegun(q2) /\ ~IsStorePart(e, p) =>
       HasBegun(q) \/ (stage = "execute" /\ OperandsReady(e, p))

LEMMA InPlaceProceeds ==
  ASSUME Shapes, Stays
  PROVE  /\ InPlace
         /\ \A t \in Threads : \A i \in DOMAIN rob[t] : \A p \in {"op", "mem"} :
              Proceeds(rob[t][i], p, rob[t][i][p], rob'[t][i][p])
<1>1. CASE Writeback
  <2>1. InPlace
    BY <1>1, WritebackMoves
  <2>2. ASSUME NEW t \in Threads, NEW i \in DOMAIN rob[t], NEW p \in {"op", "mem"}
        PROVE  Proceeds(rob[t][i], p, rob[t][i][p], rob'[t][i][p])
    <3>1. Finishes(rob[t][i][p], rob'[t][i][p])
      BY <1>1, WritebackMoves
    <3> QED
      BY <3>1 DEF Finishes, Proceeds, HasBegun, Runs, Over
  <2> QED
    BY <2>1, <2>2
<1>2. CASE LsqRefresh \/ Wakeup
  <2>1. InPlace
    BY <1>2, LsqRefreshMoves, WakeupMoves
  <2>2. ASSUME NEW t \in Threads, NEW i \in DOMAIN rob[t], NEW p \in {"op", "mem"}
        PROVE  Proceeds(rob[t][i], p, rob[t][i][p], rob'[t][i][p])
    <3>1. \E b : Enters(rob[t][i][p], rob'[t][i][p], b)
      BY <1>2, LsqRefreshMoves, WakeupMoves
    <3> QED
      BY <3>1 DEF Enters, Proceeds, HasBegun, Runs, Over, Fresh, Waits, IsReady
  <2> QED
    BY <2>1, <2>2
<1>3. CASE Selection
  <2>1. PICK I, lat, hit : Chosen(I, lat, hit)
    BY <1>3, SelectionChooses
  <2>2. InPlace
    BY <2>1, SelectionMoves
  <2>3. ASSUME NEW t \in Threads, NEW i \in DOMAIN rob[t], NEW p \in {"op", "mem"}
        PROVE  Proceeds(rob[t][i], p, rob[t][i][p], rob'[t][i][p])
    <3>1. Issues(rob[t][i], p, rob[t][i][p], rob'[t][i][p], <<t, i, p>> \in I, lat[<<t, i, p>>])
      BY <2>1, SelectionMoves
    <3> QED
      BY <3>1 DEF Issues, Proceeds, HasBegun, Runs, Over, Issuing, IsReady
  <2> QED
    BY <2>2, <2>3
<1>4. CASE Execute
  <2>1. InPlace /\ stage = "execute"
    BY <1>4, ExecuteMoves DEF Execute
  <2>2. ASSUME NEW t \in Threads, NEW i \in DOMAIN rob[t], NEW p \in {"op", "mem"}
        PROVE  Proceeds(rob[t][i], p, rob[t][i][p], rob'[t][i][p])
    <3>1. Executes(rob[t][i], p, rob[t][i][p], rob'[t][i][p],
                   <<t, i, p>> \in Executed, <<t, i, p>> \in Replayed \cup Flushed)
      BY <1>4, ExecuteMoves
    <3>2. <<t, i, p>> \in Executed => OperandsReady(rob[t][i], p)
      <4>1. At(<<t, i, p>>) = rob[t][i] /\ <<t, i, p>>[3] = p
        BY UnitFacts
      <4> QED
        BY <4>1, ExecuteUnits
    <3> QED
      BY <2>1, <3>1, <3>2
      DEF Executes, Proceeds, HasBegun, Runs, Over, Issuing, IsReady, Fresh, Waits
  <2> QED
    BY <2>1, <2>2
<1>5. CASE EndCycle
  <2>1. InPlace
    BY <1>5, EndCycleMoves
  <2>2. ASSUME NEW t \in Threads, NEW i \in DOMAIN rob[t], NEW p \in {"op", "mem"}
        PROVE  Proceeds(rob[t][i], p, rob[t][i][p], rob'[t][i][p])
    <3>1. Ages(rob[t][i][p], rob'[t][i][p])
      BY <1>5, EndCycleMoves
    <3> QED
      BY <3>1 DEF Ages, SameState, Proceeds, HasBegun, Runs, Over
  <2> QED
    BY <2>1, <2>2
<1> QED
  BY <1>1, <1>2, <1>3, <1>4, <1>5 DEF Stays

(* What has been delivered is not taken back.                              *)
LEMMA ReadyStays ==
  ASSUME Shapes, Timed, Stays, NEW r \in Regs, reg[r].ready <= 0
  PROVE  reg'[r].ready <= 0
<1>1. reg[r].ready # Never /\ reg[r].ready \in Times
  BY TimeFacts DEF Shapes
<1>2. CASE Writeback \/ LsqRefresh \/ Wakeup
  BY <1>2 DEF Writeback, LsqRefresh, Wakeup
<1>3. CASE Selection
  <2>1. PICK I, lat, hit : Chosen(I, lat, hit)
    BY <1>3, SelectionChooses
  <2> QED
    BY <1>1, <2>1, SelectionChanges DEF Unknown
<1>4. CASE Execute
  <2>1. ~Withdrawn(r)
    <3> SUFFICES ASSUME Withdrawn(r) PROVE FALSE
      OBVIOUS
    <3>1. 0 < reg[r].ready
      BY WithdrawnFacts
    <3>2. reg[r].ready \in Past .. MaxTime
      BY <1>1 DEF Times
    <3>3. PICK x \in Int : x = reg[r].ready
      BY <3>2, TimeFacts
    <3> QED
      BY <3>1, <3>3
  <2> QED
    BY <1>4, <2>1, ExecuteRegs
<1>5. CASE EndCycle
  <2>1. reg'[r].ready = Later(reg[r].ready)
    BY <1>5 DEF EndCycle
  <2>2. /\ reg[r].ready \in Past .. MaxTime
        /\ reg'[r].ready = IF reg[r].ready = Past THEN Past ELSE reg[r].ready - 1
    BY <1>1, <2>1, LaterFacts
  <2>3. PICK x \in Int : x = reg[r].ready
    BY <2>2, TimeFacts
  <2> QED
    BY <2>2, <2>3, TimeFacts
<1> QED
  BY <1>2, <1>3, <1>4, <1>5 DEF Stays

(* When execute() comes, a result is there only if its instruction is over.*)
LEMMA ReadyIsOver ==
  ASSUME Shapes, Timed, stage = "execute", NEW t \in Threads, NEW j \in DOMAIN rob[t],
         rob[t][j].dest # NoReg, reg[rob[t][j].dest].ready <= 0
  PROVE  Over(Producer(rob[t][j]))
<1>1. PICK p \in {"op", "mem"} : p = ProducingPart(rob[t][j])
  BY ProducerIs
<1>2. PICK q, v : q = rob[t][j][p] /\ v = reg[rob[t][j].dest]
  OBVIOUS
<1>3. Announced(rob[t][j].class, q, v)
  BY <1>1, <1>2, ProducerIs
<1>4. InTime(q, "execute")
  BY <1>2, PartInTime
<1>5. ~Unknown(v)
  BY <1>2, TimeFacts DEF Unknown
<1>6. ~Runs(q)
  <2> SUFFICES ASSUME Runs(q) PROVE FALSE
    OBVIOUS
  <2>1. q.when \in 1 .. MaxTime /\ v.ready = q.when
    BY <1>3, <1>4 DEF InTime, RunFrom, Announced
  <2> QED
    BY <1>2, <2>1, TimeFacts
<1>7. ~Issuing(q)
  <2> SUFFICES ASSUME Issuing(q) PROVE FALSE
    OBVIOUS
  <2>1. /\ q.when \in 0 .. Delay /\ q.exec_lat \in 1 .. MaxTime - Delay
        /\ v.ready = q.when + q.exec_lat
    BY <1>3, <1>4 DEF InTime, IssueFrom, Announced
  <2>2. PICK x, l \in Int : x = q.when /\ l = q.exec_lat
    BY <2>1, TimeFacts
  <2>3. x + l <= 0 /\ x >= 0 /\ l >= 1
    BY <1>2, <2>1, <2>2, TimeFacts
  <2> QED
    BY <2>2, <2>3
<1> QED
  BY <1>1, <1>2, <1>3, <1>5, <1>6, <1>7 DEF Announced, Producer

LEMMA InPlaceFed ==
  ASSUME Shapes, RegsInv, Fed, Flow, Stays
  PROVE  Fed' /\ Flow'
<1>1. /\ \A t \in Threads : DOMAIN rob'[t] = DOMAIN rob[t]
      /\ \A t \in Threads : \A i \in DOMAIN rob[t] :
           /\ Kept(rob[t][i], rob'[t][i])
           /\ \A p \in {"op", "mem"} :
                /\ Proceeds(rob[t][i], p, rob[t][i][p], rob'[t][i][p])
                /\ SrcsOf(rob'[t][i], p) = SrcsOf(rob[t][i], p)
                /\ IsStorePart(rob'[t][i], p) <=> IsStorePart(rob[t][i], p)
           /\ ProducingPart(rob'[t][i]) = ProducingPart(rob[t][i])
  BY InPlaceProceeds, SrcsKept DEF InPlace, IsStorePart
<1>2. Timed
  BY DEF RegsInv
<1>3. ASSUME NEW t \in Threads, NEW i \in DOMAIN rob[t], NEW p \in {"op", "mem"},
             HasBegun(rob'[t][i][p]), ~IsStorePart(rob[t][i], p)
      PROVE  OperandsReady(rob[t][i], p)
  BY <1>1, <1>3 DEF Fed, Proceeds, IsStorePart
<1>4. Fed'
  <2> SUFFICES ASSUME NEW t \in Threads, NEW i \in DOMAIN rob'[t], NEW p \in {"op", "mem"},
                      HasBegun(rob'[t][i][p]), ~IsStorePart(rob'[t][i], p),
                      NEW r \in SrcsOf(rob'[t][i], p)
               PROVE  reg'[r].ready <= 0
    BY DEF Fed, OperandsReady, IsStorePart
  <2>1. i \in DOMAIN rob[t] /\ r \in SrcsOf(rob[t][i], p) /\ ~IsStorePart(rob[t][i], p)
    BY <1>1
  <2>2. reg[r].ready <= 0 /\ r \in Regs
    BY <1>3, <2>1, OperandFacts, ZenonT(60) DEF OperandsReady
  <2> QED
    BY <1>2, <2>2, ReadyStays
<1>5. Flow'
  <2> SUFFICES ASSUME NEW t \in Threads, NEW i \in DOMAIN rob'[t], NEW j \in DOMAIN rob'[t],
                      NEW p \in {"op", "mem"},
                      HasBegun(rob'[t][i][p]), ~IsStorePart(rob'[t][i], p),
                      rob'[t][j].dest \in SrcsOf(rob'[t][i], p),
                      rob'[t][j].class # "store_cond"
               PROVE  Over(Producer(rob'[t][j]))
    BY DEF Flow
  <2>1. /\ i \in DOMAIN rob[t] /\ j \in DOMAIN rob[t] /\ ~IsStorePart(rob[t][i], p)
        /\ rob[t][j].dest \in SrcsOf(rob[t][i], p) /\ rob[t][j].class # "store_cond"
    BY <1>1 DEF Kept
  <2>2. rob[t][j].dest # NoReg /\ reg[rob[t][j].dest].ready <= 0
    <3>1. OperandsReady(rob[t][i], p)
      BY <1>3, <2>1
    <3> QED
      BY <2>1, <3>1 DEF OperandsReady, SrcsOf
  <2>3. Over(Producer(rob[t][j]))
    <3>1. CASE HasBegun(rob[t][i][p])
      BY <2>1, <3>1 DEF Flow
    <3>2. CASE ~HasBegun(rob[t][i][p])
      <4>1. stage = "execute"
        BY <1>1, <2>1, <3>2 DEF Proceeds
      <4> QED
        BY <1>2, <2>1, <2>2, <4>1, ReadyIsOver
    <3> QED
      BY <3>1, <3>2
  <2>4. PICK k \in {"op", "mem"} : k = ProducingPart(rob[t][j])
    BY DEF ProducingPart
  <2>5. Over(rob[t][j][k]) => Over(rob'[t][j][k])
    BY <1>1, <2>1 DEF Proceeds
  <2> QED
    BY <1>1, <2>1, <2>3, <2>4, <2>5 DEF Producer
<1> QED
  BY <1>4, <1>5

LEMMA CommitFed ==
  ASSUME Shapes, Fed, Flow, NEW t \in Threads, Commit(t)
  PROVE  Fed' /\ Flow'
<1>1. PICK d \in [Threads -> {0, 1}] :
        \A u \in Threads : \A i \in DOMAIN rob'[u] :
          i + d[u] \in DOMAIN rob[u] /\ rob'[u][i] = rob[u][i + d[u]]
  BY CommitShifts
<1>2. reg' = reg
  BY DEF Commit
<1>3. Fed'
  BY <1>1, <1>2 DEF Fed, OperandsReady
<1>4. Flow'
  BY <1>1 DEF Flow
<1> QED
  BY <1>3, <1>4

LEMMA DispatchFed ==
  ASSUME Shapes, Fed, Flow, NEW t \in Threads, Dispatch(t)
  PROVE  Fed' /\ Flow'
<1>1. PICK i, s, f : DispatchesAs(t, i, s, f)
  BY DispatchMoves
<1>2. PICK e : e = rob[t][i] /\ i \in DOMAIN rob[t] /\ ~e.dispatched
  BY <1>1 DEF DispatchesAs
<1>3. /\ f \in EntryTypes /\ f.class = e.class /\ f.dest = e.dest /\ f.src = e.src
      /\ PlacedAs(e, "op", f.op)
      /\ IF IsStore(e) THEN PlacedAs(e, "mem", f.mem) ELSE f.mem = e.mem
      /\ rob' = [rob EXCEPT ![t][i] = f]
  BY <1>1, <1>2 DEF DispatchesAs
<1>4. /\ DOMAIN rob'[t] = DOMAIN rob[t]
      /\ rob'[t][i] = f /\ \A j \in DOMAIN rob[t] \ {i} : rob'[t][j] = rob[t][j]
      /\ \A u \in Threads \ {t} : rob'[u] = rob[u]
  BY <1>2, <1>3, ReplacedEntry
<1>5. Fresh(e.op) /\ Fresh(e.mem)
  BY <1>2, EntryFacts DEF InOrder
<1>6. \A p \in {"op", "mem"} : ~HasBegun(e[p]) /\ ~HasBegun(f[p])
  BY <1>3, <1>5 DEF PlacedAs, HasBegun, Fresh, Waits, IsReady, Runs, Over
<1>7. ProducingPart(f) \in {"op", "mem"} /\ ProducingPart(e) = ProducingPart(f)
  BY <1>3 DEF ProducingPart, IsMem
<1>8. ~Over(Producer(e))
  BY <1>6, <1>7 DEF Producer, HasBegun
<1>9. \A u \in Threads : \A j \in DOMAIN rob'[u] :
        \/ u = t /\ j = i /\ rob'[u][j] = f
        \/ j \in DOMAIN rob[u] /\ rob'[u][j] = rob[u][j]
  BY <1>4
<1>10. reg' = reg
  BY DEF Dispatch
<1>11. Fed'
  BY <1>6, <1>9, <1>10 DEF Fed, OperandsReady
<1>12. Flow'
  <2> SUFFICES ASSUME NEW u \in Threads, NEW k \in DOMAIN rob'[u], NEW j \in DOMAIN rob'[u],
                      NEW p \in {"op", "mem"},
                      HasBegun(rob'[u][k][p]), ~IsStorePart(rob'[u][k], p),
                      rob'[u][j].dest \in SrcsOf(rob'[u][k], p),
                      rob'[u][j].class # "store_cond"
               PROVE  Over(Producer(rob'[u][j]))
    BY DEF Flow
  <2>1. k \in DOMAIN rob[u] /\ rob'[u][k] = rob[u][k]
    BY <1>6, <1>9
  <2>2. CASE u = t /\ j = i /\ rob'[u][j] = f
    <3>1. Over(Producer(e))
      BY <1>2, <1>3, <2>1, <2>2 DEF Flow
    <3> QED
      BY <1>8, <3>1
  <2>3. CASE j \in DOMAIN rob[u] /\ rob'[u][j] = rob[u][j]
    BY <2>1, <2>3 DEF Flow
  <2> QED
    BY <1>9, <2>2, <2>3
<1> QED
  BY <1>11, <1>12

LEMMA RenameFed ==
  ASSUME Shapes, RegsInv, Fed, Flow, NEW t \in Threads, Rename(t)
  PROVE  Fed' /\ Flow'
<1>1. PICK f : RenamesAs(t, f)
  BY RenameMoves
<1>2. PICK m : m = Len(rob[t]) + 1
  OBVIOUS
<1>3. /\ f \in EntryTypes /\ Fresh(f.op) /\ Fresh(f.mem)
      /\ rob' = [rob EXCEPT ![t] = Append(@, f)]
  BY <1>1 DEF RenamesAs
<1>4. \A u \in Threads : \A j \in DOMAIN rob'[u] :
        \/ u = t /\ rob'[u][j] = f
        \/ j \in DOMAIN rob[u] /\ rob'[u][j] = rob[u][j]
  BY <1>2, <1>3, AppendedEntry
<1>5. \A p \in {"op", "mem"} : ~HasBegun(f[p])
  BY <1>3 DEF HasBegun, Fresh, Runs, Over
<1>6. f.dest # NoReg => \A u \in Threads : \A j \in DOMAIN rob[u] :
              f.dest \notin {rob[u][j].dest, rob[u][j].src[1], rob[u][j].src[2]}
  BY <1>1, NewOperands DEF RegsInv
<1>7. \A r \in Regs : r # f.dest => reg'[r] = reg[r]
  BY <1>1 DEF RenamesAs, Shapes
<1>8. ASSUME NEW u \in Threads, NEW k \in DOMAIN rob'[u], NEW p \in {"op", "mem"},
             HasBegun(rob'[u][k][p])
      PROVE  /\ k \in DOMAIN rob[u] /\ rob'[u][k] = rob[u][k]
             /\ \A r \in SrcsOf(rob[u][k], p) : r \in Regs /\ r # f.dest
  <2>1. k \in DOMAIN rob[u] /\ rob'[u][k] = rob[u][k]
    BY <1>4, <1>5, <1>8
  <2>2. \A r \in SrcsOf(rob[u][k], p) :
          r \in Regs /\ r \in {rob[u][k].src[1], rob[u][k].src[2]} \ {NoReg}
    BY <2>1, OperandFacts
  <2> QED
    BY <1>6, <2>1, <2>2
<1>9. Fed'
  BY <1>7, <1>8 DEF Fed, OperandsReady
<1>10. Flow'
  <2> SUFFICES ASSUME NEW u \in Threads, NEW k \in DOMAIN rob'[u], NEW j \in DOMAIN rob'[u],
                      NEW p \in {"op", "mem"},
                      HasBegun(rob'[u][k][p]), ~IsStorePart(rob'[u][k], p),
                      rob'[u][j].dest \in SrcsOf(rob'[u][k], p),
                      rob'[u][j].class # "store_cond"
               PROVE  Over(Producer(rob'[u][j]))
    BY DEF Flow
  <2>1. k \in DOMAIN rob[u] /\ rob'[u][k] = rob[u][k] /\ rob'[u][j].dest # f.dest
    BY <1>8
  <2>2. j \in DOMAIN rob[u] /\ rob'[u][j] = rob[u][j]
    BY <1>4, <2>1
  <2> QED
    BY <2>1, <2>2 DEF Flow
<1> QED
  BY <1>9, <1>10

LEMMA FedStep == Shapes /\ RegsInv /\ Fed /\ Flow /\ [Next]_vars => Fed' /\ Flow'
<1> SUFFICES ASSUME Shapes, RegsInv, Fed, Flow, [Next]_vars PROVE Fed' /\ Flow'
  OBVIOUS
<1>1. ASSUME UNCHANGED <<rob, reg>> PROVE Fed' /\ Flow'
  BY <1>1 DEF Fed, Flow, OperandsReady
<1>2. CASE UNCHANGED vars
  BY <1>1, <1>2 DEF vars
<1>3. CASE EndCommit \/ EndDispatch
  BY <1>1, <1>3 DEF EndCommit, EndDispatch
<1>4. CASE Stays
  BY <1>4, InPlaceFed
<1> QED
  BY <1>2, <1>3, <1>4, CommitFed, DispatchFed, RenameFed DEF Next, Stays

(***************************************************************************)
(* A load goes after the address computations of the stores before it:     *)
(* selection() takes the oldest first as long as there are units for all.  *)
(***************************************************************************)
NotAhead(o, u) ==
  /\ IsReady(u) => IsReady(o) \/ Issuing(o) \/ HasBegun(o)
  /\ Issuing(u) => (Issuing(o) /\ o.when <= u.when) \/ HasBegun(o)
  /\ HasBegun(u) => HasBegun(o)

LEMMA NotAheadFacts ==
  ASSUME NEW e, NEW o, NEW u, NEW st
  PROVE  /\ NotAhead(o, u) => Behind(e, o, u, st)
         /\ Behind(e, o, u, st) /\ st # "wakeup" => NotAhead(o, u)
         /\ Fresh(u) => NotAhead(o, u)
<1>1. NotAhead(o, u) => Behind(e, o, u, st)
  BY DEF NotAhead, Behind
<1>2. Behind(e, o, u, st) /\ st # "wakeup" => NotAhead(o, u)
  BY DEF NotAhead, Behind
<1>3. Fresh(u) => NotAhead(o, u)
  BY DEF NotAhead, Fresh, IsReady, Issuing, HasBegun, Runs, Over
<1> QED
  BY <1>1, <1>2, <1>3

(* The pairs of a load and an older store.                                 *)
Pair(t, i, j) == /\ i \in DOMAIN rob[t] /\ j \in 1 .. i - 1
                 /\ rob[t][i].class = "load" /\ IsStore(rob[t][j])

LEMMA PairFacts ==
  ASSUME Shapes, NEW t \in Threads, NEW i, NEW j, Pair(t, i, j)
  PROVE  /\ i \in DOMAIN rob[t] /\ i \in Nat /\ j \in DOMAIN rob[t] /\ j \in Nat /\ j < i
         /\ IsMem(rob[t][i]) /\ IsMem(rob[t][j])
         /\ ~IsStore(rob[t][i])
         /\ rob[t][i].dispatched => rob[t][j].dispatched
         /\ ~Waits(rob[t][i].mem)
         /\ ~rob[t][i].dispatched => Fresh(rob[t][i].mem)
<1>1. i \in DOMAIN rob[t] /\ j \in 1 .. i - 1
  BY DEF Pair
<1>2. DOMAIN rob[t] = 1 .. Len(rob[t]) /\ Len(rob[t]) \in Nat /\ i \in Nat /\ InOrder(rob[t][i])
  BY <1>1, EntryFacts
<1>3. j \in DOMAIN rob[t] /\ j \in Nat /\ j < i
  BY <1>1, <1>2
<1>4. rob[t][i].dispatched => rob[t][j].dispatched
  BY <1>1, SMTT(30) DEF Shapes
<1>5. IsMem(rob[t][i]) /\ IsMem(rob[t][j]) /\ ~IsStore(rob[t][i])
  BY DEF Pair, IsMem, IsStore, MemClasses, StoreClasses
<1>6. ~Waits(rob[t][i].mem)
  BY <1>2 DEF Pair, InOrder, Fresh, IsReady, Issuing, Runs, Over, Waits
<1>7. ~rob[t][i].dispatched => Fresh(rob[t][i].mem)
  BY <1>2 DEF InOrder
<1> QED
  BY <1>1, <1>2, <1>3, <1>4, <1>5, <1>6, <1>7

LEMMA LoadPairs ==
  LoadsBehind <=> \A t \in Threads : \A i, j : Pair(t, i, j) =>
                    Behind(rob[t][j], rob[t][j].op, rob[t][i].mem, stage)
BY DEF LoadsBehind, Pair

LEMMA PairInPlace ==
  ASSUME Shapes, InPlace, NEW t \in Threads, NEW i, NEW j, Pair(t, i, j)'
  PROVE  Pair(t, i, j)
<1>1. i \in DOMAIN rob[t] /\ j \in 1 .. i - 1 /\ rob'[t][i].class = "load" /\ IsStore(rob'[t][j])
  BY DEF Pair, InPlace
<1>2. j \in DOMAIN rob[t]
  <2>1. DOMAIN rob[t] = 1 .. Len(rob[t]) /\ Len(rob[t]) \in Nat /\ i \in Nat
    BY <1>1, EntryFacts
  <2> QED
    BY <1>1, <2>1
<1>3. rob'[t][i].class = rob[t][i].class /\ rob'[t][j].class = rob[t][j].class
  BY <1>1, <1>2 DEF InPlace, Kept
<1> QED
  BY <1>1, <1>3 DEF Pair, IsStore

(* What remains to be shown for a stage.                                   *)
LEMMA BehindInPlace ==
  ASSUME Shapes, InPlace,
         \A t \in Threads : \A i, j : Pair(t, i, j) => NotAhead(rob'[t][j].op, rob'[t][i].mem)
  PROVE  LoadsBehind'
<1> SUFFICES ASSUME NEW t \in Threads, NEW i, NEW j, Pair(t, i, j)'
             PROVE  Behind(rob[t][j], rob[t][j].op, rob[t][i].mem, stage)'
  BY DEF LoadsBehind, Pair
<1>1. NotAhead(rob'[t][j].op, rob'[t][i].mem)
  BY PairInPlace
<1> QED
  BY <1>1 DEF NotAhead, Behind

LEMMA PairBehind ==
  ASSUME LoadsBehind, stage # "wakeup", NEW t \in Threads, NEW i, NEW j, Pair(t, i, j)
  PROVE  NotAhead(rob[t][j].op, rob[t][i].mem)
<1>1. Behind(rob[t][j], rob[t][j].op, rob[t][i].mem, stage)
  BY LoadPairs
<1> QED
  BY <1>1, NotAheadFacts

LEMMA WritebackBehind ==
  ASSUME Shapes, LoadsBehind, Writeback
  PROVE  LoadsBehind'
<1>1. InPlace /\ stage = "writeback"
  BY WritebackMoves DEF Writeback
<1>2. ASSUME NEW t \in Threads, NEW i, NEW j, Pair(t, i, j)
      PROVE  NotAhead(rob'[t][j].op, rob'[t][i].mem)
  <2>1. NotAhead(rob[t][j].op, rob[t][i].mem)
    BY <1>1, <1>2, PairBehind
  <2>2. /\ Finishes(rob[t][j].op, rob'[t][j].op)
        /\ Finishes(rob[t][i].mem, rob'[t][i].mem)
    BY <1>2, PairFacts, WritebackMoves
  <2>3. HasBegun(rob[t][j].op) => HasBegun(rob'[t][j].op)
    BY <2>2 DEF Finishes, HasBegun
  <2>4. \/ rob'[t][j].op = rob[t][j].op
        \/ HasBegun(rob[t][j].op)
    BY <2>2 DEF Finishes, HasBegun
  <2>5. \/ rob'[t][i].mem = rob[t][i].mem
        \/ HasBegun(rob[t][i].mem) /\ Over(rob'[t][i].mem)
    BY <2>2 DEF Finishes, HasBegun
  <2>6. Over(rob'[t][i].mem) => ~IsReady(rob'[t][i].mem) /\ ~Issuing(rob'[t][i].mem)
    BY DEF Over, IsReady, Issuing
  <2> QED
    BY <2>1, <2>3, <2>4, <2>5, <2>6 DEF NotAhead
<1> QED
  BY <1>1, <1>2, BehindInPlace

LEMMA LsqRefreshBehind ==
  ASSUME Shapes, LoadsBehind, LsqRefresh
  PROVE  LoadsBehind'
<1>1. InPlace /\ stage = "lsq_refresh" /\ stage' = "wakeup" /\ reg' = reg
  BY LsqRefreshMoves DEF LsqRefresh, Goes
<1> SUFFICES ASSUME NEW t \in Threads, NEW i, NEW j, Pair(t, i, j)'
             PROVE  Behind(rob[t][j], rob[t][j].op, rob[t][i].mem, stage)'
  BY DEF LoadsBehind, Pair
<1>2. Pair(t, i, j)
  BY <1>1, PairInPlace
<1>3. /\ i \in DOMAIN rob[t] /\ j \in DOMAIN rob[t]
      /\ rob[t][i].dispatched => rob[t][j].dispatched
  BY <1>2, PairFacts
<1>4. NotAhead(rob[t][j].op, rob[t][i].mem)
  BY <1>1, <1>2, PairBehind
<1>5. PICK w, v : w = <<t, j, "op">> /\ v = <<t, i, "mem">>
  OBVIOUS
<1>6. w \notin LoadsToQueue
  BY <1>5, LoadsToQueueFacts
<1>7. rob'[t][j].op = rob[t][j].op
  BY <1>3, <1>5, <1>6, LsqRefreshMoves DEF Enters
<1>8. CASE v \notin LoadsToQueue
  <2>1. rob'[t][i].mem = rob[t][i].mem
    BY <1>3, <1>5, <1>8, LsqRefreshMoves DEF Enters
  <2> QED
    BY <1>4, <1>7, <2>1 DEF NotAhead, Behind
<1>9. CASE v \in LoadsToQueue
  <2>1. rob[t][i].dispatched /\ MayLoad(t, i)
    <3>1. At(v) = rob[t][i] /\ v[1] = t /\ v[2] = i
      BY <1>3, <1>5, UnitFacts
    <3> QED
      BY <1>9, <3>1, LoadsToQueueFacts
  <2>2. OperandsSpecReady(rob[t][j], "op")
    <3>1. j \in 1 .. i - 1 /\ IsStore(rob[t][j])
      BY <1>2 DEF Pair
    <3> QED
      BY <2>1, <3>1 DEF MayLoad
  <2>3. OperandsSpecReady(rob[t][j], "op")'
    <3>1. Kept(rob[t][j], rob'[t][j])
      BY <1>1, <1>3 DEF InPlace
    <3>2. SrcsOf(rob'[t][j], "op") = SrcsOf(rob[t][j], "op")
      BY <3>1, SrcsKept
    <3> QED
      BY <1>1, <2>2, <3>2 DEF OperandsSpecReady
  <2>4. \/ Waits(rob[t][j].op) \/ IsReady(rob[t][j].op) \/ Issuing(rob[t][j].op)
        \/ HasBegun(rob[t][j].op)
    BY <1>3, <2>1, EntryFacts DEF InOrder, HasBegun
  <2>5. IsReady(rob'[t][i].mem)
    BY <1>3, <1>5, <1>9, LsqRefreshMoves DEF Enters
  <2>6. ~Issuing(rob'[t][i].mem) /\ ~HasBegun(rob'[t][i].mem)
    BY <2>5 DEF IsReady, Issuing, HasBegun, Runs, Over
  <2> QED
    BY <1>1, <1>7, <2>3, <2>4, <2>6 DEF Behind
<1> QED
  BY <1>8, <1>9

LEMMA WakeupBehind ==
  ASSUME Shapes, LoadsBehind, Wakeup
  PROVE  LoadsBehind'
<1>1. InPlace
  BY WakeupMoves
<1>2. ASSUME NEW t \in Threads, NEW i, NEW j, Pair(t, i, j)
      PROVE  NotAhead(rob'[t][j].op, rob'[t][i].mem)
  <2>1. Behind(rob[t][j], rob[t][j].op, rob[t][i].mem, stage)
    BY <1>2, LoadPairs
  <2>2. i \in DOMAIN rob[t] /\ j \in DOMAIN rob[t] /\ ~Waits(rob[t][i].mem)
    BY <1>2, PairFacts
  <2>3. rob'[t][i].mem = rob[t][i].mem
    <3>1. <<t, i, "mem">> \notin Woken
      BY <2>2, WakeupMoves
    <3> QED
      BY <2>2, <3>1, WakeupMoves DEF Enters
  <2>4. /\ Waits(rob[t][j].op) /\ OperandsSpecReady(rob[t][j], "op") => IsReady(rob'[t][j].op)
        /\ rob'[t][j].op = rob[t][j].op \/ (Waits(rob[t][j].op) /\ IsReady(rob'[t][j].op))
    <3>1. /\ <<t, j, "op">> \in Woken <=> Waits(rob[t][j].op) /\ OperandsSpecReady(rob[t][j], "op")
          /\ Enters(rob[t][j].op, rob'[t][j].op, <<t, j, "op">> \in Woken)
      BY <2>2, WakeupMoves
    <3> QED
      BY <3>1 DEF Enters
  <2>5. Waits(rob[t][j].op) => ~IsReady(rob[t][j].op) /\ ~Issuing(rob[t][j].op) /\ ~HasBegun(rob[t][j].op)
    BY DEF Waits, IsReady, Issuing, HasBegun, Runs, Over
  <2> QED
    BY <2>1, <2>3, <2>4, <2>5 DEF NotAhead, Behind
<1> QED
  BY <1>1, <1>2, BehindInPlace

LEMMA SelectionBehind ==
  ASSUME UnitsFree, Shapes, LoadsBehind, Selection
  PROVE  LoadsBehind'
<1>1. PICK I, lat, hit : Chosen(I, lat, hit)
  BY SelectionChooses
<1>2. InPlace /\ stage = "selection"
  BY <1>1, SelectionMoves DEF Selection
<1>3. ASSUME NEW t \in Threads, NEW i, NEW j, Pair(t, i, j)
      PROVE  NotAhead(rob'[t][j].op, rob'[t][i].mem)
  <2>1. NotAhead(rob[t][j].op, rob[t][i].mem)
    BY <1>2, <1>3, PairBehind
  <2>2. i \in DOMAIN rob[t] /\ j \in DOMAIN rob[t] /\ j \in Nat /\ i \in Nat /\ j < i
        /\ ~IsStore(rob[t][i])
    BY <1>3, PairFacts
  <2>3. PICK w, v : w = <<t, j, "op">> /\ v = <<t, i, "mem">>
    OBVIOUS
  <2>4. PICK o, o2, u, u2 : /\ o = rob[t][j].op /\ o2 = rob'[t][j].op
                            /\ u = rob[t][i].mem /\ u2 = rob'[t][i].mem
    OBVIOUS
  <2>5. /\ Issues(rob[t][j], "op", o, o2, w \in I, lat[w])
        /\ Issues(rob[t][i], "mem", u, u2, v \in I, lat[v])
    BY <1>1, <2>2, <2>3, <2>4, SelectionMoves
  <2>6. IsReady(o) /\ v \in I => w \in I
    <3>1. IsReady(o) => w \in On("ready")
      BY <2>2, <2>3, <2>4, OnFacts
    <3>2. OlderThan(w, v)
      BY <2>2, <2>3 DEF OlderThan
    <3> QED
      BY <1>1, <3>1, <3>2 DEF Chosen, Selectable
  <2>7. IF w \in I THEN IsReady(o) /\ Issuing(o2) /\ o2.when = Delay ELSE o2 = o
    BY <2>5 DEF Issues, IsStorePart
  <2>8. IF v \in I THEN IsReady(u) /\ Issuing(u2) /\ u2.when = Delay ELSE u2 = u
    BY <2>2, <2>5 DEF Issues, IsStorePart
  <2>9. Issuing(o) => o.when <= Delay
    <3>1. InTime(o, "selection")
      BY <1>2, <2>2, <2>4, PartInTime
    <3> QED
      BY <3>1, TimeFacts DEF InTime, IssueFrom
  <2>10. IsReady(o) => ~Issuing(o) /\ ~HasBegun(o)
    BY DEF IsReady, Issuing, HasBegun, Runs, Over
  <2>11. Issuing(u2) => ~IsReady(u2) /\ ~HasBegun(u2)
    BY DEF IsReady, Issuing, HasBegun, Runs, Over
  <2>12. NotAhead(o, u)
    BY <2>1, <2>4
  <2>13. Delay <= Delay
    BY TimeFacts
  <2>14. CASE v \in I
    BY <2>6, <2>7, <2>8, <2>9, <2>10, <2>11, <2>12, <2>13, <2>14, <2>4 DEF NotAhead
  <2>15. CASE v \notin I
    BY <2>7, <2>8, <2>10, <2>12, <2>15, <2>4 DEF NotAhead
  <2> QED
    BY <2>14, <2>15
<1> QED
  BY <1>2, <1>3, BehindInPlace

LEMMA OlderIsTransitive ==
  ASSUME NEW u, NEW v, NEW w, u[2] \in Nat, v[2] \in Nat, w[2] \in Nat,
         OlderThan(u, v), OlderThan(v, w)
  PROVE  OlderThan(u, w)
BY DEF OlderThan

LEMMA ExecuteBehind ==
  ASSUME Shapes, LoadsBehind, Execute
  PROVE  LoadsBehind'
<1>1. InPlace /\ stage = "execute"
  BY ExecuteMoves DEF Execute
<1>2. ASSUME NEW t \in Threads, NEW i, NEW j, Pair(t, i, j)
      PROVE  NotAhead(rob'[t][j].op, rob'[t][i].mem)
  <2>1. NotAhead(rob[t][j].op, rob[t][i].mem)
    BY <1>1, <1>2, PairBehind
  <2>2. i \in DOMAIN rob[t] /\ j \in DOMAIN rob[t] /\ j \in Nat /\ i \in Nat /\ j < i
        /\ IsMem(rob[t][i]) /\ rob[t][i].class = "load"
    BY <1>2, PairFacts DEF Pair
  <2>3. PICK w, v : w = <<t, j, "op">> /\ v = <<t, i, "mem">>
    OBVIOUS
  <2>4. PICK o, o2, u, u2 : /\ o = rob[t][j].op /\ o2 = rob'[t][j].op
                            /\ u = rob[t][i].mem /\ u2 = rob'[t][i].mem
    OBVIOUS
  <2>5. /\ Executes(rob[t][j], "op", o, o2, w \in Executed, w \in Replayed \cup Flushed)
        /\ Executes(rob[t][i], "mem", u, u2, v \in Executed, v \in Replayed \cup Flushed)
    BY <2>2, <2>3, <2>4, ExecuteMoves
  <2>6. NotAhead(o, u)
    BY <2>1, <2>4
  <2>7. /\ w \in Units /\ PartOf(w) = o /\ w[1] = t /\ w[2] = j
        /\ v \in Units /\ PartOf(v) = u /\ v[1] = t /\ v[2] = i
    BY <2>2, <2>3, <2>4, UnitFacts DEF Parts, IsMem
  <2>8. OlderThan(w, v)
    BY <2>2, <2>3 DEF OlderThan
  <2>9. HasBegun(o) => HasBegun(o2)
    BY <2>5 DEF Executes, HasBegun, Runs, Over, Issuing, IsReady
  <2>10. CASE v \in Executed
    <3>1. Issuing(u) /\ u.when <= 0 /\ Runs(u2)
      BY <2>5, <2>7, <2>10, ExecuteUnits DEF Executes
    <3>2. HasBegun(o2)
      <4>1. CASE HasBegun(o)
        BY <2>9, <4>1
      <4>2. CASE ~HasBegun(o)
        <5>1. Issuing(o) /\ o.when <= u.when
          BY <2>6, <3>1, <4>2 DEF NotAhead
        <5>2. o.when <= 0
          <6>1. o.when \in Int /\ u.when \in Int
            BY <2>2, <2>4, PartInTime
          <6>2. PICK a, b \in Int : a = o.when /\ b = u.when
            BY <6>1
          <6> QED
            BY <3>1, <5>1, <6>2
        <5>3. w \in Due
          BY <2>7, <5>1, <5>2, UnitPart DEF Due
        <5>4. Replays(t) => OlderThan(w, Culprit(t))
          <6> SUFFICES ASSUME Replays(t) PROVE OlderThan(w, Culprit(t))
            OBVIOUS
          <6>1. OlderThan(v, Culprit(t))
            BY <2>7, <2>10 DEF Executed
          <6>2. Culprit(t)[2] \in Nat
            <7>1. Culprit(t) \in Units
              BY CulpritFacts DEF TooEarly, Due, On
            <7> QED
              BY <7>1, UnitFacts, EntryFacts
          <6> QED
            BY <2>2, <2>7, <2>8, <6>1, <6>2, OlderIsTransitive
        <5>5. w \in Executed
          BY <2>7, <5>3, <5>4 DEF Executed
        <5> QED
          BY <2>5, <5>5 DEF Executes, HasBegun
      <4> QED
        BY <4>1, <4>2
    <3>3. ~IsReady(u2) /\ ~Issuing(u2)
      BY <3>1 DEF Runs, IsReady, Issuing
    <3>4. NotAhead(o2, u2)
      BY <3>2, <3>3 DEF NotAhead
    <3> QED
      BY <2>4, <3>4
  <2>11. CASE v \notin Executed /\ v \in Replayed \cup Flushed
    <3>1. Fresh(u2)
      BY <2>2, <2>5, <2>11 DEF Executes, IsLoadPart
    <3> QED
      BY <2>4, <3>1, NotAheadFacts
  <2>12. CASE v \notin Executed /\ v \notin Replayed \cup Flushed
    <3>1. u2 = u
      BY <2>5, <2>12 DEF Executes
    <3>2. IsReady(u) \/ Issuing(u) => ~Replays(t)
      BY <2>7, <2>12, ExecuteUnits
    <3>3. ~Replays(t) => w \notin Replayed \cup Flushed
      BY <2>7, ExecuteUnits
    <3>4. ~Replays(t) => o2 = o \/ HasBegun(o2)
      BY <2>5, <3>3 DEF Executes, HasBegun
    <3>5. NotAhead(o2, u2)
      BY <2>6, <2>9, <3>1, <3>2, <3>4 DEF NotAhead
    <3> QED
      BY <2>4, <3>5
  <2> QED
    BY <2>10, <2>11, <2>12
<1> QED
  BY <1>1, <1>2, BehindInPlace

LEMMA LaterIsMonotone ==
  ASSUME NEW x \in Past .. MaxTime, NEW y \in Past .. MaxTime, x <= y
  PROVE  Later(x) <= Later(y)
<1>1. x \in Times /\ x # Never /\ y \in Times /\ y # Never /\ x \in Int /\ y \in Int
  BY TimeFacts DEF Times
<1>2. /\ Later(x) = IF x = Past THEN Past ELSE x - 1
      /\ Later(y) = IF y = Past THEN Past ELSE y - 1
  BY <1>1, LaterFacts
<1> QED
  BY <1>1, <1>2, TimeFacts

LEMMA EndCycleBehind ==
  ASSUME Shapes, LoadsBehind, EndCycle
  PROVE  LoadsBehind'
<1>1. InPlace /\ stage = "register_rename"
  BY EndCycleMoves DEF EndCycle
<1>2. ASSUME NEW t \in Threads, NEW i, NEW j, Pair(t, i, j)
      PROVE  NotAhead(rob'[t][j].op, rob'[t][i].mem)
  <2>1. i \in DOMAIN rob[t] /\ j \in DOMAIN rob[t]
    BY <1>2, PairFacts
  <2>2. PICK o, o2, u, u2 : /\ o = rob[t][j].op /\ o2 = rob'[t][j].op
                            /\ u = rob[t][i].mem /\ u2 = rob'[t][i].mem
    OBVIOUS
  <2>3. NotAhead(o, u)
    BY <1>1, <1>2, <2>2, PairBehind
  <2>4. Ages(o, o2) /\ Ages(u, u2)
    BY <2>1, <2>2, EndCycleMoves
  <2>5. /\ IsReady(o2) <=> IsReady(o)
        /\ Issuing(o2) <=> Issuing(o)
        /\ HasBegun(o2) <=> HasBegun(o)
        /\ IsReady(u2) <=> IsReady(u)
        /\ Issuing(u2) <=> Issuing(u)
        /\ HasBegun(u2) <=> HasBegun(u)
    BY <2>4 DEF Ages, SameState, IsReady, Issuing, HasBegun, Runs, Over
  <2>6. Issuing(o) /\ Issuing(u) /\ o.when <= u.when => o2.when <= u2.when
    <3>1. o.when \in Past .. MaxTime /\ u.when \in Past .. MaxTime
      BY <2>1, <2>2, PartInTime DEF InTime
    <3>2. Issuing(o) /\ Issuing(u) => o2.when = Later(o.when) /\ u2.when = Later(u.when)
      BY <2>4 DEF Ages, Fresh, Issuing
    <3> QED
      BY <3>1, <3>2, LaterIsMonotone
  <2>7. NotAhead(o2, u2)
    BY <2>3, <2>5, <2>6 DEF NotAhead
  <2> QED
    BY <2>2, <2>7
<1> QED
  BY <1>1, <1>2, BehindInPlace

LEMMA CommitBehind ==
  ASSUME Shapes, LoadsBehind, NEW t \in Threads, Commit(t)
  PROVE  LoadsBehind'
<1>1. PICK d \in [Threads -> {0, 1}] :
        \A u \in Threads : \A i \in DOMAIN rob'[u] :
          i \in Nat /\ i + d[u] \in DOMAIN rob[u] /\ rob'[u][i] = rob[u][i + d[u]]
  BY CommitShifts
<1>2. reg' = reg /\ stage' = stage
  BY DEF Commit
<1> SUFFICES ASSUME NEW u \in Threads, NEW i, NEW j, Pair(u, i, j)'
             PROVE  Behind(rob[u][j], rob[u][j].op, rob[u][i].mem, stage)'
  BY DEF LoadsBehind, Pair
<1>3. i \in DOMAIN rob'[u] /\ j \in 1 .. i - 1 /\ rob'[u][i].class = "load" /\ IsStore(rob'[u][j])
  BY DEF Pair
<1>4. PICK a, b : a = i + d[u] /\ b = j + d[u]
  OBVIOUS
<1>5. j \in DOMAIN rob'[u]
  <2>2. CASE u = t
    BY <1>1, <1>3, <2>2, CommitMoves
  <2>3. CASE u # t
    <3>1. rob'[u] = rob[u] /\ DOMAIN rob[u] = 1 .. Len(rob[u]) /\ Len(rob[u]) \in Nat
      BY <2>3, CommitMoves DEF Shapes
    <3> QED
      BY <1>3, <3>1
  <2> QED
    BY <2>2, <2>3
<1>6. /\ a \in DOMAIN rob[u] /\ rob'[u][i] = rob[u][a] /\ i \in Nat
      /\ b \in DOMAIN rob[u] /\ rob'[u][j] = rob[u][b] /\ j \in Nat
  BY <1>1, <1>3, <1>4, <1>5
<1>7. b \in 1 .. a - 1
  <2>1. d[u] \in {0, 1}
    OBVIOUS
  <2> QED
    BY <1>3, <1>4, <1>6, <2>1
<1>8. Behind(rob[u][b], rob[u][b].op, rob[u][a].mem, stage)
  BY <1>3, <1>6, <1>7 DEF LoadsBehind
<1> QED
  BY <1>2, <1>6, <1>8 DEF Behind, OperandsSpecReady

LEMMA DispatchBehind ==
  ASSUME Shapes, LoadsBehind, NEW t \in Threads, Dispatch(t)
  PROVE  LoadsBehind'
<1>1. PICK i, s, f : DispatchesAs(t, i, s, f)
  BY DispatchMoves
<1>2. /\ f \in EntryTypes /\ f.class = rob[t][i].class /\ f.src = rob[t][i].src
      /\ i \in DOMAIN rob[t] /\ ~rob[t][i].dispatched
      /\ ~IsStore(rob[t][i]) => f.mem = rob[t][i].mem
      /\ rob' = [rob EXCEPT ![t][i] = f]
  BY <1>1 DEF DispatchesAs
<1>3. /\ DOMAIN rob'[t] = DOMAIN rob[t]
      /\ rob'[t][i] = f /\ \A j \in DOMAIN rob[t] \ {i} : rob'[t][j] = rob[t][j]
      /\ \A u \in Threads \ {t} : rob'[u] = rob[u]
  BY <1>2, ReplacedEntry
<1>4. reg' = reg /\ stage' = stage /\ stage # "wakeup"
  BY DEF Dispatch
<1>5. \A u \in Threads : /\ DOMAIN rob'[u] = DOMAIN rob[u]
                         /\ \A j \in DOMAIN rob[u] : /\ rob'[u][j].class = rob[u][j].class
                                                     /\ (u = t /\ j = i) \/ rob'[u][j] = rob[u][j]
  BY <1>2, <1>3
<1> SUFFICES ASSUME NEW u \in Threads, NEW k, NEW j, Pair(u, k, j)'
             PROVE  Behind(rob[u][j], rob[u][j].op, rob[u][k].mem, stage)'
  BY DEF LoadsBehind, Pair
<1>6. j \in DOMAIN rob[u] /\ k \in DOMAIN rob[u] /\ j \in 1 .. k - 1 /\ j # k
  <2>1. k \in DOMAIN rob[u] /\ j \in 1 .. k - 1
    BY <1>5 DEF Pair
  <2>2. DOMAIN rob[u] = 1 .. Len(rob[u]) /\ Len(rob[u]) \in Nat /\ k \in Nat
    BY <2>1, EntryFacts
  <2> QED
    BY <2>1, <2>2
<1>7. Pair(u, k, j)
  BY <1>5, <1>6 DEF Pair, IsStore
<1>8. NotAhead(rob[u][j].op, rob[u][k].mem) /\ ~IsStore(rob[u][k])
  BY <1>4, <1>7, PairBehind, PairFacts
<1>9. rob'[u][k].mem = rob[u][k].mem
  BY <1>2, <1>3, <1>5, <1>6, <1>8
<1>10. NotAhead(rob'[u][j].op, rob'[u][k].mem)
  <2>1. CASE u = t /\ j = i
    <3>1. Fresh(rob[u][k].mem)
      BY <1>2, <1>7, <2>1, PairFacts
    <3> QED
      BY <1>9, <3>1, NotAheadFacts
  <2>2. CASE ~(u = t /\ j = i)
    BY <1>5, <1>6, <1>8, <1>9, <2>2
  <2> QED
    BY <2>1, <2>2
<1> QED
  BY <1>10 DEF NotAhead, Behind

LEMMA RenameBehind ==
  ASSUME Shapes, LoadsBehind, NEW t \in Threads, Rename(t)
  PROVE  LoadsBehind'
<1>1. PICK f : RenamesAs(t, f)
  BY RenameMoves
<1>2. f \in EntryTypes /\ Fresh(f.mem) /\ rob' = [rob EXCEPT ![t] = Append(@, f)]
  BY <1>1 DEF RenamesAs
<1>3. /\ Len(rob[t]) \in Nat /\ DOMAIN rob[t] = 1 .. Len(rob[t])
      /\ DOMAIN rob'[t] = 1 .. Len(rob[t]) + 1
      /\ rob'[t][Len(rob[t]) + 1] = f
      /\ \A j \in DOMAIN rob[t] : j \in DOMAIN rob'[t] /\ rob'[t][j] = rob[t][j]
      /\ \A j \in DOMAIN rob'[t] : j \in DOMAIN rob[t] \/ j = Len(rob[t]) + 1
      /\ \A u \in Threads \ {t} : rob'[u] = rob[u]
  BY <1>2, AppendedEntry
<1>4. stage' = stage /\ stage # "wakeup"
  BY DEF Rename
<1> SUFFICES ASSUME NEW u \in Threads, NEW k, NEW j, Pair(u, k, j)'
             PROVE  Behind(rob[u][j], rob[u][j].op, rob[u][k].mem, stage)'
  BY DEF LoadsBehind, Pair
<1>5. k \in DOMAIN rob'[u] /\ j \in 1 .. k - 1
      /\ rob'[u][k].class = "load" /\ IsStore(rob'[u][j])
  BY DEF Pair
<1>6. CASE u = t /\ k \notin DOMAIN rob[u]
  <2>1. rob'[u][k] = f
    BY <1>3, <1>5, <1>6
  <2> QED
    BY <1>2, <2>1, NotAheadFacts DEF NotAhead, Behind
<1>7. CASE ~(u = t /\ k \notin DOMAIN rob[u])
  <2>1. k \in DOMAIN rob[u] /\ rob'[u][k] = rob[u][k]
    BY <1>3, <1>5, <1>7
  <2>2. j \in DOMAIN rob[u]
    <3>1. DOMAIN rob[u] = 1 .. Len(rob[u]) /\ Len(rob[u]) \in Nat /\ k \in Nat
      BY <2>1, EntryFacts
    <3> QED
      BY <1>5, <2>1, <3>1
  <2>3. rob'[u][j] = rob[u][j]
    BY <1>3, <2>2
  <2>4. Pair(u, k, j)
    BY <1>5, <2>1, <2>3 DEF Pair
  <2>5. NotAhead(rob[u][j].op, rob[u][k].mem)
    BY <1>4, <2>4, PairBehind
  <2> QED
    BY <2>1, <2>3, <2>5 DEF NotAhead, Behind
<1> QED
  BY <1>6, <1>7

LEMMA BehindStep == UnitsFree /\ Shapes /\ LoadsBehind /\ [Next]_vars => LoadsBehind'
<1> SUFFICES ASSUME UnitsFree, Shapes, LoadsBehind, [Next]_vars PROVE LoadsBehind'
  OBVIOUS
<1>1. CASE UNCHANGED vars
  BY <1>1 DEF vars, LoadsBehind, Behind, OperandsSpecReady
<1>2. CASE EndCommit \/ EndDispatch
  <2>1. rob' = rob /\ stage # "wakeup"
    BY <1>2 DEF EndCommit, EndDispatch
  <2>2. ASSUME NEW t \in Threads, NEW i \in DOMAIN rob'[t], NEW j \in 1 .. i - 1,
               rob'[t][i].class = "load", IsStore(rob'[t][j])
        PROVE  NotAhead(rob'[t][j].op, rob'[t][i].mem)
    BY <2>1, <2>2, PairBehind DEF Pair
  <2>3. \A t \in Threads : \A i \in DOMAIN rob'[t] : \A j \in 1 .. i - 1 :
          rob'[t][i].class = "load" /\ IsStore(rob'[t][j]) =>
            NotAhead(rob'[t][j].op, rob'[t][i].mem)
    BY <2>2
  <2> QED
    BY <2>3 DEF LoadsBehind, NotAhead, Behind
<1> QED
  BY <1>1, <1>2, CommitBehind, WritebackBehind, LsqRefreshBehind, WakeupBehind,
     SelectionBehind, ExecuteBehind, DispatchBehind, RenameBehind, EndCycleBehind DEF Next

(***************************************************************************)
(* The issue queue.                                                        *)
(***************************************************************************)
(* Of the steps that leave the ROBs in place only execute() moves entries. *)
LEMMA InPlaceSlots ==
  ASSUME Shapes, Slots, Stays, ~Execute
  PROVE  Slots'
<1>1. /\ \A t \in Threads : DOMAIN rob'[t] = DOMAIN rob[t]
      /\ \A t \in Threads : \A i \in DOMAIN rob[t] :
           /\ rob'[t][i].dispatched = rob[t][i].dispatched
           /\ HasBegun(rob'[t][i].op) <=> HasBegun(rob[t][i].op)
      /\ stage # "execute"
  <2>1. /\ InPlace
        /\ \A t \in Threads : \A i \in DOMAIN rob[t] :
             Proceeds(rob[t][i], "op", rob[t][i].op, rob'[t][i].op)
    BY InPlaceProceeds
  <2>2. stage # "execute"
    BY DEF Stays, Writeback, LsqRefresh, Wakeup, Selection, EndCycle
  <2> QED
    BY <2>1, <2>2 DEF InPlace, Kept, Proceeds, IsStorePart
<1>2. \A t \in Threads : \A i \in DOMAIN rob[t] : rob'[t][i].slot = rob[t][i].slot
  <2>1. CASE Selection
    BY <2>1, SelectionChooses, SelectionMoves
  <2>2. CASE ~Selection
    BY <2>2, WritebackMoves, LsqRefreshMoves, WakeupMoves, EndCycleMoves DEF Stays
  <2> QED
    BY <2>1, <2>2
<1>3. iq' = iq
  BY DEF Stays, Writeback, LsqRefresh, Wakeup, Selection, EndCycle
<1> QED
  BY <1>1, <1>2, <1>3 DEF Slots

LEMMA ExecuteSlots ==
  ASSUME Shapes, Slots, Execute
  PROVE  Slots'
<1>0. /\ \A t \in Threads : \A i \in DOMAIN rob[t] :
           /\ rob[t][i].dispatched => (rob[t][i].slot = NoSlot <=> HasBegun(rob[t][i].op))
           /\ rob[t][i].slot # NoSlot => iq[rob[t][i].slot]
      /\ \A t, u \in Threads : \A i \in DOMAIN rob[t], j \in DOMAIN rob[u] :
           rob[t][i].slot = rob[u][j].slot /\ rob[t][i].slot # NoSlot => t = u /\ i = j
      /\ \A s \in 1 .. IqSize :
           iq[s] => \E t \in Threads : \E i \in DOMAIN rob[t] : rob[t][i].slot = s
  BY DEF Slots
<1>1. /\ \A t \in Threads : DOMAIN rob'[t] = DOMAIN rob[t]
      /\ \A t \in Threads : \A i \in DOMAIN rob[t] :
           /\ rob'[t][i].dispatched = rob[t][i].dispatched
           /\ rob'[t][i].slot = IF <<t, i, "op">> \in Executed THEN NoSlot ELSE rob[t][i].slot
           /\ Executes(rob[t][i], "op", rob[t][i].op, rob'[t][i].op,
                       <<t, i, "op">> \in Executed, <<t, i, "op">> \in Replayed \cup Flushed)
  BY ExecuteMoves DEF InPlace, Kept
<1>2. \A t \in Threads : \A i \in DOMAIN rob[t] :
        /\ <<t, i, "op">> \in Executed => HasBegun(rob'[t][i].op) /\ ~HasBegun(rob[t][i].op)
        /\ <<t, i, "op">> \notin Executed =>
             (HasBegun(rob'[t][i].op) <=> HasBegun(rob[t][i].op))
  <2> SUFFICES ASSUME NEW t \in Threads, NEW i \in DOMAIN rob[t]
               PROVE  /\ <<t, i, "op">> \in Executed =>
                           HasBegun(rob'[t][i].op) /\ ~HasBegun(rob[t][i].op)
                      /\ <<t, i, "op">> \notin Executed =>
                           (HasBegun(rob'[t][i].op) <=> HasBegun(rob[t][i].op))
    OBVIOUS
  <2>1. Executes(rob[t][i], "op", rob[t][i].op, rob'[t][i].op,
                 <<t, i, "op">> \in Executed, <<t, i, "op">> \in Replayed \cup Flushed)
    BY <1>1
  <2> QED
    BY <2>1 DEF Executes, HasBegun, Runs, Over, Issuing, IsReady, Fresh, Waits
<1>3. \A u \in Executed : /\ u[1] \in Threads /\ u[2] \in DOMAIN rob[u[1]]
                          /\ u[3] = "op" => u = <<u[1], u[2], "op">>
                          /\ At(u) = rob[u[1]][u[2]]
  BY ExecuteUnits, UnitFacts DEF At
<1>4. \A s \in 1 .. IqSize :
        iq'[s] <=> iq[s] /\ ~ \E u \in Executed : u[3] = "op" /\ At(u).slot = s
  BY DEF Execute
<1>5. ASSUME NEW t \in Threads, NEW i \in DOMAIN rob[t], NEW s \in 1 .. IqSize,
             rob[t][i].slot = s
      PROVE  (\E u \in Executed : u[3] = "op" /\ At(u).slot = s) <=> <<t, i, "op">> \in Executed
  <2>1. <<t, i, "op">>[3] = "op" /\ At(<<t, i, "op">>).slot = s
    BY <1>5 DEF At
  <2>2. ASSUME NEW u \in Executed, u[3] = "op", At(u).slot = s
        PROVE  u = <<t, i, "op">>
    <3>1. /\ u[1] \in Threads /\ u[2] \in DOMAIN rob[u[1]] /\ u = <<u[1], u[2], "op">>
          /\ rob[u[1]][u[2]].slot = s
      BY <1>3, <2>2
    <3>2. s # NoSlot
      BY DEF NoSlot
    <3>3. u[1] = t /\ u[2] = i
      BY <1>5, <3>1, <3>2 DEF Slots
    <3> QED
      BY <3>1, <3>3
  <2> QED
    BY <2>1, <2>2
<1>6. ASSUME NEW t \in Threads, NEW i \in DOMAIN rob[t]
      PROVE  rob[t][i].slot \in 0 .. IqSize /\ (rob[t][i].slot # NoSlot => rob[t][i].slot \in 1 .. IqSize)
  <2>1. rob[t][i].slot \in 0 .. IqSize
    BY EntryFacts DEF EntryTypes
  <2> QED
    BY <2>1, SchedulerAssumption DEF NoSlot
<1>7. ASSUME NEW t \in Threads, NEW i \in DOMAIN rob'[t]
      PROVE  /\ rob'[t][i].dispatched => (rob'[t][i].slot = NoSlot <=> HasBegun(rob'[t][i].op))
             /\ rob'[t][i].slot # NoSlot => iq'[rob'[t][i].slot]
  <2>1. i \in DOMAIN rob[t]
    BY <1>1
  <2>2. rob'[t][i].dispatched => (rob'[t][i].slot = NoSlot <=> HasBegun(rob'[t][i].op))
    <3>1. CASE <<t, i, "op">> \in Executed
      BY <1>1, <1>2, <2>1, <3>1
    <3>2. CASE <<t, i, "op">> \notin Executed
      BY <1>0, <1>1, <1>2, <2>1, <3>2
    <3> QED
      BY <3>1, <3>2
  <2>3. rob'[t][i].slot # NoSlot => iq'[rob'[t][i].slot]
    <3> SUFFICES ASSUME rob'[t][i].slot # NoSlot PROVE iq'[rob'[t][i].slot]
      OBVIOUS
    <3>1. <<t, i, "op">> \notin Executed /\ rob'[t][i].slot = rob[t][i].slot
      BY <1>1, <2>1
    <3>2. rob[t][i].slot \in 1 .. IqSize /\ iq[rob[t][i].slot]
      BY <1>6, <2>1, <3>1 DEF Slots
    <3> QED
      BY <1>4, <1>5, <2>1, <3>1, <3>2
  <2> QED
    BY <2>2, <2>3
<1>8. ASSUME NEW t \in Threads, NEW u \in Threads, NEW i \in DOMAIN rob'[t], NEW j \in DOMAIN rob'[u],
             rob'[t][i].slot = rob'[u][j].slot, rob'[t][i].slot # NoSlot
      PROVE  t = u /\ i = j
  <2>1. i \in DOMAIN rob[t] /\ j \in DOMAIN rob[u]
    BY <1>1
  <2>2. rob'[t][i].slot = rob[t][i].slot /\ rob'[u][j].slot = rob[u][j].slot
    BY <1>1, <1>8, <2>1
  <2>3. rob[t][i].slot = rob[u][j].slot /\ rob[t][i].slot # NoSlot
    BY <1>8, <2>2
  <2> QED
    BY <2>1, <2>3 DEF Slots
<1>9. ASSUME NEW s \in 1 .. IqSize, iq'[s]
      PROVE  \E t \in Threads : \E i \in DOMAIN rob'[t] : rob'[t][i].slot = s
  <2>1. iq[s] /\ ~ \E u \in Executed : u[3] = "op" /\ At(u).slot = s
    BY <1>4, <1>9
  <2>2. PICK t \in Threads : \E i \in DOMAIN rob[t] : rob[t][i].slot = s
    BY <2>1 DEF Slots
  <2>3. PICK i \in DOMAIN rob[t] : rob[t][i].slot = s
    BY <2>2
  <2>4. <<t, i, "op">> \notin Executed
    BY <1>5, <2>1, <2>3
  <2> QED
    BY <1>1, <2>3, <2>4
<1> QED
  BY <1>7, <1>8, <1>9 DEF Slots

(* A head that is done has left the issue queue.                           *)
LEMMA CommitSlots ==
  ASSUME Shapes, Slots, NEW t \in Threads, Commit(t)
  PROVE  Slots'
<1>1. PICK d \in [Threads -> {0, 1}] :
           /\ \A u \in Threads : \A i \in DOMAIN rob'[u] :
                /\ i \in Nat /\ i + d[u] \in DOMAIN rob[u]
                /\ rob'[u][i] = rob[u][i + d[u]]
           /\ \A u \in Threads : \A k \in DOMAIN rob[u] :
                \/ u = t /\ k = 1
                \/ k - d[u] \in DOMAIN rob'[u] /\ rob'[u][k - d[u]] = rob[u][k]
  BY CommitShifts
<1>2. iq' = iq
  BY DEF Commit
<1>3. 1 \in DOMAIN rob[t] /\ rob[t][1].slot = NoSlot
  <2>1. 1 \in DOMAIN rob[t] /\ rob[t][1].op.completed
    BY CommitMoves DEF Done
  <2>2. AnyState(rob[t][1].op) /\ InOrder(rob[t][1])
    BY <2>1, PartInTime, EntryFacts
  <2>3. HasBegun(rob[t][1].op) /\ rob[t][1].dispatched
    <3>1. Over(rob[t][1].op)
      BY <2>1, <2>2 DEF AnyState, Fresh, Waits, IsReady, Issuing, Runs, Over
    <3>2. rob[t][1].dispatched \in BOOLEAN
      BY <2>1, EntryFacts DEF EntryTypes
    <3> QED
      BY <2>2, <3>1, <3>2 DEF HasBegun, InOrder, Fresh, Over
  <2> QED
    BY <2>1, <2>3 DEF Slots
<1>4. ASSUME NEW u \in Threads, NEW v \in Threads, NEW i \in DOMAIN rob'[u], NEW j \in DOMAIN rob'[v],
             rob'[u][i].slot = rob'[v][j].slot, rob'[u][i].slot # NoSlot
      PROVE  u = v /\ i = j
  <2>1. PICK a, b : a = i + d[u] /\ b = j + d[v]
    OBVIOUS
  <2>2. /\ a \in DOMAIN rob[u] /\ rob'[u][i] = rob[u][a] /\ i \in Nat
        /\ b \in DOMAIN rob[v] /\ rob'[v][j] = rob[v][b] /\ j \in Nat
    BY <1>1, <2>1
  <2>3. u = v /\ a = b
    BY <1>4, <2>2 DEF Slots
  <2>4. d[u] \in {0, 1}
    OBVIOUS
  <2> QED
    BY <2>1, <2>2, <2>3, <2>4
<1>5. ASSUME NEW s \in 1 .. IqSize, iq'[s]
      PROVE  \E u \in Threads : \E i \in DOMAIN rob'[u] : rob'[u][i].slot = s
  <2>1. PICK u \in Threads : \E i \in DOMAIN rob[u] : rob[u][i].slot = s
    BY <1>2, <1>5 DEF Slots
  <2>2. PICK k \in DOMAIN rob[u] : rob[u][k].slot = s
    BY <2>1
  <2>3. ~(u = t /\ k = 1)
    BY <1>3, <2>2 DEF NoSlot
  <2> QED
    BY <1>1, <2>2, <2>3
<1>6. ASSUME NEW u \in Threads, NEW i \in DOMAIN rob'[u]
      PROVE  /\ rob'[u][i].dispatched => (rob'[u][i].slot = NoSlot <=> HasBegun(rob'[u][i].op))
             /\ rob'[u][i].slot # NoSlot => iq'[rob'[u][i].slot]
  BY <1>1, <1>2 DEF Slots
<1> QED
  BY <1>4, <1>5, <1>6 DEF Slots

LEMMA DispatchSlots ==
  ASSUME Shapes, Slots, NEW t \in Threads, Dispatch(t)
  PROVE  Slots'
<1>1. PICK i, s, f : DispatchesAs(t, i, s, f)
  BY DispatchMoves
<1>2. /\ f \in EntryTypes /\ f.slot = s /\ f.dispatched
      /\ IsReady(f.op) \/ Waits(f.op)
      /\ i \in DOMAIN rob[t] /\ ~rob[t][i].dispatched
      /\ s \in 1 .. IqSize /\ ~iq[s]
      /\ rob' = [rob EXCEPT ![t][i] = f] /\ iq' = [iq EXCEPT ![s] = TRUE]
  BY <1>1 DEF DispatchesAs, PlacedAs
<1>3. /\ DOMAIN rob'[t] = DOMAIN rob[t]
      /\ rob'[t][i] = f /\ \A j \in DOMAIN rob[t] \ {i} : rob'[t][j] = rob[t][j]
      /\ \A u \in Threads \ {t} : rob'[u] = rob[u]
  BY <1>2, ReplacedEntry
<1>4. rob[t][i].slot = NoSlot
  BY <1>2, EntryFacts DEF InOrder
<1>5. /\ \A x \in 1 .. IqSize : iq'[x] <=> iq[x] \/ x = s
      /\ s # NoSlot
  BY <1>2 DEF Shapes, NoSlot
<1>6. \A u \in Threads : /\ DOMAIN rob'[u] = DOMAIN rob[u]
                         /\ \A j \in DOMAIN rob[u] : \/ u = t /\ j = i /\ rob'[u][j] = f
                                                     \/ ~(u = t /\ j = i) /\ rob'[u][j] = rob[u][j]
  BY <1>2, <1>3
<1>7. \A u \in Threads : \A j \in DOMAIN rob[u] :
        rob[u][j].slot # NoSlot => rob[u][j].slot \in 1 .. IqSize /\ rob[u][j].slot # s
  <2> SUFFICES ASSUME NEW u \in Threads, NEW j \in DOMAIN rob[u], rob[u][j].slot # NoSlot
               PROVE  rob[u][j].slot \in 1 .. IqSize /\ rob[u][j].slot # s
    OBVIOUS
  <2>1. rob[u][j].slot \in 0 .. IqSize
    BY EntryFacts DEF EntryTypes
  <2>2. iq[rob[u][j].slot]
    BY DEF Slots
  <2> QED
    BY <1>2, <2>1, <2>2, SchedulerAssumption DEF NoSlot
<1>8. ~HasBegun(f.op)
  BY <1>2 DEF HasBegun, Runs, Over, IsReady, Waits
<1>9. ASSUME NEW u \in Threads, NEW j \in DOMAIN rob'[u]
      PROVE  /\ rob'[u][j].dispatched => (rob'[u][j].slot = NoSlot <=> HasBegun(rob'[u][j].op))
             /\ rob'[u][j].slot # NoSlot => iq'[rob'[u][j].slot]
  BY <1>2, <1>5, <1>6, <1>7, <1>8 DEF Slots
<1>10. ASSUME NEW u \in Threads, NEW v \in Threads, NEW k \in DOMAIN rob'[u], NEW j \in DOMAIN rob'[v],
             rob'[u][k].slot = rob'[v][j].slot, rob'[u][k].slot # NoSlot
       PROVE  u = v /\ k = j
  BY <1>2, <1>6, <1>7, <1>10 DEF Slots
<1>11. ASSUME NEW x \in 1 .. IqSize, iq'[x]
       PROVE  \E u \in Threads : \E j \in DOMAIN rob'[u] : rob'[u][j].slot = x
  <2>1. CASE x = s
    BY <1>2, <1>3, <2>1
  <2>2. CASE x # s
    <3>1. iq[x] /\ x # NoSlot
      BY <1>5, <1>11, <2>2 DEF NoSlot
    <3>2. PICK u \in Threads : \E j \in DOMAIN rob[u] : rob[u][j].slot = x
      BY <3>1 DEF Slots
    <3>3. PICK j \in DOMAIN rob[u] : rob[u][j].slot = x
      BY <3>2
    <3>4. ~(u = t /\ j = i)
      BY <1>4, <3>1, <3>3
    <3> QED
      BY <1>6, <3>3, <3>4
  <2> QED
    BY <2>1, <2>2
<1> QED
  BY <1>9, <1>10, <1>11 DEF Slots

LEMMA RenameSlots ==
  ASSUME Shapes, Slots, NEW t \in Threads, Rename(t)
  PROVE  Slots'
<1>1. PICK f : RenamesAs(t, f)
  BY RenameMoves
<1>2. /\ f \in EntryTypes /\ ~f.dispatched /\ f.slot = NoSlot
      /\ rob' = [rob EXCEPT ![t] = Append(@, f)]
  BY <1>1 DEF RenamesAs
<1>3. /\ \A u \in Threads : \A j \in DOMAIN rob'[u] :
           rob'[u][j] = f \/ (j \in DOMAIN rob[u] /\ rob'[u][j] = rob[u][j])
      /\ \A u \in Threads : \A j \in DOMAIN rob[u] :
           j \in DOMAIN rob'[u] /\ rob'[u][j] = rob[u][j]
  BY <1>2, AppendedEntry
<1>4. iq' = iq
  BY DEF Rename
<1> QED
  BY <1>2, <1>3, <1>4 DEF Slots

LEMMA SlotsStep == Shapes /\ Slots /\ [Next]_vars => Slots'
<1> SUFFICES ASSUME Shapes, Slots, [Next]_vars PROVE Slots'
  OBVIOUS
<1>1. CASE UNCHANGED vars \/ EndCommit \/ EndDispatch
  <2>1. rob' = rob /\ iq' = iq
    BY <1>1 DEF vars, EndCommit, EndDispatch
  <2> QED
    BY <2>1 DEF Slots
<1>2. CASE Stays /\ ~Execute
  BY <1>2, InPlaceSlots
<1> QED
  BY <1>1, <1>2, ExecuteSlots, CommitSlots, DispatchSlots, RenameSlots DEF Next, Stays

(* The entries in use and the instructions that have not begun are paired. *)
LEMMA SlotsAreExact == Shapes /\ Slots => IqExact
<1> SUFFICES ASSUME Shapes, Slots, NEW s \in 1 .. IqSize
             PROVE  Cardinality({v \in Threads \X (1 .. RobSize) :
                        v[2] \in DOMAIN rob[v[1]] /\ UsesSlot(At(v), s)})
                      = IF iq[s] THEN 1 ELSE 0
  BY DEF IqExact
<1> DEFINE Users == {v \in Threads \X (1 .. RobSize) :
                       v[2] \in DOMAIN rob[v[1]] /\ UsesSlot(At(v), s)}
<1>1. s # NoSlot
  BY SMTT(30) DEF NoSlot
<1>2. ASSUME NEW t \in Threads, NEW i \in DOMAIN rob[t]
      PROVE  UsesSlot(rob[t][i], s) <=> rob[t][i].slot = s
  <2> SUFFICES ASSUME rob[t][i].slot = s PROVE UsesSlot(rob[t][i], s)
    BY DEF UsesSlot
  <2>1. rob[t][i].dispatched
    BY <1>1, EntryFacts DEF InOrder
  <2>2. ~HasBegun(rob[t][i].op)
    BY <1>1, <2>1 DEF Slots
  <2>3. AnyState(rob[t][i].op)
    BY PartInTime
  <2> QED
    BY <2>1, <2>2, <2>3
    DEF UsesSlot, HasBegun, AnyState, Fresh, Waits, IsReady, Issuing, Runs, Over
<1>3. \A v \in Users : v = <<v[1], v[2]>> /\ v[1] \in Threads /\ v[2] \in DOMAIN rob[v[1]]
                       /\ rob[v[1]][v[2]].slot = s
  BY DEF UsesSlot, At
<1>4. CASE iq[s]
  <2>1. PICK t \in Threads : \E i \in DOMAIN rob[t] : rob[t][i].slot = s
    BY <1>4 DEF Slots
  <2>2. PICK i \in DOMAIN rob[t] : rob[t][i].slot = s
    BY <2>1
  <2>3. <<t, i>> \in Users
    <3>1. i \in 1 .. RobSize
      BY EntryFacts
    <3>2. UsesSlot(At(<<t, i>>), s)
      BY <1>2, <2>2 DEF At
    <3> QED
      BY <3>1, <3>2
  <2>4. ASSUME NEW v \in Users PROVE v = <<t, i>>
    <3>1. /\ v = <<v[1], v[2]>> /\ v[1] \in Threads /\ v[2] \in DOMAIN rob[v[1]]
          /\ rob[v[1]][v[2]].slot = s
      BY <1>3, <2>4
    <3>2. v[1] = t /\ v[2] = i
      BY <1>1, <2>2, <3>1 DEF Slots
    <3> QED
      BY <3>1, <3>2
  <2>5. Users = {<<t, i>>}
    BY <2>3, <2>4
  <2> HIDE DEF Users
  <2> QED
    BY <1>4, <2>5, FS_Singleton DEF Users
<1>5. CASE ~iq[s]
  <2>1. Users = {}
    <3> SUFFICES ASSUME NEW v \in Users PROVE FALSE
      OBVIOUS
    <3>1. v[1] \in Threads /\ v[2] \in DOMAIN rob[v[1]] /\ rob[v[1]][v[2]].slot = s
      BY <1>3
    <3> QED
      BY <1>1, <1>5, <3>1 DEF Slots
  <2> HIDE DEF Users
  <2> QED
    BY <1>5, <2>1, FS_EmptySet DEF Users
<1> QED
  BY <1>4, <1>5

(***************************************************************************)
(* With the recovery model "perfect" what is predicted is what happens.    *)
(***************************************************************************)
Foretold(v) == v.spec_ready = Never \/ (v.ready # Never /\ v.ready <= v.spec_ready + Delay)

InTimeFor(q, e, p) == Issuing(q) => \A r \in SrcsOf(e, p) : reg[r].ready <= q.when

LEMMA ExactIs ==
  ASSUME ~Squash
  PROVE  Exact <=> /\ \A r \in Regs : Foretold(reg[r])
                   /\ \A t \in Threads : \A i \in DOMAIN rob[t] : \A p \in {"op", "mem"} :
                        InTimeFor(rob[t][i][p], rob[t][i], p)
BY DEF Exact, Foretold, InTimeFor

LEMMA NoReplays ==
  ASSUME Shapes, Exact, ~Squash, NEW t \in Threads
  PROVE  ~Replays(t)
<1> SUFFICES ASSUME NEW u \in TooEarly(t) PROVE FALSE
  BY DEF Replays
<1>1. u \in On("issue_exec") /\ PartOf(u).when <= 0 /\ ~OperandsReady(At(u), u[3])
  BY DEF TooEarly, Due
<1>2. u \in Units
  BY <1>1 DEF On
<1>3. Issuing(PartOf(u)) /\ PartOf(u) \in PartTypes /\ InTime(PartOf(u), stage)
  BY <1>1, <1>2, UnitPart
<1>4. /\ u[1] \in Threads /\ u[2] \in DOMAIN rob[u[1]] /\ u[3] \in {"op", "mem"}
      /\ At(u) = rob[u[1]][u[2]] /\ PartOf(u) = rob[u[1]][u[2]][u[3]]
  BY <1>2, UnitFacts DEF At, PartOf
<1>5. PICK r \in SrcsOf(At(u), u[3]) : ~(reg[r].ready <= 0)
  BY <1>1 DEF OperandsReady
<1>6. reg[r].ready <= PartOf(u).when
  <2>1. InTimeFor(PartOf(u), At(u), u[3])
    BY <1>4, ExactIs
  <2> QED
    BY <1>3, <1>5, <2>1 DEF InTimeFor
<1>7. r \in Regs
  BY <1>4, <1>5, OperandFacts
<1>8. reg[r].ready \in Times
  BY <1>7 DEF Shapes
<1>9. PICK x, y \in Int : x = reg[r].ready /\ y = PartOf(u).when
  BY <1>3, <1>8, TimeFacts DEF Times, InTime
<1> QED
  BY <1>1, <1>5, <1>6, <1>9

(* In place, with the registers as they were.                              *)
LEMMA ExactInPlace ==
  ASSUME Shapes, Exact, ~Squash, InPlace, reg' = reg, UNCHANGED recovery_model_v,
         \A t \in Threads : \A i \in DOMAIN rob[t] : \A p \in {"op", "mem"} :
           Issuing(rob'[t][i][p]) => rob'[t][i][p] = rob[t][i][p]
  PROVE  Exact'
<1>1. \A r \in Regs : Foretold(reg'[r])
  BY ExactIs
<1>2. ASSUME NEW t \in Threads, NEW i \in DOMAIN rob'[t], NEW p \in {"op", "mem"},
             Issuing(rob'[t][i][p])
      PROVE  \A r \in SrcsOf(rob'[t][i], p) : reg'[r].ready <= rob'[t][i][p].when
  <2>1. i \in DOMAIN rob[t] /\ Kept(rob[t][i], rob'[t][i])
    BY DEF InPlace
  <2>2. SrcsOf(rob'[t][i], p) = SrcsOf(rob[t][i], p)
    BY <2>1, SrcsKept
  <2>3. InTimeFor(rob[t][i][p], rob[t][i], p)
    BY <2>1, ExactIs
  <2> QED
    BY <1>2, <2>1, <2>2, <2>3 DEF InTimeFor
<1> QED
  BY <1>1, <1>2 DEF Exact, Foretold

LEMMA WritebackExact ==
  ASSUME Shapes, Exact, ~Squash, Writeback, UNCHANGED recovery_model_v
  PROVE  Exact'
<1>1. reg' = reg
  BY DEF Writeback
<1>2. ASSUME NEW t \in Threads, NEW i \in DOMAIN rob[t], NEW p \in {"op", "mem"},
             Issuing(rob'[t][i][p])
      PROVE  rob'[t][i][p] = rob[t][i][p]
  <2>1. Finishes(rob[t][i][p], rob'[t][i][p])
    BY WritebackMoves
  <2> QED
    BY <1>2, <2>1 DEF Finishes, Over, Issuing
<1> QED
  BY <1>1, <1>2, WritebackMoves, ExactInPlace

LEMMA EnterExact ==
  ASSUME Shapes, Exact, ~Squash, LsqRefresh \/ Wakeup, UNCHANGED recovery_model_v
  PROVE  Exact'
<1>1. reg' = reg /\ InPlace
  BY LsqRefreshMoves, WakeupMoves DEF LsqRefresh, Wakeup
<1>2. ASSUME NEW t \in Threads, NEW i \in DOMAIN rob[t], NEW p \in {"op", "mem"},
             Issuing(rob'[t][i][p])
      PROVE  rob'[t][i][p] = rob[t][i][p]
  <2>1. \E b : Enters(rob[t][i][p], rob'[t][i][p], b)
    BY LsqRefreshMoves, WakeupMoves
  <2> QED
    BY <1>2, <2>1 DEF Enters, IsReady, Issuing
<1> QED
  BY <1>1, <1>2, ExactInPlace

LEMMA ExecuteExact ==
  ASSUME Shapes, Exact, ~Squash, Execute, UNCHANGED recovery_model_v
  PROVE  Exact'
<1>1. \A t \in Threads : ~Replays(t)
  BY NoReplays
<1>2. \A r : ~Withdrawn(r) /\ ~Adjusted(r)
  <2>1. \A u \in Replayed : u[1] \in Threads /\ Replays(u[1])
    BY ExecuteUnits, UnitFacts
  <2> QED
    BY <1>1, <2>1 DEF Withdrawn, Adjusted
<1>3. reg' = reg
  <2>1. reg' = [r \in Regs |-> reg[r]]
    BY <1>2 DEF Execute
  <2> QED
    BY <2>1 DEF Shapes
<1>4. ASSUME NEW t \in Threads, NEW i \in DOMAIN rob[t], NEW p \in {"op", "mem"},
             Issuing(rob'[t][i][p])
      PROVE  rob'[t][i][p] = rob[t][i][p]
  <2>1. Executes(rob[t][i], p, rob[t][i][p], rob'[t][i][p],
                 <<t, i, p>> \in Executed, <<t, i, p>> \in Replayed \cup Flushed)
    BY ExecuteMoves
  <2> QED
    BY <1>4, <2>1 DEF Executes, Runs, Fresh, Waits, Issuing
<1> QED
  BY <1>3, <1>4, ExecuteMoves, ExactInPlace

LEMMA SelectionExact ==
  ASSUME Shapes, RegsInv, Exact, ~Squash, Selection, UNCHANGED recovery_model_v
  PROVE  Exact'
<1>1. PICK I, lat, hit : Chosen(I, lat, hit)
  BY SelectionChooses
<1>2. InPlace /\ I \subseteq Units /\ Timed /\ ReadyHolds
  BY <1>1, SelectionMoves DEF Chosen, On, RegsInv
<1>3. \A r \in Regs : Foretold(reg[r]) /\ reg[r].ready \in Times /\ reg[r].spec_ready \in Times
  BY ExactIs DEF Shapes
<1>4. ASSUME NEW r \in Regs PROVE Foretold(reg'[r])
  <2>1. CASE \A u \in I : ~Announces(u, r)
    BY <1>1, <1>3, <2>1, AfterIssueFacts
  <2>2. CASE \E u \in I : Announces(u, r)
    <3>1. PICK u \in I : Announces(u, r) /\ AnnouncedAs(reg'[r], u, lat, hit)
      BY <1>1, <2>2, AfterIssueFacts
    <3>2. PICK l \in Nat : l = lat[u] /\ l + Delay <= MaxTime
      BY <1>2, <3>1, LatencyIsTime DEF AnnouncedAs
    <3>3. PICK b : b = (IsLoadAccess(u) /\ hit[u])
      OBVIOUS
    <3>4. reg'[r].spec_ready = SpecReady(u, l, b) /\ reg'[r].ready = ReadyTime(l)
      BY <3>1, <3>2, <3>3 DEF AnnouncedAs
    <3>5. reg'[r].spec_ready = l /\ reg'[r].ready = l + Delay
      BY <3>2, <3>4, SpecReadyFacts
    <3>6. l + Delay # Never /\ l + Delay <= l + Delay
      BY <3>2, TimeFacts
    <3> QED
      BY <3>5, <3>6 DEF Foretold
  <2> QED
    BY <2>1, <2>2
<1>5. ASSUME NEW t \in Threads, NEW i \in DOMAIN rob'[t], NEW p \in {"op", "mem"},
             Issuing(rob'[t][i][p]), NEW r \in SrcsOf(rob'[t][i], p)
      PROVE  reg'[r].ready <= rob'[t][i][p].when
  <2>1. i \in DOMAIN rob[t] /\ Kept(rob[t][i], rob'[t][i])
    BY <1>2 DEF InPlace
  <2>2. r \in SrcsOf(rob[t][i], p) /\ r \in Regs
    <3>1. SrcsOf(rob'[t][i], p) = SrcsOf(rob[t][i], p)
      BY <2>1, SrcsKept
    <3> QED
      BY <2>1, <3>1, OperandFacts
  <2>3. Issues(rob[t][i], p, rob[t][i][p], rob'[t][i][p], <<t, i, p>> \in I, lat[<<t, i, p>>])
    BY <1>1, <2>1, SelectionMoves
  <2>4. CASE <<t, i, p>> \in I
    <3>1. IsReady(rob[t][i][p]) /\ rob'[t][i][p].when = Delay
      BY <1>5, <2>3, <2>4 DEF Issues, Over, Issuing
    <3>2. reg[r].spec_ready <= 0
      BY <1>2, <2>1, <2>2, <3>1 DEF ReadyHolds, OperandsSpecReady
    <3>3. reg[r].spec_ready # Never
      BY <3>2, TimeFacts
    <3>4. reg'[r] = reg[r]
      BY <1>1, <1>2, <2>2, <3>3, SelectionChanges DEF Unknown
    <3>5. reg[r].ready <= reg[r].spec_ready + Delay
      BY <1>3, <2>2, <3>3 DEF Foretold
    <3>6. PICK x, y \in Int : x = reg[r].ready /\ y = reg[r].spec_ready
      BY <1>3, <2>2, TimeFacts DEF Times
    <3>7. x <= Delay
      BY <3>2, <3>5, <3>6, TimeFacts
    <3> QED
      BY <3>1, <3>4, <3>6, <3>7
  <2>5. CASE <<t, i, p>> \notin I
    <3>1. rob'[t][i][p] = rob[t][i][p]
      BY <2>3, <2>5 DEF Issues
    <3>2. InTimeFor(rob[t][i][p], rob[t][i], p)
      BY <2>1, ExactIs
    <3>3. reg[r].ready <= rob[t][i][p].when
      BY <1>5, <2>2, <3>1, <3>2 DEF InTimeFor
    <3>4. rob[t][i][p].when \in Past .. MaxTime
      BY <2>1, PartInTime DEF InTime
    <3>5. reg[r].ready # Never
      BY <3>3, <3>4, TimeFacts
    <3>6. reg'[r] = reg[r]
      BY <1>1, <1>2, <2>2, <3>5, SelectionChanges DEF Unknown
    <3> QED
      BY <3>1, <3>3, <3>6
  <2> QED
    BY <2>4, <2>5
<1> QED
  BY <1>4, <1>5 DEF Exact, Foretold

LEMMA EndCycleExact ==
  ASSUME Shapes, Exact, ~Squash, EndCycle, UNCHANGED recovery_model_v
  PROVE  Exact'
<1>1. InPlace /\ stage = "register_rename"
  BY EndCycleMoves DEF EndCycle
<1>2. \A r \in Regs : /\ reg'[r].ready = Later(reg[r].ready)
                      /\ reg'[r].spec_ready = Later(reg[r].spec_ready)
                      /\ reg[r].ready \in Times /\ reg[r].spec_ready \in Times
                      /\ Foretold(reg[r])
  BY ExactIs DEF EndCycle, Shapes
<1>3. ASSUME NEW r \in Regs PROVE Foretold(reg'[r])
  <2>1. CASE reg[r].spec_ready = Never
    BY <1>2, <2>1 DEF Foretold, Later
  <2>2. CASE reg[r].spec_ready # Never
    <3>1. reg[r].ready # Never /\ reg[r].ready <= reg[r].spec_ready + Delay
      BY <1>2, <2>2 DEF Foretold
    <3>2. PICK x, y \in Past .. MaxTime : x = reg[r].ready /\ y = reg[r].spec_ready
      BY <1>2, <2>2, <3>1 DEF Times
    <3>3. x \in Times /\ x # Never /\ y \in Times /\ y # Never /\ x \in Int /\ y \in Int
      BY <2>2, <3>1, <3>2, TimeFacts DEF Times
    <3>4. /\ Later(x) = (IF x = Past THEN Past ELSE x - 1) /\ Later(x) # Never
          /\ Later(y) = (IF y = Past THEN Past ELSE y - 1)
      BY <3>3, LaterFacts, TimeFacts
    <3>5. Later(x) <= Later(y) + Delay
      BY <3>1, <3>2, <3>3, <3>4, TimeFacts
    <3> QED
      BY <1>2, <3>2, <3>4, <3>5 DEF Foretold
  <2> QED
    BY <2>1, <2>2
<1>4. ASSUME NEW t \in Threads, NEW i \in DOMAIN rob'[t], NEW p \in {"op", "mem"},
             Issuing(rob'[t][i][p]), NEW r \in SrcsOf(rob'[t][i], p)
      PROVE  reg'[r].ready <= rob'[t][i][p].when
  <2>1. i \in DOMAIN rob[t] /\ Kept(rob[t][i], rob'[t][i])
    BY <1>1 DEF InPlace
  <2>2. r \in SrcsOf(rob[t][i], p) /\ r \in Regs
    BY <2>1, SrcsKept, OperandFacts, SMTT(30)
  <2>3. PICK q, q2 : q = rob[t][i][p] /\ q2 = rob'[t][i][p]
    OBVIOUS
  <2>4. Ages(q, q2) /\ InTime(q, "register_rename")
    BY <1>1, <2>1, <2>3, EndCycleMoves, PartInTime
  <2>5. Issuing(q) /\ q2.when = Later(q.when)
    BY <1>4, <2>3, <2>4 DEF Ages, SameState, Issuing, Fresh
  <2>6. PICK x \in 1 .. Delay : x = q.when
    BY <2>4, <2>5 DEF InTime, IssueFrom
  <2>7. reg[r].ready <= x
    <3>1. InTimeFor(q, rob[t][i], p)
      BY <2>1, <2>3, ExactIs
    <3> QED
      BY <2>2, <2>5, <2>6, <3>1 DEF InTimeFor
  <2>8. x \in Times /\ x # Never /\ x # Past /\ x \in Int /\ x <= MaxTime
    BY <2>6, TimeFacts DEF Times
  <2>9. Later(x) = x - 1
    BY <2>8, LaterFacts
  <2>10. reg[r].ready # Never
    BY <2>7, <2>8, TimeFacts
  <2>11. PICK y \in Past .. MaxTime : y = reg[r].ready
    BY <1>2, <2>2, <2>10 DEF Times
  <2>12. y \in Times /\ y # Never /\ y \in Int
    BY <2>10, <2>11, TimeFacts DEF Times
  <2>13. Later(y) = IF y = Past THEN Past ELSE y - 1
    BY <2>12, LaterFacts
  <2>14. Later(y) <= x - 1
    BY <2>6, <2>7, <2>8, <2>11, <2>12, <2>13, TimeFacts
  <2> QED
    BY <1>2, <2>2, <2>3, <2>5, <2>6, <2>9, <2>11, <2>14
<1> QED
  BY <1>3, <1>4 DEF Exact, Foretold

(* Steps that add, remove or place an instruction.                         *)
LEMMA OtherExact ==
  ASSUME Shapes, RegsInv, Exact, ~Squash, NEW t \in Threads,
         Commit(t) \/ Dispatch(t) \/ Rename(t), UNCHANGED recovery_model_v
  PROVE  Exact'
<1>1. \A r \in Regs : Foretold(reg[r])
  BY ExactIs
<1>2. \A u \in Threads : \A i \in DOMAIN rob[u] : \A p \in {"op", "mem"} :
        InTimeFor(rob[u][i][p], rob[u][i], p)
  BY ExactIs
<1>3. CASE Commit(t)
  <2>1. PICK d \in [Threads -> {0, 1}] :
          \A u \in Threads : \A i \in DOMAIN rob'[u] :
            i + d[u] \in DOMAIN rob[u] /\ rob'[u][i] = rob[u][i + d[u]]
    BY <1>3, CommitShifts
  <2>2. reg' = reg
    BY <1>3 DEF Commit
  <2>3. \A u \in Threads : \A i \in DOMAIN rob'[u] : \A p \in {"op", "mem"} :
          Issuing(rob'[u][i][p]) => \A r \in SrcsOf(rob'[u][i], p) : reg'[r].ready <= rob'[u][i][p].when
    BY <1>2, <2>1, <2>2 DEF InTimeFor
  <2> QED
    BY <1>1, <2>2, <2>3 DEF Exact, Foretold
<1>4. CASE Dispatch(t)
  <2>1. PICK i, s, f : DispatchesAs(t, i, s, f)
    BY <1>4, DispatchMoves
  <2>2. /\ f \in EntryTypes /\ i \in DOMAIN rob[t] /\ ~rob[t][i].dispatched
        /\ PlacedAs(rob[t][i], "op", f.op)
        /\ IF IsStore(rob[t][i]) THEN PlacedAs(rob[t][i], "mem", f.mem)
           ELSE f.mem = rob[t][i].mem
        /\ rob' = [rob EXCEPT ![t][i] = f]
    BY <2>1 DEF DispatchesAs
  <2>3. Fresh(rob[t][i].mem)
    BY <2>2, EntryFacts DEF InOrder
  <2>4. \A p \in {"op", "mem"} : ~Issuing(f[p])
    BY <2>2, <2>3 DEF PlacedAs, IsReady, Waits, Fresh, Issuing
  <2>5. \A u \in Threads : \A j \in DOMAIN rob'[u] :
          rob'[u][j] = f \/ (j \in DOMAIN rob[u] /\ rob'[u][j] = rob[u][j])
    BY <2>2, ReplacedEntry
  <2>6. reg' = reg
    BY <1>4 DEF Dispatch
  <2>7. \A u \in Threads : \A j \in DOMAIN rob'[u] : \A p \in {"op", "mem"} :
          Issuing(rob'[u][j][p]) => \A r \in SrcsOf(rob'[u][j], p) : reg'[r].ready <= rob'[u][j][p].when
    BY <1>2, <2>4, <2>5, <2>6 DEF InTimeFor
  <2> QED
    BY <1>1, <2>6, <2>7 DEF Exact, Foretold
<1>5. CASE Rename(t)
  <2>1. PICK f : RenamesAs(t, f)
    BY <1>5, RenameMoves
  <2>2. f \in EntryTypes /\ Fresh(f.op) /\ Fresh(f.mem) /\ rob' = [rob EXCEPT ![t] = Append(@, f)]
    BY <2>1 DEF RenamesAs
  <2>3. \A p \in {"op", "mem"} : ~Issuing(f[p])
    BY <2>2 DEF Fresh, Issuing
  <2>4. \A u \in Threads : \A j \in DOMAIN rob'[u] :
          rob'[u][j] = f \/ (j \in DOMAIN rob[u] /\ rob'[u][j] = rob[u][j])
    BY <2>2, AppendedEntry
  <2>5. \A r \in Regs : r # f.dest => reg'[r] = reg[r]
    BY <2>1 DEF RenamesAs, Shapes
  <2>6. ASSUME NEW r \in Regs PROVE Foretold(reg'[r])
    <3>1. CASE reg'[r] = reg[r]
      BY <1>1, <3>1
    <3>2. CASE reg'[r] # reg[r]
      <4>1. reg'[r] = [spec_ready |-> Never, ready |-> Never]
        BY <2>1, <2>5, <3>2 DEF RenamesAs, Shapes
      <4> QED
        BY <4>1 DEF Foretold
    <3> QED
      BY <3>1, <3>2
  <2>7. ASSUME NEW u \in Threads, NEW j \in DOMAIN rob'[u], NEW p \in {"op", "mem"},
               Issuing(rob'[u][j][p]), NEW r \in SrcsOf(rob'[u][j], p)
        PROVE  reg'[r].ready <= rob'[u][j][p].when
    <3>1. j \in DOMAIN rob[u] /\ rob'[u][j] = rob[u][j]
      BY <2>3, <2>4, <2>7
    <3>2. r \in Regs /\ r \in {rob[u][j].src[1], rob[u][j].src[2]} \ {NoReg}
      BY <2>7, <3>1, OperandFacts
    <3>3. r # f.dest
      BY <2>1, <3>1, <3>2, NewOperands DEF RegsInv
    <3>4. reg[r].ready <= rob[u][j][p].when
      BY <1>2, <2>7, <3>1 DEF InTimeFor
    <3> QED
      BY <2>5, <3>1, <3>2, <3>3, <3>4
  <2> QED
    BY <2>6, <2>7 DEF Exact, Foretold
<1> QED
  BY <1>3, <1>4, <1>5

LEMMA ExactStep == Shapes /\ RegsInv /\ Exact /\ [Next]_vars => Exact'
<1> SUFFICES ASSUME Shapes, RegsInv, Exact, [Next]_vars PROVE Exact'
  OBVIOUS
<1>1. recovery_model_v' = recovery_model_v
  BY DEF Next, vars
<1>2. CASE Squash
  BY <1>1, <1>2 DEF Exact, Squash
<1>3. CASE UNCHANGED vars \/ EndCommit \/ EndDispatch
  <2>1. rob' = rob /\ reg' = reg
    BY <1>3 DEF vars, EndCommit, EndDispatch
  <2> QED
    BY <1>1, <2>1 DEF Exact, Squash
<1> QED
  BY <1>1, <1>2, <1>3, WritebackExact, EnterExact, SelectionExact, ExecuteExact,
     EndCycleExact, OtherExact DEF Next

(***************************************************************************)
(* The invariants follow.                                                  *)
(***************************************************************************)
Inv == Shapes /\ RegsInv /\ Fed /\ Flow /\ Slots /\ Exact

LEMMA InitInv == Init => Inv
<1> SUFFICES ASSUME Init PROVE Inv
  OBVIOUS
<1>1. Shapes /\ RegsInv
  BY InitShapes, InitRegs
<1>2. /\ \A t \in Threads : DOMAIN rob[t] = {}
      /\ \A s \in 1 .. IqSize : ~iq[s]
      /\ \A r \in Regs : reg[r] = [spec_ready |-> Past, ready |-> Past]
  BY DEF Init
<1>3. Fed /\ Flow /\ Slots
  BY <1>2 DEF Fed, Flow, Slots
<1>4. Exact
  <2>1. Past # Never /\ Past <= Past + Delay
    BY TimeFacts
  <2> QED
    BY <1>2, <2>1 DEF Exact
<1> QED
  BY <1>1, <1>3, <1>4 DEF Inv

LEMMA Invariance == Spec => []Inv
<1>1. Inv /\ [Next]_vars => Inv'
  BY ShapesStep, RegsStep, FedStep, SlotsStep, ExactStep DEF Inv
<1> QED
  BY <1>1, InitInv, PTL DEF Spec

LEMMA QueuesFollow == Shapes => QueuesInv
<1> SUFFICES ASSUME Shapes PROVE QueuesInv
  OBVIOUS
<1>1. ASSUME NEW t \in Threads, NEW i \in DOMAIN rob[t]
      PROVE  LET e == rob[t][i] IN
             /\ e.class \in Classes /\ e.dest \in Regs \cup {NoReg}
             /\ e.slot \in 0 .. IqSize /\ e.dispatched \in BOOLEAN
             /\ {e.op, e.mem} \subseteq PartTypes
  BY EntryFacts DEF EntryTypes, Operands
<1>2. SchedTypeOK
  BY <1>1 DEF SchedTypeOK, Shapes
<1>3. ASSUME NEW u \in Units
      PROVE  LET q == PartOf(u) IN
             /\ "ready" \in q.lists <=> q.queued
             /\ "issue_exec" \in q.lists \/ "event" \in q.lists <=> q.issued /\ ~q.completed
             /\ \A a, b \in q.lists : a = b
             /\ q.completed => q.lists = {} /\ ~q.queued
             /\ At(u).dispatched /\ ~q.completed /\ q.lists = {} => IsLoadAccess(u)
  <2>1. /\ u[1] \in Threads /\ u[2] \in DOMAIN rob[u[1]] /\ u[3] \in {"op", "mem"}
        /\ u[3] \in Parts(rob[u[1]][u[2]])
    BY UnitFacts
  <2>2. PICK e : e = rob[u[1]][u[2]] /\ e \in EntryTypes /\ InOrder(e)
    BY <2>1, EntryFacts
  <2>3. At(u) = e /\ PartOf(u) = e[u[3]]
    BY <2>2 DEF At, PartOf
  <2>4. PICK q : q = PartOf(u) /\ AnyState(q)
    BY <2>1, <2>2, <2>3, PartFacts
  <2>5. /\ "ready" \in q.lists <=> q.queued
        /\ "issue_exec" \in q.lists \/ "event" \in q.lists <=> q.issued /\ ~q.completed
        /\ \A a, b \in q.lists : a = b
        /\ q.completed => q.lists = {} /\ ~q.queued
        /\ ~q.completed /\ q.lists = {} => Fresh(q)
    BY <2>4 DEF AnyState, Fresh, Waits, IsReady, Issuing, Runs, Over
  <2>6. e.dispatched /\ Fresh(q) => IsLoadAccess(u)
    <3> SUFFICES ASSUME e.dispatched, Fresh(q) PROVE IsLoadAccess(u)
      OBVIOUS
    <3>1. ~Waits(q) /\ ~IsReady(q) /\ ~Issuing(q) /\ ~Runs(q) /\ ~Over(q)
      BY SMTT(30) DEF Fresh, Waits, IsReady, Issuing, Runs, Over
    <3>2. u[3] = "mem"
      BY <2>1, <2>2, <2>3, <2>4, <3>1, SMTT(30) DEF InOrder
    <3>3. ~IsStore(e) /\ IsMem(e)
      BY <2>1, <2>2, <2>3, <2>4, <3>1, <3>2 DEF InOrder, Parts
    <3> QED
      BY <2>3, <3>2, <3>3 DEF IsLoadAccess, IsMem, IsStore, MemClasses, StoreClasses
  <2> QED
    BY <2>3, <2>4, <2>5, <2>6
<1>4. OnOneList
  BY <1>3 DEF OnOneList
<1> QED
  BY <1>2, <1>4 DEF QueuesInv

LEMMA AssertionsFollow == Shapes /\ RegsInv => AssertionsHold
<1> SUFFICES ASSUME Shapes, RegsInv PROVE AssertionsHold
  OBVIOUS
<1>1. ASSUME stage = "writeback", NEW u \in Finished, Produces(At(u), u[3])
      PROVE  reg[At(u).dest].ready = 0
  <2>1. u \in Units /\ u \in On("event") /\ PartOf(u).when <= 0
    BY DEF Finished, On
  <2>2. Runs(PartOf(u)) /\ InTime(PartOf(u), "writeback")
    BY <1>1, <2>1, UnitPart
  <2>3. PartOf(u).when = 0
    BY <2>1, <2>2, TimeFacts DEF InTime, RunFrom
  <2>4. Announced(At(u).class, PartOf(u), reg[At(u).dest])
    BY <1>1, <2>1, TimedUnit DEF RegsInv
  <2> QED
    BY <2>2, <2>3, <2>4 DEF Announced
<1>2. ASSUME NEW u \in On("ready") PROVE OperandsSpecReady(At(u), u[3])
  <2>1. u \in Units
    BY DEF On
  <2>2. /\ u[1] \in Threads /\ u[2] \in DOMAIN rob[u[1]] /\ u[3] \in {"op", "mem"}
        /\ At(u) = rob[u[1]][u[2]] /\ PartOf(u) = rob[u[1]][u[2]][u[3]]
    BY <2>1, UnitFacts DEF At, PartOf
  <2>3. IsReady(PartOf(u))
    BY <2>1, UnitPart
  <2> QED
    BY <2>2, <2>3 DEF RegsInv, ReadyHolds
<1> QED
  BY <1>1, <1>2 DEF AssertionsHold, ResultOnTime, ReadyStaysReady

(* What has begun by its flags and lists has begun.                        *)
LEMMA BegunFacts ==
  ASSUME Shapes, NEW u \in Units
  PROVE  /\ u[1] \in Threads /\ u[2] \in DOMAIN rob[u[1]] /\ u[3] \in {"op", "mem"}
         /\ At(u) = rob[u[1]][u[2]] /\ PartOf(u) = rob[u[1]][u[2]][u[3]]
         /\ \A j \in 1 .. u[2] - 1 : j \in DOMAIN rob[u[1]]
         /\ Begun(u) => HasBegun(rob[u[1]][u[2]][u[3]])
<1>1. /\ u[1] \in Threads /\ u[2] \in DOMAIN rob[u[1]] /\ u[3] \in {"op", "mem"}
      /\ At(u) = rob[u[1]][u[2]] /\ PartOf(u) = rob[u[1]][u[2]][u[3]]
  BY UnitFacts DEF At, PartOf
<1>2. \A j \in 1 .. u[2] - 1 : j \in DOMAIN rob[u[1]]
  <2>1. DOMAIN rob[u[1]] = 1 .. Len(rob[u[1]]) /\ Len(rob[u[1]]) \in Nat /\ u[2] \in Nat
    BY <1>1, EntryFacts
  <2> QED
    BY <1>1, <2>1
<1>3. AnyState(PartOf(u))
  BY <1>1, PartInTime
<1>4. Begun(u) => HasBegun(PartOf(u))
  BY <1>3 DEF Begun, HasBegun, AnyState, Fresh, Waits, IsReady, Issuing, Runs, Over
<1> QED
  BY <1>1, <1>2, <1>4

LEMMA DataFlowFollows == Shapes /\ Flow => DataFlow
<1> SUFFICES ASSUME Shapes, Flow, NEW u \in Units, NEW j \in 1 .. u[2] - 1,
                    Begun(u), ~IsStoreAccess(u),
                    rob[u[1]][j].dest \in SrcsOf(At(u), u[3]),
                    rob[u[1]][j].class # "store_cond"
             PROVE  IF IsMem(rob[u[1]][j]) THEN rob[u[1]][j].mem.completed
                    ELSE rob[u[1]][j].op.completed
  BY DEF DataFlow
<1>1. /\ u[1] \in Threads /\ u[2] \in DOMAIN rob[u[1]] /\ u[3] \in {"op", "mem"}
      /\ At(u) = rob[u[1]][u[2]] /\ j \in DOMAIN rob[u[1]]
      /\ HasBegun(rob[u[1]][u[2]][u[3]])
  BY BegunFacts
<1>2. ~IsStorePart(rob[u[1]][u[2]], u[3])
  BY <1>1 DEF IsStorePart, IsStoreAccess
<1>3. Over(Producer(rob[u[1]][j]))
  BY <1>1, <1>2 DEF Flow
<1> QED
  BY <1>3 DEF Over, Producer, ProducingPart

LEMMA LoadsFollow == Shapes /\ Fed /\ LoadsBehind => LoadsFollowStores
<1> SUFFICES ASSUME Shapes, Fed, LoadsBehind, NEW u \in Units, IsLoadAccess(u), Begun(u),
                    NEW j \in 1 .. u[2] - 1, IsStore(rob[u[1]][j]),
                    NEW r \in SrcsOf(rob[u[1]][j], "op")
             PROVE  reg[r].ready <= 0
  BY DEF LoadsFollowStores
<1>1. /\ u[1] \in Threads /\ u[2] \in DOMAIN rob[u[1]]
      /\ At(u) = rob[u[1]][u[2]] /\ j \in DOMAIN rob[u[1]]
      /\ HasBegun(rob[u[1]][u[2]][u[3]])
  BY BegunFacts
<1>2. rob[u[1]][u[2]].class = "load" /\ HasBegun(rob[u[1]][u[2]].mem)
  BY <1>1 DEF IsLoadAccess
<1>3. HasBegun(rob[u[1]][j].op)
  BY <1>1, <1>2 DEF LoadsBehind, Behind
<1>4. OperandsReady(rob[u[1]][j], "op")
  BY <1>1, <1>3 DEF Fed
<1> QED
  BY <1>4 DEF OperandsReady

LEMMA ReplayFollows == Shapes /\ Slots /\ Exact => ReplayInv
BY SlotsAreExact, NoReplays DEF ReplayInv, PerfectNeverReplays

(* The invariant of types and queues: each instruction is on the one list  *)
(* that its flags say, through every issue, replay and completion.         *)
THEOREM QueuesAgree == Spec => []QueuesInv
BY Invariance, QueuesFollow, PTL DEF Inv

(* What writeback(), selection() and execute() assert or panic about never *)
(* happens: a result comes in the cycle that was announced, and what is in *)
(* the ready queue still has its operands after the replays of others.     *)
THEOREM AnnouncedIsKept == Spec => []AssertionsHold
BY Invariance, AssertionsFollow, PTL DEF Inv

(* No instruction executes before those it reads from have delivered,      *)
(* whatever was predicted of their latency and however often they replay.  *)
THEOREM OperandsCome == Spec => []DataFlow
BY Invariance, DataFlowFollows, PTL DEF Inv

(* An entry of the issue queue in use belongs to exactly one instruction   *)
(* that has not begun, and perfect recovery never replays.                 *)
THEOREM ReplaysAreHarmless == Spec => []ReplayInv
BY Invariance, ReplayFollows, PTL DEF Inv

(* With a functional unit for every instruction a load executes after the  *)
(* address computations of all older stores.                               *)
THEOREM LoadsComeAfterStores ==
  ASSUME UnitsFree
  PROVE  Spec => []LoadsFollowStores
<1>1. Init => LoadsBehind
  <2> SUFFICES ASSUME Init PROVE LoadsBehind
    OBVIOUS
  <2>1. \A t \in Threads : DOMAIN rob[t] = {}
    BY DEF Init
  <2> QED
    BY <2>1 DEF LoadsBehind
<1>2. Inv /\ LoadsBehind /\ [Next]_vars => LoadsBehind'
  BY BehindStep DEF Inv
<1>3. Inv /\ LoadsBehind => LoadsFollowStores
  BY LoadsFollow DEF Inv
<1> QED
  BY <1>1, <1>2, <1>3, Invariance, PTL DEF Spec

=============================================================================
