------------------------ MODULE RegisterRenameProofs ------------------------
(***************************************************************************)
(* Proofs about RegisterRename, for every number of threads and registers, *)
(* every cap and every size of the queues.                                 *)
(*                                                                         *)
(* RegisterInv is inductive: InitInv, then one lemma per action (FetchStep *)
(* to WritebackRecoverStep), gathered in NextStep.  The argument turns on  *)
(* MapHistory: the mapping that an instruction sees is what the youngest   *)
(* older writer in the ROB took, or architectural.  So the register that   *)
(* the ROB head replaced is architectural (HeadReplacedArch), and what a   *)
(* rollback restores was never taken by an instruction it squashes         *)
(* (SeenSurvives, RestoredSeen).  The last part proves the refinement.     *)
(***************************************************************************)
EXTENDS ArchRefinement, TLAPS, FiniteSetTheorems, SequenceTheorems,
        WellFoundedInduction

(* Every non-empty set of natural numbers has a least element.             *)
LEMMA LeastElement ==
  ASSUME NEW S, S \subseteq Nat, S # {}
  PROVE  \E x \in S : \A y \in S : x <= y
<1>1. PICK x \in S : \A y \in S : ~ (<<y, x>> \in OpToRel(<, Nat))
  BY NatLessThanWellFounded, WFMin
<1>2. \A y \in S : ~ (y < x)
  BY <1>1 DEF OpToRel
<1> QED
  BY <1>2

(* What the renamer may assume of a decoded instruction.                   *)
LEMMA InstFacts ==
  ASSUME NEW inst \in Insts
  PROVE  /\ inst \in [op : AllOps, out1 : ArchRegs, pred : {"right", "wrong", "misfetch"}]
         /\ DestOf(inst.op) \in RegTypes \cup {NONE}
         /\ DestOf(inst.op) # NONE => TypeOf(inst.out1) = DestOf(inst.op)
<1>1. PICK op \in AllOps : inst \in {[op |-> op, out1 |-> a, pred |-> p] :
                      a \in OutputsOf(op), p \in Predictions(op)}
  BY ConstantsAssumption DEF AllInsts
<1>2. PICK a \in OutputsOf(op), p \in Predictions(op) :
         inst = [op |-> op, out1 |-> a, pred |-> p]
  BY <1>1
<1>3. DestOf(op) \in RegTypes \cup {NONE}
  BY DEF DestOf, RegTypes
<1>4. a \in ArchRegs /\ (DestOf(op) # NONE => TypeOf(a) = DestOf(op))
  BY <1>2 DEF OutputsOf
<1>5. p \in {"right", "wrong", "misfetch"}
  BY <1>2 DEF Predictions
<1> QED
  BY <1>2, <1>3, <1>4, <1>5

(* There are finitely many physical registers.                              *)
LEMMA PhysFinite == IsFiniteSet(RegTypes \X Phys)
<1>1. IsFiniteSet(Phys)
  BY FS_Interval, ConstantsAssumption DEF Phys
<1>2. IsFiniteSet(RegTypes)
  <2>1. IsFiniteSet({INT})
    BY FS_Singleton
  <2>2. IsFiniteSet({INT} \cup {FP})
    BY <2>1, FS_AddElement
  <2>3. RegTypes = {INT} \cup {FP}
    BY DEF RegTypes
  <2> QED
    BY <2>2, <2>3
<1> QED
  BY <1>1, <1>2, FS_Product

(* The registers a thread holds in flight are finitely many, and those that *)
(* rollbackTo() frees are among them: the counters count finite sets.       *)
LEMMA SetsFinite ==
  ASSUME TypeOK, EntriesOK, NEW t \in Threads
  PROVE  /\ InFlight(t) \subseteq RegTypes \X Phys
         /\ \A i : SquashedRegs(t, i) \subseteq InFlight(t)
         /\ \A S : S \subseteq InFlight(t) => IsFiniteSet(S) /\ Cardinality(S) \in Nat
<1>1. \A i \in Writers(t) : Taken(t, i) \in RegTypes \X Phys
  <2> SUFFICES ASSUME NEW i \in Writers(t)
               PROVE  Taken(t, i) \in RegTypes \X Phys
    OBVIOUS
  <2>1. rob[t] \in Seq(Entries) /\ i \in DOMAIN rob[t]
    BY DEF TypeOK, Writers
  <2>2. rob[t][i] \in Entries
    BY <2>1, LenProperties
  <2>3. rob[t][i].physreg \in Phys
    BY <2>2 DEF Writers, HasDest, Entries
  <2>4. rob[t][i].dest_format \in RegTypes
    BY DEF EntriesOK, TypeOf, RegTypes
  <2> QED
    BY <2>3, <2>4 DEF Taken
<1>2. InFlight(t) \subseteq RegTypes \X Phys
  BY <1>1 DEF InFlight
<1>3. ASSUME NEW i PROVE SquashedRegs(t, i) \subseteq InFlight(t)
  BY DEF SquashedRegs, Squashed, InFlight, Taken, Writers
<1>4. ASSUME NEW S, S \subseteq InFlight(t)
      PROVE  IsFiniteSet(S) /\ Cardinality(S) \in Nat
  BY <1>2, <1>4, PhysFinite, FS_Subset, FS_CardinalityType
<1> QED
  BY <1>2, <1>3, <1>4

-----------------------------------------------------------------------------
(* The initial state is well typed.                                        *)
LEMMA InitTypeOK == Init => TypeOK
<1> SUFFICES ASSUME Init PROVE TypeOK
  OBVIOUS
<1>1. <<>> \in Seq(Insts) /\ <<>> \in Seq(Entries)
  OBVIOUS
<1> QED
  BY <1>1, InitMapAssumption DEF Init, TypeOK

(* The state sim_main() starts from satisfies the inductive invariant.      *)
LEMMA InitInv == Init => RegisterInv
<1> SUFFICES ASSUME Init PROVE RegisterInv
  OBVIOUS
<1>1. TypeOK
  BY InitTypeOK
<1>2. \A t \in Threads : rob[t] = <<>> /\ Len(rob[t]) = 0 /\ Writers(t) = {}
  BY DEF Init, Writers
<1>3. EntriesOK /\ TakenOnce
  BY <1>2 DEF EntriesOK, TakenOnce
<1>4. MapHistory
  <2> SUFFICES ASSUME NEW t \in Threads, NEW a \in ArchRegs
               PROVE  SeenAt(t, a, Len(rob[t]) + 1, rename_table[t][a])
    BY <1>2 DEF MapHistory
  <2>1. WritersBefore(t, a, Len(rob[t]) + 1) = {}
    BY <1>2 DEF WritersBefore
  <2>2. TypeOf(a) \in RegTypes /\ rename_table[t][a] \in Phys /\ rename_table[t][a] = InitMap[t][a]
    BY <1>1 DEF TypeOK, Init, TypeOf, RegTypes
  <2>3. reg_file[TypeOf(a)][rename_table[t][a]] = "REG_ARCH"
    BY <2>2 DEF Init
  <2> QED
    BY <2>1, <2>3 DEF SeenAt
<1>5. NoRegisterShared
  <2>1. \A t \in Threads, a \in ArchRegs :
          /\ TypeOf(a) \in RegTypes
          /\ rename_table[t][a] \in Phys
          /\ rename_table[t][a] = InitMap[t][a]
          /\ reg_file[TypeOf(a)][rename_table[t][a]] = "REG_ARCH"
    BY <1>1 DEF TypeOK, Init, TypeOf, RegTypes
  <2> QED
    BY <1>2, <2>1, InitMapAssumption DEF NoRegisterShared, Mapped, StateOf
<1>6. NoRegisterLeak
  BY DEF NoRegisterLeak, Init, Mapped
<1>7. CountersExact
  <2>1. \A t \in Threads : InFlight(t) = {} /\ \A ty \in RegTypes : InFlightOf(t, ty) = {}
    BY <1>2 DEF InFlight, InFlightOf
  <2> QED
    BY <2>1, FS_EmptySet DEF CountersExact, Init
<1> QED
  BY <1>1, <1>3, <1>4, <1>5, <1>6, <1>7 DEF RegisterInv

-----------------------------------------------------------------------------
(* What EntriesOK and the type invariant say of one writer.                *)
LEMMA WriterFacts ==
  ASSUME TypeOK, EntriesOK, NEW t \in Threads, NEW i \in Writers(t)
  PROVE  /\ i \in 1 .. Len(rob[t])
         /\ Len(rob[t]) \in Nat
         /\ rob[t][i] \in Entries
         /\ rob[t][i].archreg \in ArchRegs
         /\ rob[t][i].physreg \in Phys
         /\ rob[t][i].old_physreg \in Phys
         /\ rob[t][i].dest_format \in RegTypes
         /\ rob[t][i].dest_format = TypeOf(rob[t][i].archreg)
         /\ StateOf(Taken(t, i)) # "REG_FREE"
         /\ StateOf(Taken(t, i)) # "REG_ARCH"
<1>1. rob[t] \in Seq(Entries) /\ i \in DOMAIN rob[t]
  BY DEF TypeOK, Writers
<1>2. i \in 1 .. Len(rob[t]) /\ Len(rob[t]) \in Nat /\ rob[t][i] \in Entries
  BY <1>1, LenProperties
<1>3. rob[t][i].archreg \in ArchRegs /\ rob[t][i].physreg \in Phys
  BY <1>2 DEF Writers, HasDest, Entries
<1>4. rob[t][i].dest_format \in RegTypes
  BY DEF EntriesOK, TypeOf, RegTypes
<1> QED
  BY <1>2, <1>3, <1>4 DEF EntriesOK

(* A step that leaves the mappings, the writers and the set of free and    *)
(* architectural registers as they are, whatever else it does to the ROBs. *)
LEMMA StableStep ==
  ASSUME RegisterInv, TypeOK',
         UNCHANGED <<rename_table, reg_counter, dcra_rf>>,
         \A u \in Threads :
           /\ Writers(u)' = Writers(u)
           /\ Len(rob'[u]) \in Nat /\ Len(rob'[u]) >= Len(rob[u])
           /\ \A i \in Writers(u) :
                /\ rob'[u][i].archreg = rob[u][i].archreg
                /\ rob'[u][i].physreg = rob[u][i].physreg
                /\ rob'[u][i].old_physreg = rob[u][i].old_physreg
                /\ rob'[u][i].dest_format = rob[u][i].dest_format
                /\ StateOf(Taken(u, i))' =
                     IF Done(rob'[u][i]) THEN "REG_WB" ELSE "REG_ALLOC",
         \A ty \in RegTypes, p \in Phys :
           /\ reg_file'[ty][p] = "REG_ARCH" <=> reg_file[ty][p] = "REG_ARCH"
           /\ reg_file'[ty][p] = "REG_FREE" <=> reg_file[ty][p] = "REG_FREE"
  PROVE  RegisterInv'
<1> USE DEF RegisterInv
<1>1. ASSUME NEW u \in Threads, NEW i \in Writers(u)
      PROVE  /\ Taken(u, i)' = Taken(u, i)
             /\ Replaced(u, i)' = Replaced(u, i)
  BY <1>1 DEF Taken, Replaced
<1>2. ASSUME NEW u \in Threads, NEW a \in ArchRegs
      PROVE  Mapped(u, a)' = Mapped(u, a)
  BY DEF Mapped
<1>3. EntriesOK'
  BY <1>1 DEF EntriesOK
<1>4. TakenOnce'
  BY <1>1 DEF TakenOnce
<1>5. ASSUME NEW u \in Threads, NEW a \in ArchRegs, NEW n
      PROVE  WritersBefore(u, a, n)' = WritersBefore(u, a, n)
  BY DEF WritersBefore
<1>6. ASSUME NEW u \in Threads, NEW a \in ArchRegs, NEW n, NEW p \in Phys, SeenAt(u, a, n, p)
      PROVE  SeenAt(u, a, n, p)'
  <2>1. TypeOf(a) \in RegTypes
    BY DEF TypeOf, RegTypes
  <2>2. \A i \in WritersBefore(u, a, n) : i \in Writers(u)
    BY DEF WritersBefore
  <2> QED
    BY <1>5, <1>6, <2>1, <2>2 DEF SeenAt
<1>7. MapHistory'
  <2> SUFFICES ASSUME NEW u \in Threads
               PROVE  /\ \A i \in Writers(u) :
                           SeenAt(u, rob[u][i].archreg, i, rob[u][i].old_physreg)'
                      /\ \A a \in ArchRegs :
                           SeenAt(u, a, Len(rob[u]) + 1, rename_table[u][a])'
    BY DEF MapHistory
  <2>1. ASSUME NEW i \in Writers(u)
        PROVE  SeenAt(u, rob[u][i].archreg, i, rob[u][i].old_physreg)'
    <3>1. SeenAt(u, rob[u][i].archreg, i, rob[u][i].old_physreg)
      BY DEF MapHistory
    <3>2. PICK a \in ArchRegs, p \in Phys :
            a = rob[u][i].archreg /\ p = rob[u][i].old_physreg
      BY WriterFacts
    <3>3. SeenAt(u, a, i, p)'
      BY <3>1, <3>2, <1>6
    <3>4. rob'[u][i].archreg = a /\ rob'[u][i].old_physreg = p
      BY <3>2
    <3> QED
      BY <3>3, <3>4 DEF SeenAt, WritersBefore
  <2>2. ASSUME NEW a \in ArchRegs
        PROVE  SeenAt(u, a, Len(rob[u]) + 1, rename_table[u][a])'
    <3>1. SeenAt(u, a, Len(rob[u]) + 1, rename_table[u][a])
      BY DEF MapHistory
    <3>2. rename_table[u][a] \in Phys
      BY DEF TypeOK
    <3>3. WritersBefore(u, a, Len(rob'[u]) + 1) = WritersBefore(u, a, Len(rob[u]) + 1)
      BY WriterFacts DEF WritersBefore
    <3>4. PICK n \in Nat, p \in Phys :
            n = Len(rob'[u]) + 1 /\ p = rename_table[u][a]
      BY <3>2
    <3>5. SeenAt(u, a, n, p)
      BY <3>1, <3>3, <3>4 DEF SeenAt
    <3>6. SeenAt(u, a, n, p)'
      BY <3>5, <1>6
    <3>7. rename_table'[u][a] = p
      BY <3>4
    <3> QED
      BY <3>4, <3>6, <3>7 DEF SeenAt, WritersBefore
  <2> QED
    BY <2>1, <2>2
<1>8. NoRegisterShared'
  <2>1. \A u \in Threads, a \in ArchRegs : StateOf(Mapped(u, a))' # "REG_FREE"
    <3> SUFFICES ASSUME NEW u \in Threads, NEW a \in ArchRegs
                 PROVE  StateOf(Mapped(u, a))' # "REG_FREE"
      OBVIOUS
    <3>1. TypeOf(a) \in RegTypes /\ rename_table[u][a] \in Phys
      BY DEF TypeOK, TypeOf, RegTypes
    <3>2. StateOf(Mapped(u, a)) # "REG_FREE"
      BY DEF NoRegisterShared
    <3> QED
      BY <3>1, <3>2 DEF StateOf, Mapped
  <2>2. \A u \in Threads : \A i \in Writers(u) : StateOf(Replaced(u, i))' # "REG_FREE"
    BY WriterFacts DEF NoRegisterShared, StateOf, Replaced
  <2> QED
    BY <2>1, <2>2, <1>1, <1>2 DEF NoRegisterShared
<1>9. NoRegisterLeak'
  BY <1>1, <1>2 DEF NoRegisterLeak
<1>10. CountersExact'
  <2>1. \A u \in Threads : InFlight(u)' = InFlight(u)
    BY <1>1 DEF InFlight
  <2> QED
    BY <2>1 DEF CountersExact, InFlightOf
<1> QED
  BY <1>3, <1>4, <1>7, <1>8, <1>9, <1>10

(* Actions that touch the fetch queues and spec mode only.                 *)
LEMMA FrameStep ==
  ASSUME RegisterInv, ifq' \in [Threads -> Seq(Insts)],
         spec_mode' \in [Threads -> BOOLEAN],
         UNCHANGED <<rob, rename_table, reg_file, reg_counter, dcra_rf>>
  PROVE  RegisterInv'
<1>1. TypeOK'
  BY DEF RegisterInv, TypeOK
<1>2. \A u \in Threads : Writers(u)' = Writers(u)
  BY DEF Writers
<1>3. \A u \in Threads : Len(rob'[u]) \in Nat /\ Len(rob'[u]) >= Len(rob[u])
  BY LenProperties DEF RegisterInv, TypeOK
<1>4. \A u \in Threads : \A i \in Writers(u) :
        StateOf(Taken(u, i))' = IF Done(rob'[u][i]) THEN "REG_WB" ELSE "REG_ALLOC"
  BY DEF RegisterInv, EntriesOK, StateOf, Taken
<1> QED
  BY <1>1, <1>2, <1>3, <1>4, StableStep

(* fetch() only appends to the fetch queue.                                 *)
LEMMA FetchStep ==
  ASSUME RegisterInv, NEW t \in Threads, Fetch(t)
  PROVE  RegisterInv'
<1>1. PICK inst \in Insts : ifq' = [ifq EXCEPT ![t] = Append(@, inst)]
  BY DEF Fetch
<1>2. ifq' \in [Threads -> Seq(Insts)]
  BY <1>1, AppendProperties DEF RegisterInv, TypeOK
<1>3. spec_mode' \in [Threads -> BOOLEAN]
  BY DEF Fetch, RegisterInv, TypeOK
<1> QED
  BY <1>2, <1>3, FrameStep DEF Fetch

(* The head of a fetch queue that is not empty is a decoded instruction.    *)
LEMMA HeadIsInst ==
  ASSUME TypeOK, NEW t \in Threads, ifq[t] # <<>>
  PROVE  Head(ifq[t]) \in Insts /\ Tail(ifq[t]) \in Seq(Insts) /\ <<>> \in Seq(Insts)
<1>1. ifq[t] \in Seq(Insts)
  BY DEF TypeOK
<1> QED
  BY <1>1, HeadTailProperties

(* What register_rename() leaves in the fetch queue is a fetch queue.       *)
LEMMA ConsumeType ==
  ASSUME TypeOK, NEW t \in Threads, NEW inst, ifq[t] # <<>>, ConsumeFetched(t, inst)
  PROVE  ifq' \in [Threads -> Seq(Insts)]
<1>1. Tail(ifq[t]) \in Seq(Insts) /\ <<>> \in Seq(Insts)
  BY HeadIsInst
<1> QED
  BY <1>1 DEF ConsumeFetched, TypeOK

(* A bogus instruction leaves register_rename() without touching a          *)
(* register.                                                                *)
LEMMA RenameNopStep ==
  ASSUME RegisterInv, NEW t \in Threads, RenameNop(t)
  PROVE  RegisterInv'
<1>1. ifq[t] # <<>> /\ ConsumeFetched(t, Head(ifq[t]))
  BY DEF RenameNop, RenameGuard, MayRename
<1>2. ifq' \in [Threads -> Seq(Insts)]
  BY <1>1, ConsumeType DEF RegisterInv
<1>3. spec_mode' \in [Threads -> BOOLEAN]
  BY DEF RenameNop, RegisterInv, TypeOK
<1> QED
  BY <1>2, <1>3, FrameStep DEF RenameNop

(* An execve drains the fetch queue and touches no register.                *)
LEMMA RenameAbortStep ==
  ASSUME RegisterInv, NEW t \in Threads, RenameAbort(t)
  PROVE  RegisterInv'
<1>1. ifq[t] # <<>> /\ ifq' = [ifq EXCEPT ![t] = <<>>]
  BY DEF RenameAbort, RenameGuard, MayRename
<1>2. ifq' \in [Threads -> Seq(Insts)]
  BY <1>1, HeadIsInst DEF RegisterInv, TypeOK
<1>3. spec_mode' \in [Threads -> BOOLEAN]
  BY DEF RenameAbort, RegisterInv, TypeOK
<1> QED
  BY <1>2, <1>3, FrameStep DEF RenameAbort

-----------------------------------------------------------------------------
(* Renaming appends one entry to the ROB.                                  *)
LEMMA AppendFacts ==
  ASSUME TypeOK, NEW t \in Threads, NEW e \in Entries,
         rob' = [rob EXCEPT ![t] = Append(@, e)]
  PROVE  /\ rob' \in [Threads -> Seq(Entries)]
         /\ \A u \in Threads : u # t => rob'[u] = rob[u]
         /\ Len(rob[t]) \in Nat
         /\ Len(rob'[t]) = Len(rob[t]) + 1
         /\ DOMAIN rob[t] = 1 .. Len(rob[t])
         /\ DOMAIN rob'[t] = 1 .. Len(rob[t]) + 1
         /\ \A i \in 1 .. Len(rob[t]) : rob'[t][i] = rob[t][i]
         /\ rob'[t][Len(rob[t]) + 1] = e
<1>1. rob[t] \in Seq(Entries) /\ rob'[t] = Append(rob[t], e)
  BY DEF TypeOK
<1>2. rob'[t] \in Seq(Entries)
  BY <1>1, AppendProperties
<1>3. rob' \in [Threads -> Seq(Entries)]
  BY <1>1, <1>2 DEF TypeOK
<1>4. \A u \in Threads : u # t => rob'[u] = rob[u]
  BY DEF TypeOK
<1> QED
  BY <1>1, <1>2, <1>3, <1>4, AppendProperties, LenProperties

(* The ROB entry that register_rename() fills in is well typed.             *)
LEMMA NewEntryType ==
  ASSUME TypeOK, NEW t \in Threads, NEW inst \in Insts,
         NEW p \in Phys \cup {NoReg}, NEW q \in Phys \cup {NoReg},
         NEW ty \in RegTypes \cup {NONE}
  PROVE  NewEntry(t, inst, p, q, ty) \in Entries
<1>1. inst.op \in AllOps /\ inst.out1 \in ArchRegs
  BY InstFacts
<1>2. spec_mode[t] \in BOOLEAN /\ StartsRecovery(t, inst) \in BOOLEAN
  BY DEF TypeOK, StartsRecovery
<1>3. (~IsMem(inst.op)) \in BOOLEAN
  BY DEF IsMem
<1> QED
  BY <1>1, <1>2, <1>3 DEF NewEntry, Entries

(* Entering the ROB keeps the queues of the thread well typed.              *)
LEMMA EnterRobType ==
  ASSUME TypeOK, NEW t \in Threads, NEW inst, NEW e \in Entries,
         ifq[t] # <<>>, EnterRob(t, inst, e)
  PROVE  /\ ifq' \in [Threads -> Seq(Insts)]
         /\ rob' \in [Threads -> Seq(Entries)]
         /\ spec_mode' \in [Threads -> BOOLEAN]
<1>1. rob' = [rob EXCEPT ![t] = Append(@, e)]
  BY DEF EnterRob
<1>2. (spec_mode[t] \/ StartsRecovery(t, inst)) \in BOOLEAN
  OBVIOUS
<1>3. spec_mode' \in [Threads -> BOOLEAN]
  BY <1>2 DEF EnterRob, TypeOK
<1> QED
  BY <1>1, <1>3, AppendFacts, ConsumeType DEF EnterRob

(* An instruction without a destination adds an entry that holds and        *)
(* replaces no register.                                                    *)
LEMMA RenameNoDestStep ==
  ASSUME RegisterInv, NEW t \in Threads, RenameNoDest(t)
  PROVE  RegisterInv'
<1> DEFINE inst == Head(ifq[t])
           e    == NewEntry(t, inst, NoReg, NoReg, NONE)
           n    == Len(rob[t])
<1> USE DEF RegisterInv
<1>1. ifq[t] # <<>> /\ EnterRob(t, inst, e)
  BY DEF RenameNoDest, RenameGuard, MayRename
<1>2. inst \in Insts /\ e \in Entries
  BY <1>1, HeadIsInst, NewEntryType
<1>3. UNCHANGED <<rename_table, reg_file, reg_counter, dcra_rf>>
  BY DEF RenameNoDest
<1>4. TypeOK'
  BY <1>1, <1>2, <1>3, EnterRobType DEF TypeOK
<1>5. rob' = [rob EXCEPT ![t] = Append(@, e)] /\ ~HasDest(e)
  BY <1>1 DEF EnterRob, NewEntry, HasDest
<1>6. ASSUME NEW u \in Threads
      PROVE  /\ Writers(u)' = Writers(u)
             /\ Len(rob'[u]) \in Nat /\ Len(rob'[u]) >= Len(rob[u])
             /\ \A i \in Writers(u) : rob'[u][i] = rob[u][i]
  <2>1. CASE u = t
    BY <1>2, <1>5, <2>1, AppendFacts DEF Writers, HasDest
  <2>2. CASE u # t
    <3>1. rob'[u] = rob[u] /\ rob[u] \in Seq(Entries)
      BY <1>2, <1>5, <2>2, AppendFacts DEF TypeOK
    <3> QED
      BY <3>1, LenProperties DEF Writers
  <2> QED
    BY <2>1, <2>2
<1>7. \A u \in Threads : \A i \in Writers(u) :
        StateOf(Taken(u, i))' = IF Done(rob'[u][i]) THEN "REG_WB" ELSE "REG_ALLOC"
  BY <1>3, <1>6 DEF EntriesOK, StateOf, Taken
<1> QED
  BY <1>3, <1>4, <1>6, <1>7, StableStep

-----------------------------------------------------------------------------
(* Writeback replaces one entry by one that differs in a flag.             *)
LEMMA ReplaceFacts ==
  ASSUME TypeOK, NEW t \in Threads, NEW i \in DOMAIN rob[t], NEW e \in Entries,
         rob' = [rob EXCEPT ![t] = [@ EXCEPT ![i] = e]]
  PROVE  /\ rob' \in [Threads -> Seq(Entries)]
         /\ \A u \in Threads : /\ Len(rob'[u]) = Len(rob[u])
                               /\ Len(rob[u]) \in Nat
                               /\ DOMAIN rob'[u] = DOMAIN rob[u]
         /\ \A u \in Threads : \A j \in DOMAIN rob[u] :
              rob'[u][j] = IF u = t /\ j = i THEN e ELSE rob[u][j]
<1>1. rob[t] \in Seq(Entries) /\ i \in 1 .. Len(rob[t])
      /\ rob'[t] = [rob[t] EXCEPT ![i] = e]
  BY LenProperties DEF TypeOK
<1>2. rob'[t] \in Seq(Entries) /\ Len(rob'[t]) = Len(rob[t])
      /\ \A j \in 1 .. Len(rob[t]) : rob'[t][j] = IF j = i THEN e ELSE rob[t][j]
  BY <1>1, ExceptSeq
<1>3. \A u \in Threads : u # t => rob'[u] = rob[u]
  BY DEF TypeOK
<1>4. \A u \in Threads : rob[u] \in Seq(Entries) /\ rob'[u] \in Seq(Entries)
  BY <1>2, <1>3 DEF TypeOK
<1>5. rob' \in [Threads -> Seq(Entries)]
  BY <1>4 DEF TypeOK
<1>6. \A u \in Threads : /\ Len(rob[u]) \in Nat
                         /\ DOMAIN rob[u] = 1 .. Len(rob[u])
                         /\ DOMAIN rob'[u] = 1 .. Len(rob'[u])
  BY <1>4, LenProperties
<1>7. \A u \in Threads : Len(rob'[u]) = Len(rob[u])
  BY <1>2, <1>3
<1>8. ASSUME NEW u \in Threads, NEW j \in DOMAIN rob[u]
      PROVE  rob'[u][j] = IF u = t /\ j = i THEN e ELSE rob[u][j]
  BY <1>2, <1>3, <1>6
<1> QED
  BY <1>5, <1>6, <1>7, <1>8

(* Entry i of t finishes its part that writes the register, if any.        *)
LEMMA FinishStep ==
  ASSUME RegisterInv, NEW t \in Threads, NEW i \in DOMAIN rob[t], NEW e \in Entries,
         rob' = [rob EXCEPT ![t] = [@ EXCEPT ![i] = e]],
         e.op = rob[t][i].op, e.archreg = rob[t][i].archreg,
         e.physreg = rob[t][i].physreg, e.old_physreg = rob[t][i].old_physreg,
         e.dest_format = rob[t][i].dest_format,
         reg_file' = IF HasDest(e) /\ Done(e) /\ ~Done(rob[t][i])
                     THEN Written(rob[t][i]) ELSE reg_file,
         Done(rob[t][i]) => Done(e),
         UNCHANGED <<ifq, rename_table, reg_counter, dcra_rf, spec_mode>>
  PROVE  RegisterInv'
<1> USE DEF RegisterInv
<1> DEFINE f == rob[t][i]
<1>1. /\ rob' \in [Threads -> Seq(Entries)]
      /\ \A u \in Threads : /\ Len(rob'[u]) = Len(rob[u])
                            /\ Len(rob[u]) \in Nat
                            /\ DOMAIN rob'[u] = DOMAIN rob[u]
      /\ \A u \in Threads : \A j \in DOMAIN rob[u] :
           rob'[u][j] = IF u = t /\ j = i THEN e ELSE rob[u][j]
  BY ReplaceFacts
<1>2. ASSUME HasDest(f)
      PROVE  /\ i \in Writers(t)
             /\ f.dest_format \in RegTypes /\ f.physreg \in Phys
             /\ reg_file[f.dest_format][f.physreg] =
                  IF Done(f) THEN "REG_WB" ELSE "REG_ALLOC"
  <2>1. i \in Writers(t)
    BY <1>2 DEF Writers
  <2> QED
    BY <2>1, WriterFacts DEF EntriesOK, StateOf, Taken
<1>3. HasDest(e) <=> HasDest(f)
  BY DEF HasDest
<1>4. ASSUME NEW ty \in RegTypes, NEW p \in Phys
      PROVE  \/ reg_file'[ty][p] = reg_file[ty][p]
             \/ /\ HasDest(f) /\ ~Done(f) /\ Done(e)
                /\ ty = f.dest_format /\ p = f.physreg
                /\ reg_file[ty][p] = "REG_ALLOC" /\ reg_file'[ty][p] = "REG_WB"
  <2>1. CASE HasDest(e) /\ Done(e) /\ ~Done(f)
    <3>1. reg_file' = [reg_file EXCEPT ![f.dest_format][f.physreg] = "REG_WB"]
      BY <2>1 DEF Written
    <3>2. reg_file[f.dest_format][f.physreg] = "REG_ALLOC"
      BY <2>1, <1>2, <1>3
    <3> QED
      BY <2>1, <3>1, <3>2, <1>2, <1>3 DEF TypeOK
  <2>2. CASE ~(HasDest(e) /\ Done(e) /\ ~Done(f))
    BY <2>2
  <2> QED
    BY <2>1, <2>2
<1>5. TypeOK'
  <2>1. reg_file' \in [RegTypes -> [Phys -> {"REG_FREE", "REG_ALLOC", "REG_WB", "REG_ARCH"}]]
    BY <1>2, <1>3 DEF Written, TypeOK
  <2> QED
    BY <1>1, <2>1 DEF TypeOK
<1>6. ASSUME NEW u \in Threads
      PROVE  /\ Writers(u)' = Writers(u)
             /\ Len(rob'[u]) \in Nat /\ Len(rob'[u]) >= Len(rob[u])
             /\ \A j \in Writers(u) :
                  /\ rob'[u][j].archreg = rob[u][j].archreg
                  /\ rob'[u][j].physreg = rob[u][j].physreg
                  /\ rob'[u][j].old_physreg = rob[u][j].old_physreg
                  /\ rob'[u][j].dest_format = rob[u][j].dest_format
  BY <1>1 DEF Writers, HasDest
<1>7. ASSUME NEW u \in Threads, NEW j \in Writers(u)
      PROVE  StateOf(Taken(u, j))' = IF Done(rob'[u][j]) THEN "REG_WB" ELSE "REG_ALLOC"
  <2>1. /\ rob[u][j].dest_format \in RegTypes /\ rob[u][j].physreg \in Phys
        /\ j \in DOMAIN rob[u]
        /\ reg_file[rob[u][j].dest_format][rob[u][j].physreg] =
             IF Done(rob[u][j]) THEN "REG_WB" ELSE "REG_ALLOC"
    BY WriterFacts DEF EntriesOK, StateOf, Taken, Writers
  <2>2. CASE u = t /\ j = i
    <3>1. HasDest(f) /\ rob'[u][j] = e
      BY <2>2, <2>1, <1>1 DEF Writers
    <3>2. reg_file'[f.dest_format][f.physreg] = IF Done(e) THEN "REG_WB" ELSE "REG_ALLOC"
      <4>1. CASE Done(e) /\ ~Done(f)
        BY <3>1, <4>1, <1>2, <1>3 DEF Written, TypeOK
      <4>2. CASE ~(Done(e) /\ ~Done(f))
        <5>1. reg_file' = reg_file
          BY <4>2, SMTT(30)
        <5> QED
          BY <5>1, <4>2, <3>1, <1>2
      <4> QED
        BY <4>1, <4>2
    <3> QED
      BY <3>1, <3>2, <2>2 DEF StateOf, Taken
  <2>3. CASE ~(u = t /\ j = i)
    <3>1. rob'[u][j] = rob[u][j]
      BY <2>1, <2>3, <1>1
    <3>2. ~(/\ HasDest(f) /\ rob[u][j].dest_format = f.dest_format
            /\ rob[u][j].physreg = f.physreg)
      BY <2>3, <1>2 DEF TakenOnce, Taken
    <3>3. reg_file'[rob[u][j].dest_format][rob[u][j].physreg] =
            reg_file[rob[u][j].dest_format][rob[u][j].physreg]
      BY <2>1, <3>2, <1>4
    <3> QED
      BY <2>1, <3>1, <3>3 DEF StateOf, Taken
  <2> QED
    BY <2>2, <2>3, SMTT(30)
<1>8. \A ty \in RegTypes, p \in Phys :
           /\ reg_file'[ty][p] = "REG_ARCH" <=> reg_file[ty][p] = "REG_ARCH"
           /\ reg_file'[ty][p] = "REG_FREE" <=> reg_file[ty][p] = "REG_FREE"
  BY <1>4
<1> QED
  BY <1>5, <1>6, <1>7, <1>8, StableStep

(* writeback() of a ROB entry that reveals no misprediction.                *)
LEMMA WritebackStep ==
  ASSUME RegisterInv, NEW t \in Threads, NEW i \in DOMAIN rob[t], Writeback(t, i)
  PROVE  RegisterInv'
<1> DEFINE f == rob[t][i]
           e == [f EXCEPT !.completed = TRUE]
<1>1. f \in Entries
  BY LenProperties DEF RegisterInv, TypeOK
<1>2. e \in Entries /\ e.op = f.op /\ e.archreg = f.archreg /\ e.physreg = f.physreg
      /\ e.old_physreg = f.old_physreg /\ e.dest_format = f.dest_format
      /\ e.lsq_completed = f.lsq_completed /\ e.completed
  BY <1>1 DEF Entries
<1>3. rob' = [rob EXCEPT ![t] = [@ EXCEPT ![i] = e]]
  BY <1>1 DEF Writeback, RegisterInv, TypeOK
<1>4. ~f.completed
  BY DEF Writeback
<1>5. Done(e) /\ ~Done(f) <=> ~IsMem(f.op)
  BY <1>2, <1>4 DEF Done
<1>6. Done(f) => Done(e)
  BY <1>2 DEF Done
<1>7. reg_file' = IF HasDest(e) /\ Done(e) /\ ~Done(f) THEN Written(f) ELSE reg_file
  BY <1>2, <1>5 DEF Writeback, WritesBack, HasDest
<1>8. UNCHANGED <<ifq, rename_table, reg_counter, dcra_rf, spec_mode>>
  BY DEF Writeback
<1> HIDE DEF e
<1> QED
  BY <1>2, <1>3, <1>6, <1>7, <1>8, FinishStep

(* The completion of the LSQ part of a memory operation, by writeback() or  *)
(* selection().                                                             *)
LEMMA LsqWritebackStep ==
  ASSUME RegisterInv, NEW t \in Threads, NEW i \in DOMAIN rob[t], LsqWriteback(t, i)
  PROVE  RegisterInv'
<1> DEFINE f == rob[t][i]
           e == [f EXCEPT !.lsq_completed = TRUE]
<1>1. f \in Entries
  BY LenProperties DEF RegisterInv, TypeOK
<1>2. e \in Entries /\ e.op = f.op /\ e.archreg = f.archreg /\ e.physreg = f.physreg
      /\ e.old_physreg = f.old_physreg /\ e.dest_format = f.dest_format
      /\ e.lsq_completed
  BY <1>1 DEF Entries
<1>3. rob' = [rob EXCEPT ![t] = [@ EXCEPT ![i] = e]]
  BY <1>1 DEF LsqWriteback, RegisterInv, TypeOK
<1>4. ~f.lsq_completed /\ IsMem(f.op)
  BY DEF LsqWriteback
<1>5. Done(e) /\ ~Done(f)
  BY <1>2, <1>4 DEF Done
<1>6. reg_file' = IF HasDest(e) /\ Done(e) /\ ~Done(f) THEN Written(f) ELSE reg_file
  BY <1>2, <1>5 DEF LsqWriteback, HasDest
<1>7. UNCHANGED <<ifq, rename_table, reg_counter, dcra_rf, spec_mode>>
  BY DEF LsqWriteback
<1> HIDE DEF e
<1> QED
  BY <1>2, <1>3, <1>5, <1>6, <1>7, FinishStep

-----------------------------------------------------------------------------
(* Commit removes the head of the ROB: entry i of t was entry i + 1.       *)
LEMMA PopFacts ==
  ASSUME TypeOK, NEW t \in Threads, rob[t] # <<>>,
         rob' = [rob EXCEPT ![t] = Tail(@)]
  PROVE  /\ rob' \in [Threads -> Seq(Entries)]
         /\ \A u \in Threads : /\ Len(rob[u]) \in Nat
                               /\ DOMAIN rob[u] = 1 .. Len(rob[u])
                               /\ Len(rob'[u]) = IF u = t THEN Len(rob[u]) - 1 ELSE Len(rob[u])
                               /\ DOMAIN rob'[u] = 1 .. Len(rob'[u])
         /\ Len(rob[t]) >= 1
         /\ Head(rob[t]) = rob[t][1]
         /\ \A u \in Threads : \A i \in DOMAIN rob'[u] :
              rob'[u][i] = rob[u][IF u = t THEN i + 1 ELSE i]
<1>1. rob[t] \in Seq(Entries) /\ rob'[t] = Tail(rob[t])
  BY DEF TypeOK
<1>2. /\ rob'[t] \in Seq(Entries)
      /\ Len(rob'[t]) = Len(rob[t]) - 1
      /\ \A i \in 1 .. Len(rob'[t]) : rob'[t][i] = rob[t][i + 1]
  BY <1>1, HeadTailProperties, ZenonT(60)
<1>3. \A u \in Threads : u # t => rob'[u] = rob[u]
  BY DEF TypeOK
<1>4. \A u \in Threads : rob[u] \in Seq(Entries) /\ rob'[u] \in Seq(Entries)
  BY <1>2, <1>3 DEF TypeOK
<1>5. rob' \in [Threads -> Seq(Entries)]
  BY <1>4 DEF TypeOK
<1>6. \A u \in Threads : /\ Len(rob[u]) \in Nat
                         /\ DOMAIN rob[u] = 1 .. Len(rob[u])
                         /\ Len(rob'[u]) \in Nat
                         /\ DOMAIN rob'[u] = 1 .. Len(rob'[u])
  BY <1>4, LenProperties
<1>7. Len(rob[t]) >= 1
  BY <1>2, <1>6
<1>8. Head(rob[t]) = rob[t][1]
  BY <1>1
<1>9. ASSUME NEW u \in Threads, NEW i \in DOMAIN rob'[u]
      PROVE  rob'[u][i] = rob[u][IF u = t THEN i + 1 ELSE i]
  BY <1>2, <1>3, <1>6
<1>10. \A u \in Threads : Len(rob'[u]) = IF u = t THEN Len(rob[u]) - 1 ELSE Len(rob[u])
  BY <1>2, <1>3
<1> QED
  BY <1>5, <1>6, <1>7, <1>8, <1>9, <1>10

(* The writers left after commit() has popped the head are the writers      *)
(* before it, one place further on.                                         *)
LEMMA PopWriters ==
  ASSUME TypeOK, NEW t \in Threads, rob[t] # <<>>,
         rob' = [rob EXCEPT ![t] = Tail(@)], NEW u \in Threads
  PROVE  /\ \A i \in Writers(u)' :
              LET k == IF u = t THEN i + 1 ELSE i
              IN i \in Nat /\ i >= 1 /\ k \in Writers(u) /\ rob'[u][i] = rob[u][k]
         /\ \A k \in Writers(u) :
              u = t /\ k # 1 => k \in Int /\ k - 1 \in Writers(u)'
                                /\ rob'[u][k - 1] = rob[u][k]
         /\ \A k \in Writers(u) : u # t => k \in Writers(u)' /\ rob'[u][k] = rob[u][k]
<1>0. /\ Len(rob[u]) \in Nat
      /\ DOMAIN rob[u] = 1 .. Len(rob[u])
      /\ Len(rob'[u]) = IF u = t THEN Len(rob[u]) - 1 ELSE Len(rob[u])
      /\ DOMAIN rob'[u] = 1 .. Len(rob'[u])
      /\ \A i \in DOMAIN rob'[u] : rob'[u][i] = rob[u][IF u = t THEN i + 1 ELSE i]
  BY PopFacts
<1>1. ASSUME NEW i \in Writers(u)'
      PROVE  LET k == IF u = t THEN i + 1 ELSE i
             IN i \in Nat /\ i >= 1 /\ k \in Writers(u) /\ rob'[u][i] = rob[u][k]
  <2> DEFINE k == IF u = t THEN i + 1 ELSE i
  <2>1. i \in DOMAIN rob'[u] /\ HasDest(rob'[u][i])
    BY <1>1 DEF Writers, HasDest
  <2>2. i \in Nat /\ i >= 1 /\ k \in DOMAIN rob[u]
    BY <1>0, <2>1
  <2>3. rob'[u][i] = rob[u][k]
    BY <1>0, <2>1
  <2> QED
    BY <2>1, <2>2, <2>3 DEF Writers
<1>2. ASSUME NEW k \in Writers(u), u = t, k # 1
      PROVE  k \in Int /\ k - 1 \in Writers(u)' /\ rob'[u][k - 1] = rob[u][k]
  <2>1. k - 1 \in DOMAIN rob'[u] /\ k \in Int /\ (k - 1) + 1 = k
    BY <1>0, <1>2 DEF Writers
  <2>2. rob'[u][k - 1] = rob[u][k]
    BY <1>0, <1>2, <2>1
  <2>3. HasDest(rob'[u][k - 1])
    BY <2>2, <1>2 DEF Writers
  <2> QED
    BY <2>1, <2>2, <2>3 DEF Writers, HasDest
<1>3. ASSUME NEW k \in Writers(u), u # t
      PROVE  k \in Writers(u)' /\ rob'[u][k] = rob[u][k]
  <2>1. rob'[u] = rob[u]
    BY <1>3 DEF TypeOK
  <2> QED
    BY <2>1, <1>3 DEF Writers, HasDest
<1> QED
  BY <1>1, <1>2, <1>3

(* The mapping that the head of the ROB replaced is architectural.         *)
LEMMA HeadReplacedArch ==
  ASSUME RegisterInv, NEW t \in Threads, 1 \in Writers(t)
  PROVE  reg_file[rob[t][1].dest_format][rob[t][1].old_physreg] = "REG_ARCH"
<1>1. SeenAt(t, rob[t][1].archreg, 1, rob[t][1].old_physreg)
  BY DEF RegisterInv, MapHistory
<1>2. WritersBefore(t, rob[t][1].archreg, 1) = {}
  BY WriterFacts DEF RegisterInv, WritersBefore
<1> QED
  BY <1>1, <1>2, WriterFacts DEF SeenAt, RegisterInv

(* commit() frees the register that the head replaced, which is             *)
(* architectural and needed for nothing else, and makes the head's own      *)
(* register architectural.                                                  *)
LEMMA CommitStep ==
  ASSUME RegisterInv, NEW t \in Threads, Commit(t)
  PROVE  RegisterInv'
<1> USE DEF RegisterInv
<1> DEFINE w == 1 \in Writers(t)
           d == rob[t][1].dest_format
           o == rob[t][1].old_physreg
           q == rob[t][1].physreg
<1>1. /\ rob[t] # <<>>
      /\ rob' = [rob EXCEPT ![t] = Tail(@)]
      /\ UNCHANGED <<ifq, rename_table, spec_mode>>
  BY DEF Commit, CommitDest, Retired, CommitNoDest, MayCommit
<1>2. /\ Head(rob[t]) = rob[t][1]
      /\ HasDest(rob[t][1]) <=> w
      /\ rob' \in [Threads -> Seq(Entries)]
  <2>1. /\ Head(rob[t]) = rob[t][1] /\ Len(rob[t]) \in Nat /\ Len(rob[t]) >= 1
        /\ DOMAIN rob[t] = 1 .. Len(rob[t])
        /\ rob' \in [Threads -> Seq(Entries)]
    BY <1>1, PopFacts
  <2> QED
    BY <2>1 DEF Writers
<1>3. ASSUME w
      PROVE  /\ d \in RegTypes /\ o \in Phys /\ q \in Phys /\ o # q
             /\ reg_file[d][o] = "REG_ARCH"
             /\ reg_file[d][q] # "REG_ARCH" /\ reg_file[d][q] # "REG_FREE"
  BY <1>3, WriterFacts, HeadReplacedArch DEF StateOf, Taken
<1>4. /\ w => /\ reg_file' = [reg_file EXCEPT ![d] =
                                 [@ EXCEPT ![o] = "REG_FREE", ![q] = "REG_ARCH"]]
              /\ reg_counter' = [reg_counter EXCEPT ![t] = Decref(@, 1)]
              /\ dcra_rf' = [dcra_rf EXCEPT ![t][d] = @ - 1]
      /\ ~w => UNCHANGED <<reg_file, reg_counter, dcra_rf>>
  BY <1>2 DEF Commit, CommitDest, Retired, CommitNoDest
<1>5. ASSUME NEW ty \in RegTypes, NEW p \in Phys
      PROVE  reg_file'[ty][p] = IF w /\ ty = d /\ p = o THEN "REG_FREE"
                                ELSE IF w /\ ty = d /\ p = q THEN "REG_ARCH"
                                ELSE reg_file[ty][p]
  BY <1>3, <1>4 DEF TypeOK
<1>6. TypeOK'
  <2>1. CASE w
    <3>1. reg_file' \in [RegTypes -> [Phys -> {"REG_FREE", "REG_ALLOC", "REG_WB", "REG_ARCH"}]]
      <4>1. reg_file[d] \in [Phys -> {"REG_FREE", "REG_ALLOC", "REG_WB", "REG_ARCH"}]
        BY <2>1, <1>3 DEF TypeOK
      <4>2. [reg_file[d] EXCEPT ![o] = "REG_FREE", ![q] = "REG_ARCH"]
              \in [Phys -> {"REG_FREE", "REG_ALLOC", "REG_WB", "REG_ARCH"}]
        BY <4>1
      <4> QED
        BY <2>1, <1>4, <4>2 DEF TypeOK
    <3>2. reg_counter' \in [Threads -> Nat]
      BY <2>1, <1>4 DEF TypeOK, Decref
    <3>3. dcra_rf' \in [Threads -> [RegTypes -> Int]]
      <4>1. dcra_rf[t] \in [RegTypes -> Int]
        BY DEF TypeOK
      <4>2. [dcra_rf[t] EXCEPT ![d] = @ - 1] \in [RegTypes -> Int]
        BY <4>1, <2>1, <1>3
      <4> QED
        BY <2>1, <1>4, <4>2 DEF TypeOK
    <3> QED
      BY <1>1, <1>2, <3>1, <3>2, <3>3 DEF TypeOK
  <2>2. CASE ~w
    BY <2>2, <1>1, <1>2, <1>4 DEF TypeOK
  <2> QED
    BY <2>1, <2>2
<1>7. ASSUME NEW u \in Threads
      PROVE  /\ \A i \in Writers(u)' :
                  LET k == IF u = t THEN i + 1 ELSE i
                  IN i \in Nat /\ i >= 1 /\ k \in Writers(u) /\ rob'[u][i] = rob[u][k]
             /\ \A k \in Writers(u) :
                  u = t /\ k # 1 => k \in Int /\ k - 1 \in Writers(u)'
                                    /\ rob'[u][k - 1] = rob[u][k]
             /\ \A k \in Writers(u) : u # t => k \in Writers(u)' /\ rob'[u][k] = rob[u][k]
  BY <1>1, PopWriters
<1>7a. ASSUME w, NEW u \in Threads
       PROVE  /\ \A a \in ArchRegs : ~(TypeOf(a) = d /\ rename_table[u][a] = o)
              /\ \A k \in Writers(u) :
                   rob[u][k].dest_format = d /\ rob[u][k].old_physreg = o => u = t /\ k = 1
  <2>1. \A a \in ArchRegs : Mapped(u, a) # Replaced(t, 1)
    BY <1>7a DEF NoRegisterShared
  <2>2. \A k \in Writers(u) : Replaced(u, k) = Replaced(t, 1) => u = t /\ k = 1
    BY <1>7a DEF NoRegisterShared
  <2> QED
    BY <2>1, <2>2 DEF Mapped, Replaced
<1>8. ASSUME NEW u \in Threads, NEW i \in Writers(u)'
      PROVE  LET k == IF u = t THEN i + 1 ELSE i
             IN /\ k \in Writers(u)
                /\ u = t => k # 1
                /\ rob'[u][i] = rob[u][k]
                /\ Taken(u, i)' = Taken(u, k)
                /\ Replaced(u, i)' = Replaced(u, k)
  BY <1>7 DEF Taken, Replaced
<1>9. EntriesOK'
  <2> SUFFICES ASSUME NEW u \in Threads, NEW i \in Writers(u)'
               PROVE  /\ rob'[u][i].dest_format = TypeOf(rob'[u][i].archreg)
                      /\ rob'[u][i].old_physreg \in Phys
                      /\ StateOf(Taken(u, i))' =
                           IF Done(rob'[u][i]) THEN "REG_WB" ELSE "REG_ALLOC"
    BY DEF EntriesOK
  <2> DEFINE k == IF u = t THEN i + 1 ELSE i
  <2>1. k \in Writers(u) /\ (u = t => k # 1) /\ rob'[u][i] = rob[u][k]
    BY <1>8
  <2> HIDE DEF k
  <2>2. /\ rob[u][k].dest_format \in RegTypes /\ rob[u][k].physreg \in Phys
        /\ rob[u][k].dest_format = TypeOf(rob[u][k].archreg)
        /\ rob[u][k].old_physreg \in Phys
        /\ reg_file[rob[u][k].dest_format][rob[u][k].physreg] =
             IF Done(rob[u][k]) THEN "REG_WB" ELSE "REG_ALLOC"
    BY <2>1, WriterFacts DEF EntriesOK, StateOf, Taken
  <2>3. ~(w /\ rob[u][k].dest_format = d /\ rob[u][k].physreg = o)
    BY <2>2, <1>3
  <2>4. ~(w /\ rob[u][k].dest_format = d /\ rob[u][k].physreg = q)
    BY <2>1 DEF TakenOnce, Taken
  <2>5. reg_file'[rob[u][k].dest_format][rob[u][k].physreg] =
          reg_file[rob[u][k].dest_format][rob[u][k].physreg]
    BY <2>2, <2>3, <2>4, <1>5
  <2> QED
    BY <2>1, <2>2, <2>5 DEF StateOf, Taken
<1>10. TakenOnce'
  <2> SUFFICES ASSUME NEW u \in Threads, NEW v \in Threads,
                      NEW i \in Writers(u)', NEW j \in Writers(v)',
                      Taken(u, i)' = Taken(v, j)'
               PROVE  u = v /\ i = j
    BY DEF TakenOnce
  <2> QED
    BY <1>7, <1>8 DEF TakenOnce
<1>11. ASSUME NEW u \in Threads, NEW a \in ArchRegs, NEW n \in Nat, NEW p \in Phys,
              SeenAt(u, a, IF u = t THEN n + 1 ELSE n, p),
              ~(w /\ TypeOf(a) = d /\ p = o)
       PROVE  SeenAt(u, a, n, p)'
  <2> DEFINE m == IF u = t THEN n + 1 ELSE n
             B == WritersBefore(u, a, m)
             C == WritersBefore(u, a, n)'
  <2>0. TypeOf(a) \in RegTypes
    BY DEF TypeOf, RegTypes
  <2>1. ASSUME NEW i \in C
        PROVE  i \in Nat /\ i >= 1 /\ (IF u = t THEN i + 1 ELSE i) \in B
    BY <1>7 DEF WritersBefore
  <2>2. ASSUME NEW k \in B, u = t, k # 1
        PROVE  k \in Int /\ k - 1 \in C /\ rob'[u][k - 1] = rob[u][k]
    BY <2>2, <1>7 DEF WritersBefore
  <2>3. ASSUME NEW k \in B, u # t
        PROVE  k \in C /\ rob'[u][k] = rob[u][k]
    BY <2>3, <1>7 DEF WritersBefore
  <2>4. SeenAt(u, a, m, p)
    BY <1>11
  <2>5. SeenAt(u, a, n, p)' <=> IF C = {} THEN reg_file'[TypeOf(a)][p] = "REG_ARCH"
                                ELSE \E i \in C : /\ \A j \in C : j <= i
                                                  /\ rob'[u][i].physreg = p
    BY DEF SeenAt
  <2>6. CASE B = {}
    <3>1. C = {} /\ reg_file[TypeOf(a)][p] = "REG_ARCH"
      BY <2>1, <2>4, <2>6 DEF SeenAt
    <3>2. reg_file'[TypeOf(a)][p] = "REG_ARCH"
      BY <3>1, <2>0, <1>5, <1>11
    <3> QED
      BY <3>1, <3>2, <2>5
  <2>7. CASE B # {}
    <3>1. PICK k \in B : (\A j \in B : j <= k) /\ rob[u][k].physreg = p
      BY <2>4, <2>7 DEF SeenAt
    <3>2. k \in Writers(u) /\ rob[u][k].archreg = a /\ k \in Nat
      BY WriterFacts DEF WritersBefore
    <3> HIDE DEF B, C
    <3>3. CASE u # t
      <4>1. k \in C /\ \A j \in C : j <= k
        BY <3>1, <3>3, <2>1, <2>3
      <4> QED
        BY <4>1, <3>1, <3>3, <2>3, <2>5
    <3>4. CASE u = t /\ k # 1
      <4>1. k - 1 \in C /\ \A j \in C : j <= k - 1
        BY <3>1, <3>2, <3>4, <2>1, <2>2
      <4> QED
        BY <4>1, <3>1, <3>4, <2>2, <2>5
    <3>5. CASE u = t /\ k = 1
      <4>1. C = {}
        BY <3>1, <3>5, <2>1
      <4>2. w /\ TypeOf(a) = d /\ p = q
        BY <3>1, <3>2, <3>5, WriterFacts
      <4>3. reg_file'[TypeOf(a)][p] = "REG_ARCH"
        BY <4>2, <2>0, <1>3, <1>5
      <4> QED
        BY <4>1, <4>3, <2>5
    <3> QED
      BY <3>3, <3>4, <3>5
  <2> QED
    BY <2>6, <2>7
<1>12. MapHistory'
  <2>1. ASSUME NEW u \in Threads, NEW i \in Writers(u)'
        PROVE  SeenAt(u, rob[u][i].archreg, i, rob[u][i].old_physreg)'
    <3> DEFINE k == IF u = t THEN i + 1 ELSE i
    <3>1. /\ k \in Writers(u) /\ rob'[u][i] = rob[u][k] /\ (u = t => k # 1)
          /\ i \in Nat
      BY <1>7, <1>8
    <3>2. PICK a \in ArchRegs, p \in Phys :
            a = rob[u][k].archreg /\ p = rob[u][k].old_physreg
      BY <3>1, WriterFacts
    <3>3. SeenAt(u, a, k, p)
      BY <3>1, <3>2 DEF MapHistory
    <3>4. ~(w /\ TypeOf(a) = d /\ p = o)
      BY <3>1, <3>2, <1>7a, WriterFacts
    <3>5. SeenAt(u, a, i, p)'
      BY <3>1, <3>3, <3>4, <1>11
    <3>6. rob'[u][i].archreg = a /\ rob'[u][i].old_physreg = p
      BY <3>1, <3>2
    <3> QED
      BY <3>5, <3>6 DEF SeenAt, WritersBefore
  <2>2. ASSUME NEW u \in Threads, NEW a \in ArchRegs
        PROVE  SeenAt(u, a, Len(rob[u]) + 1, rename_table[u][a])'
    <3>1. SeenAt(u, a, Len(rob[u]) + 1, rename_table[u][a])
      BY DEF MapHistory
    <3>2. /\ Len(rob[u]) \in Nat /\ Len(rob'[u]) \in Nat
          /\ Len(rob'[u]) = IF u = t THEN Len(rob[u]) - 1 ELSE Len(rob[u])
      <4>1. /\ Len(rob[u]) \in Nat /\ Len(rob[t]) >= 1
            /\ Len(rob'[u]) = IF u = t THEN Len(rob[u]) - 1 ELSE Len(rob[u])
        BY <1>1, PopFacts
      <4> QED
        BY <4>1
    <3>3. PICK n \in Nat, p \in Phys : n = Len(rob'[u]) + 1 /\ p = rename_table[u][a]
      <4>1. Len(rob'[u]) + 1 \in Nat
        BY <3>2
      <4>2. rename_table[u][a] \in Phys
        BY DEF TypeOK
      <4> QED
        BY <4>1, <4>2
    <3>4. Len(rob[u]) + 1 = IF u = t THEN n + 1 ELSE n
      BY <3>2, <3>3
    <3>5. ~(w /\ TypeOf(a) = d /\ p = o)
      BY <3>3, <1>7a
    <3>6. SeenAt(u, a, IF u = t THEN n + 1 ELSE n, p)
      BY <3>1, <3>3, <3>4
    <3>7. SeenAt(u, a, n, p)'
      BY <3>5, <3>6, <1>11
    <3>8. rename_table'[u][a] = p
      BY <3>3, <1>1
    <3> QED
      BY <3>3, <3>7, <3>8 DEF SeenAt, WritersBefore
  <2> QED
    BY <2>1, <2>2 DEF MapHistory
<1>13. NoRegisterShared'
  <2>1. \A u \in Threads, a \in ArchRegs : Mapped(u, a)' = Mapped(u, a)
    BY <1>1 DEF Mapped
  <2>2. ASSUME NEW u \in Threads, NEW a \in ArchRegs
        PROVE  StateOf(Mapped(u, a))' # "REG_FREE"
    <3>1. TypeOf(a) \in RegTypes /\ rename_table[u][a] \in Phys
      BY DEF TypeOK, TypeOf, RegTypes
    <3>2. ~(w /\ TypeOf(a) = d /\ rename_table[u][a] = o)
      BY <1>7a
    <3>3. reg_file[TypeOf(a)][rename_table[u][a]] # "REG_FREE"
      BY DEF NoRegisterShared, StateOf, Mapped
    <3> QED
      BY <3>1, <3>2, <3>3, <1>1, <1>5 DEF StateOf, Mapped
  <2>3. ASSUME NEW u \in Threads, NEW i \in Writers(u)'
        PROVE  StateOf(Replaced(u, i))' # "REG_FREE"
    <3> DEFINE k == IF u = t THEN i + 1 ELSE i
    <3>1. k \in Writers(u) /\ rob'[u][i] = rob[u][k] /\ (u = t => k # 1)
      BY <1>8
    <3> HIDE DEF k
    <3>2. rob[u][k].dest_format \in RegTypes /\ rob[u][k].old_physreg \in Phys
      BY <3>1, WriterFacts
    <3>3. ~(w /\ rob[u][k].dest_format = d /\ rob[u][k].old_physreg = o)
      BY <3>1, <1>7a
    <3>4. reg_file[rob[u][k].dest_format][rob[u][k].old_physreg] # "REG_FREE"
      BY <3>1 DEF NoRegisterShared, StateOf, Replaced
    <3> QED
      BY <3>1, <3>2, <3>3, <3>4, <1>5 DEF StateOf, Replaced
  <2>4. ASSUME NEW u \in Threads, NEW v \in Threads,
               NEW i \in Writers(u)', NEW j \in Writers(v)',
               Replaced(u, i)' = Replaced(v, j)'
        PROVE  u = v /\ i = j
    BY <2>4, <1>7, <1>8 DEF NoRegisterShared
  <2>5. ASSUME NEW u \in Threads, NEW v \in Threads, NEW a \in ArchRegs,
               NEW j \in Writers(v)'
        PROVE  Mapped(u, a)' # Replaced(v, j)'
    BY <2>1, <1>8 DEF NoRegisterShared
  <2>6. ASSUME NEW u \in Threads, NEW v \in Threads, NEW a \in ArchRegs,
               NEW b \in ArchRegs, Mapped(u, a)' = Mapped(v, b)'
        PROVE  u = v /\ a = b
    BY <2>1, <2>6 DEF NoRegisterShared
  <2> QED
    BY <2>2, <2>3, <2>4, <2>5, <2>6 DEF NoRegisterShared
<1>14. NoRegisterLeak'
  <2> SUFFICES ASSUME NEW ty \in RegTypes, NEW p \in Phys, reg_file'[ty][p] # "REG_FREE"
               PROVE  \E u \in Threads :
                        \/ \E a \in ArchRegs : Mapped(u, a)' = <<ty, p>>
                        \/ \E i \in Writers(u)' : Replaced(u, i)' = <<ty, p>>
    BY DEF NoRegisterLeak
  <2>1. reg_file[ty][p] # "REG_FREE" /\ ~(w /\ ty = d /\ p = o)
    BY <1>3, <1>5
  <2>2. PICK u \in Threads : \/ \E a \in ArchRegs : Mapped(u, a) = <<ty, p>>
                            \/ \E i \in Writers(u) : Replaced(u, i) = <<ty, p>>
    BY <2>1 DEF NoRegisterLeak
  <2>3. CASE \E a \in ArchRegs : Mapped(u, a) = <<ty, p>>
    BY <2>3, <1>1 DEF Mapped
  <2>4. CASE \E i \in Writers(u) : Replaced(u, i) = <<ty, p>>
    <3>1. PICK k \in Writers(u) : Replaced(u, k) = <<ty, p>>
      BY <2>4
    <3>2. ~(u = t /\ k = 1)
      BY <2>1, <3>1 DEF Replaced
    <3>3. CASE u = t
      <4>1. k - 1 \in Writers(u)' /\ rob'[u][k - 1] = rob[u][k]
        BY <3>2, <3>3, <1>7
      <4>2. Replaced(u, k - 1)' = <<ty, p>>
        BY <3>1, <4>1 DEF Replaced
      <4> QED
        BY <4>1, <4>2
    <3>4. CASE u # t
      <4>1. k \in Writers(u)' /\ rob'[u][k] = rob[u][k]
        BY <3>4, <1>7
      <4>2. Replaced(u, k)' = <<ty, p>>
        BY <3>1, <4>1 DEF Replaced
      <4> QED
        BY <4>1, <4>2
    <3> QED
      BY <3>3, <3>4
  <2> QED
    BY <2>2, <2>3, <2>4
<1>15. CountersExact'
  <2>1. ASSUME NEW u \in Threads
        PROVE  InFlight(u)' = IF u = t /\ w THEN InFlight(u) \ {Taken(t, 1)} ELSE InFlight(u)
    <3>1. ASSUME NEW i \in Writers(u)'
          PROVE  Taken(u, i)' \in InFlight(u) /\ ~(u = t /\ w /\ Taken(u, i)' = Taken(t, 1))
      BY <1>8 DEF InFlight, TakenOnce
    <3>2. ASSUME NEW k \in Writers(u), ~(u = t /\ k = 1)
          PROVE  \E i \in Writers(u)' : Taken(u, i)' = Taken(u, k)
      BY <3>2, <1>7 DEF Taken
    <3> QED
      BY <3>1, <3>2 DEF InFlight
  <2>2. ASSUME NEW u \in Threads
        PROVE  /\ reg_counter'[u] = Cardinality(InFlight(u)')
               /\ \A ty \in RegTypes : dcra_rf'[u][ty] = Cardinality(InFlightOf(u, ty)')
    <3> DEFINE r == Taken(t, 1)
    <3>1. IsFiniteSet(InFlight(u)) /\ Cardinality(InFlight(u)) \in Nat
          /\ \A ty : IsFiniteSet(InFlightOf(u, ty)) /\ Cardinality(InFlightOf(u, ty)) \in Nat
      BY SetsFinite DEF InFlightOf
    <3>2. /\ reg_counter[u] = Cardinality(InFlight(u))
          /\ \A ty \in RegTypes : dcra_rf[u][ty] = Cardinality(InFlightOf(u, ty))
      BY DEF CountersExact
    <3>3. CASE u = t /\ w
      <4>1. r \in InFlight(t) /\ r[1] = d
        BY <3>3 DEF InFlight, Taken
      <4>2. InFlight(t)' = InFlight(t) \ {r}
        BY <2>1, <3>3
      <4>3. IsFiniteSet(InFlight(t) \ {r})
            /\ Cardinality(InFlight(t) \ {r}) = Cardinality(InFlight(t)) - 1
        <5>1. IsFiniteSet(InFlight(t))
          BY <3>1, <3>3
        <5> HIDE DEF r
        <5> QED
          BY <5>1, <4>1, FS_RemoveElement
      <4>4. /\ Cardinality(InFlight(t)') = Cardinality(InFlight(t)) - 1
            /\ Cardinality(InFlight(t)') \in Nat
        BY <4>2, <4>3, FS_CardinalityType
      <4>5. reg_counter'[t] = Cardinality(InFlight(t)')
        BY <3>1, <3>2, <3>3, <4>3, <4>4, <1>4 DEF Decref, TypeOK
      <4>6. ASSUME NEW ty \in RegTypes
            PROVE  dcra_rf'[t][ty] = Cardinality(InFlightOf(t, ty)')
        <5>1. InFlightOf(t, ty)' = IF ty = d THEN InFlightOf(t, ty) \ {r} ELSE InFlightOf(t, ty)
          BY <4>1, <4>2 DEF InFlightOf
        <5>2. CASE ty = d
          <6>1. r \in InFlightOf(t, ty)
            BY <4>1, <5>2 DEF InFlightOf
          <6>2. Cardinality(InFlightOf(t, ty)') = Cardinality(InFlightOf(t, ty)) - 1
            <7>1. IsFiniteSet(InFlightOf(t, ty))
              BY <3>1, <3>3
            <7>2. InFlightOf(t, ty)' = InFlightOf(t, ty) \ {r}
              BY <5>1, <5>2
            <7> QED
              BY <7>1, <7>2, <6>1, FS_RemoveElement
          <6> QED
            BY <6>2, <5>2, <3>2, <3>3, <1>3, <1>4 DEF TypeOK
        <5>3. CASE ty # d
          BY <5>1, <5>3, <3>2, <3>3, <1>3, <1>4 DEF TypeOK
        <5> QED
          BY <5>2, <5>3
      <4> QED
        BY <3>3, <4>5, <4>6
    <3>4. CASE ~(u = t /\ w)
      <4>1. reg_counter'[u] = reg_counter[u] /\ dcra_rf'[u] = dcra_rf[u]
        BY <3>4, <1>4 DEF TypeOK
      <4>2. InFlight(u)' = InFlight(u) /\ \A ty : InFlightOf(u, ty)' = InFlightOf(u, ty)
        BY <2>1, <3>4 DEF InFlightOf
      <4> QED
        BY <4>1, <4>2, <3>2
    <3> QED
      BY <3>3, <3>4
  <2> QED
    BY <2>2 DEF CountersExact
<1> QED
  BY <1>6, <1>9, <1>10, <1>12, <1>13, <1>14, <1>15

-----------------------------------------------------------------------------
(* Renaming a destination: a free register becomes the mapping of one      *)
(* architectural register, and what it was mapped to becomes replaced.     *)
LEMMA RenameDestStep ==
  ASSUME RegisterInv, NEW t \in Threads, RenameDest(t)
  PROVE  RegisterInv'
<1> USE DEF RegisterInv
<1>0. ifq[t] # <<>> /\ RenameGuard(t, Head(ifq[t])) /\ TakesRegister(Head(ifq[t]))
  BY DEF RenameDest, OldMapping, RenameGuard, MayRename
<1>1. PICK inst \in Insts : inst = Head(ifq[t])
  BY <1>0, HeadIsInst
<1> DEFINE ty == DestOf(inst.op)
           x  == inst.out1
<1>2. ty \in RegTypes /\ x \in ArchRegs /\ TypeOf(x) = ty
  BY <1>0, <1>1, InstFacts DEF TakesRegister
<1>2a. PICK n \in Nat, old \in Phys : n = Len(rob[t]) /\ old = rename_table[t][x]
  <2>1. rob[t] \in Seq(Entries) /\ rename_table[t][x] \in Phys
    BY <1>2, SMTT(30) DEF TypeOK
  <2> QED
    BY <2>1, LenProperties
<1>3. PICK p0 \in Free(ty) :
        /\ EnterRob(t, inst, NewEntry(t, inst, p0, old, ty))
        /\ rename_table' = [rename_table EXCEPT ![t][x] = p0]
        /\ reg_file' = [reg_file EXCEPT ![ty][p0] = "REG_ALLOC"]
        /\ reg_counter' = [reg_counter EXCEPT ![t] = @ + 1]
        /\ dcra_rf' = [dcra_rf EXCEPT ![t][ty] = @ + 1]
  BY <1>1, <1>2a DEF RenameDest, OldMapping
<1> DEFINE e == NewEntry(t, inst, p0, old, ty)
<1>4. p0 \in Phys /\ reg_file[ty][p0] = "REG_FREE" /\ p0 # NoReg
  BY <1>2, <1>3 DEF Free, TypeOK, Phys, NoReg
<1>5. e \in Entries
  BY <1>2, <1>4, NewEntryType
<1>6. /\ e.archreg = x /\ e.physreg = p0 /\ e.old_physreg = old /\ e.dest_format = ty
      /\ HasDest(e) /\ ~Done(e)
  BY <1>4 DEF NewEntry, HasDest, Done
<1>7. rob' = [rob EXCEPT ![t] = Append(@, e)]
  BY <1>3 DEF EnterRob
<1> HIDE DEF e
<1>8. /\ rob' \in [Threads -> Seq(Entries)]
      /\ \A u \in Threads : u # t => rob'[u] = rob[u]
      /\ n \in Nat
      /\ Len(rob'[t]) = n + 1
      /\ DOMAIN rob[t] = 1 .. n
      /\ DOMAIN rob'[t] = 1 .. n + 1
      /\ \A i \in 1 .. n : rob'[t][i] = rob[t][i]
      /\ rob'[t][n + 1] = e
  BY <1>2a, <1>5, <1>7, AppendFacts
<1>9. TypeOK'
  <2>1. ifq' \in [Threads -> Seq(Insts)] /\ spec_mode' \in [Threads -> BOOLEAN]
    BY <1>0, <1>3, <1>5, EnterRobType DEF e
  <2>2. rename_table' \in [Threads -> [ArchRegs -> Phys]]
    BY <1>2, <1>3, <1>4 DEF TypeOK
  <2>3. reg_file' \in [RegTypes -> [Phys -> {"REG_FREE", "REG_ALLOC", "REG_WB", "REG_ARCH"}]]
    BY <1>2, <1>3, <1>4 DEF TypeOK
  <2>4. reg_counter' \in [Threads -> Nat]
    BY <1>3 DEF TypeOK
  <2>5. dcra_rf' \in [Threads -> [RegTypes -> Int]]
    <3>1. [dcra_rf[t] EXCEPT ![ty] = @ + 1] \in [RegTypes -> Int]
      BY <1>2 DEF TypeOK
    <3> QED
      BY <3>1, <1>3 DEF TypeOK
  <2> QED
    BY <1>8, <2>1, <2>2, <2>3, <2>4, <2>5 DEF TypeOK
<1>10. ASSUME NEW u \in Threads
       PROVE  /\ Writers(u)' = IF u = t THEN Writers(u) \cup {n + 1} ELSE Writers(u)
              /\ \A i \in Writers(u) : rob'[u][i] = rob[u][i]
              /\ u = t => \A i \in Writers(u) : i \in Nat /\ i <= n
  <2>1. CASE u = t
    BY <2>1, <1>6, <1>8 DEF Writers, HasDest
  <2>2. CASE u # t
    BY <2>2, <1>8 DEF Writers
  <2> QED
    BY <2>1, <2>2
<1>11. ASSUME NEW ty1 \in RegTypes, NEW p \in Phys
       PROVE  reg_file'[ty1][p] = IF ty1 = ty /\ p = p0 THEN "REG_ALLOC" ELSE reg_file[ty1][p]
  BY <1>2, <1>3, <1>4 DEF TypeOK
<1>12. ASSUME NEW u \in Threads, NEW i \in Writers(u)
       PROVE  /\ Taken(u, i)' = Taken(u, i) /\ Replaced(u, i)' = Replaced(u, i)
              /\ Taken(u, i) # <<ty, p0>> /\ Replaced(u, i) # <<ty, p0>>
              /\ StateOf(Taken(u, i))' = StateOf(Taken(u, i))
              /\ StateOf(Replaced(u, i))' # "REG_FREE"
  <2>1. /\ rob'[u][i] = rob[u][i]
        /\ rob[u][i].dest_format \in RegTypes /\ rob[u][i].physreg \in Phys
        /\ rob[u][i].old_physreg \in Phys
        /\ reg_file[rob[u][i].dest_format][rob[u][i].physreg] # "REG_FREE"
    BY <1>10, WriterFacts DEF StateOf, Taken
  <2>2. reg_file[rob[u][i].dest_format][rob[u][i].old_physreg] # "REG_FREE"
    BY DEF NoRegisterShared, StateOf, Replaced
  <2> QED
    BY <2>1, <2>2, <1>4, <1>11 DEF StateOf, Taken, Replaced
<1>13. /\ Taken(t, n + 1)' = <<ty, p0>> /\ Replaced(t, n + 1)' = Mapped(t, x)
       /\ StateOf(Taken(t, n + 1))' = "REG_ALLOC"
  <2>1. Taken(t, n + 1)' = <<ty, p0>>
    BY <1>6, <1>8 DEF Taken
  <2>2. Replaced(t, n + 1)' = Mapped(t, x)
    BY <1>2, <1>2a, <1>6, <1>8 DEF Replaced, Mapped
  <2>3. reg_file'[ty][p0] = "REG_ALLOC"
    BY <1>2, <1>4, <1>11
  <2> QED
    BY <2>1, <2>2, <2>3 DEF StateOf
<1>14. EntriesOK'
  <2> SUFFICES ASSUME NEW u \in Threads, NEW i \in Writers(u)'
               PROVE  /\ rob'[u][i].dest_format = TypeOf(rob'[u][i].archreg)
                      /\ rob'[u][i].old_physreg \in Phys
                      /\ StateOf(Taken(u, i))' =
                           IF Done(rob'[u][i]) THEN "REG_WB" ELSE "REG_ALLOC"
    BY DEF EntriesOK
  <2>1. CASE i \in Writers(u)
    BY <2>1, <1>10, <1>12 DEF EntriesOK
  <2>2. CASE u = t /\ i = n + 1
    BY <2>2, <1>2, <1>4, <1>6, <1>8, <1>13
  <2> QED
    BY <2>1, <2>2, <1>10
<1>15. TakenOnce'
  <2> SUFFICES ASSUME NEW u \in Threads, NEW v \in Threads,
                      NEW i \in Writers(u)', NEW j \in Writers(v)',
                      Taken(u, i)' = Taken(v, j)'
               PROVE  u = v /\ i = j
    BY DEF TakenOnce
  <2>1. CASE i \in Writers(u) /\ j \in Writers(v)
    BY <2>1, <1>12 DEF TakenOnce
  <2>2. CASE u = t /\ i = n + 1 /\ v = t /\ j = n + 1
    BY <2>2
  <2>3. CASE u = t /\ i = n + 1 /\ j \in Writers(v)
    BY <2>3, <1>12, <1>13
  <2>4. CASE i \in Writers(u) /\ v = t /\ j = n + 1
    BY <2>4, <1>12, <1>13
  <2> QED
    BY <2>1, <2>2, <2>3, <2>4, <1>10
<1>16. MapHistory'
  <2>1. ASSUME NEW u \in Threads, NEW a \in ArchRegs, NEW m \in Nat, NEW p \in Phys,
               u = t => m <= n + 1, SeenAt(u, a, m, p)
        PROVE  SeenAt(u, a, m, p)'
    <3>1. WritersBefore(u, a, m)' = WritersBefore(u, a, m)
      BY <2>1, <1>8, <1>10 DEF WritersBefore
    <3>2. \A i \in WritersBefore(u, a, m) : rob'[u][i] = rob[u][i]
      BY <1>10 DEF WritersBefore
    <3>3. reg_file[TypeOf(a)][p] = "REG_ARCH" => reg_file'[TypeOf(a)][p] = "REG_ARCH"
      <4>1. TypeOf(a) \in RegTypes
        BY DEF TypeOf, RegTypes
      <4> QED
        BY <4>1, <1>4, <1>11
    <3> QED
      BY <2>1, <3>1, <3>2, <3>3 DEF SeenAt
  <2>2. ASSUME NEW u \in Threads, NEW i \in Writers(u)
        PROVE  SeenAt(u, rob[u][i].archreg, i, rob[u][i].old_physreg)'
    <3>1. PICK a \in ArchRegs, p \in Phys :
            a = rob[u][i].archreg /\ p = rob[u][i].old_physreg
      BY WriterFacts
    <3>2. i \in Nat /\ (u = t => i <= n + 1)
      BY <1>8, WriterFacts
    <3>3. SeenAt(u, a, i, p)
      BY <3>1 DEF MapHistory
    <3>4. SeenAt(u, a, i, p)'
      BY <2>1, <3>2, <3>3
    <3>5. rob'[u][i].archreg = a /\ rob'[u][i].old_physreg = p
      BY <3>1, <1>10
    <3> QED
      BY <3>4, <3>5 DEF SeenAt, WritersBefore
  <2>3. SeenAt(t, rob[t][n + 1].archreg, n + 1, rob[t][n + 1].old_physreg)'
    <3>1. PICK m \in Nat, p \in Phys : m = n + 1 /\ p = old
      BY <1>4, <1>8
    <3>2. SeenAt(t, x, m, p)
      BY <1>2, <1>2a, <3>1 DEF MapHistory
    <3>3. PICK a \in ArchRegs : a = x
      BY <1>2
    <3>4. SeenAt(t, a, m, p)
      BY <3>2, <3>3
    <3>5. SeenAt(t, a, m, p)'
      BY <2>1, <3>1, <3>4, <1>8
    <3>6. rob'[t][m].archreg = a /\ rob'[t][m].old_physreg = p
      BY <3>1, <3>3, <1>6, <1>8
    <3> QED
      BY <3>1, <3>5, <3>6 DEF SeenAt, WritersBefore
  <2>4. ASSUME NEW u \in Threads, NEW a \in ArchRegs
        PROVE  SeenAt(u, a, Len(rob[u]) + 1, rename_table[u][a])'
    <3>1. SeenAt(u, a, Len(rob[u]) + 1, rename_table[u][a])
      BY DEF MapHistory
    <3>2. PICK m \in Nat, p \in Phys :
            m = Len(rob[u]) + 1 /\ p = rename_table[u][a]
      <4>1. rob[u] \in Seq(Entries) /\ rename_table[u][a] \in Phys
        BY DEF TypeOK
      <4> QED
        BY <4>1, LenProperties
    <3>3. SeenAt(u, a, m, p)'
      BY <2>1, <3>1, <3>2, <1>2a
    <3>4. CASE u # t
      <4>1. rob'[u] = rob[u] /\ rename_table'[u][a] = p
        BY <3>2, <3>4, <1>3, <1>8 DEF TypeOK
      <4> QED
        BY <3>2, <3>3, <4>1 DEF SeenAt, WritersBefore
    <3>5. CASE u = t /\ a # x
      <4>1. rename_table'[t][a] = p /\ m = n + 1 /\ Len(rob'[t]) + 1 = m + 1
        BY <3>2, <3>5, <1>2, <1>2a, <1>3, <1>8 DEF TypeOK
      <4>2. WritersBefore(t, a, m + 1)' = WritersBefore(t, a, m)'
        BY <1>6, <1>8, <1>10, <3>5, <4>1 DEF WritersBefore
      <4>3. PICK k \in Nat : k = m + 1
        BY <3>2
      <4>4. SeenAt(t, a, k, p)'
        BY <3>3, <3>5, <4>2, <4>3 DEF SeenAt
      <4> QED
        BY <3>5, <4>1, <4>3, <4>4 DEF SeenAt, WritersBefore
    <3>6. CASE u = t /\ a = x
      <4>1. rename_table'[t][x] = p0 /\ Len(rob'[t]) + 1 = n + 2
        BY <1>2, <1>3, <1>4, <1>8 DEF TypeOK
      <4>2. PICK b \in ArchRegs, k \in Nat : b = x /\ k = n + 2
        BY <1>2, <1>8
      <4>3. n + 1 \in WritersBefore(t, b, k)'
        BY <1>6, <1>8, <1>10, <4>2 DEF WritersBefore
      <4>4. \A j \in WritersBefore(t, b, k)' : j <= n + 1
        BY <1>8, <1>10, <4>2 DEF WritersBefore
      <4>5. SeenAt(t, b, k, p0)'
        BY <1>6, <1>8, <4>3, <4>4 DEF SeenAt
      <4> QED
        BY <3>6, <4>1, <4>2, <4>5 DEF SeenAt, WritersBefore
    <3> QED
      BY <3>4, <3>5, <3>6
  <2>5. \A u \in Threads : \A i \in Writers(u)' :
          SeenAt(u, rob[u][i].archreg, i, rob[u][i].old_physreg)'
    BY <2>2, <2>3, <1>10
  <2> QED
    BY <2>4, <2>5 DEF MapHistory
<1>17. ASSUME NEW u \in Threads, NEW a \in ArchRegs
       PROVE  /\ Mapped(u, a)' = IF u = t /\ a = x THEN <<ty, p0>> ELSE Mapped(u, a)
              /\ Mapped(u, a) # <<ty, p0>>
              /\ StateOf(Mapped(u, a))' # "REG_FREE"
  <2>1. TypeOf(a) \in RegTypes /\ rename_table[u][a] \in Phys
    BY DEF TypeOK, TypeOf, RegTypes
  <2>2. reg_file[TypeOf(a)][rename_table[u][a]] # "REG_FREE"
    BY DEF NoRegisterShared, StateOf, Mapped
  <2>3. Mapped(u, a) # <<ty, p0>>
    BY <2>2, <1>4 DEF Mapped
  <2>4. rename_table'[u][a] = IF u = t /\ a = x THEN p0 ELSE rename_table[u][a]
    BY <1>2, <1>3 DEF TypeOK
  <2>5. Mapped(u, a)' = IF u = t /\ a = x THEN <<ty, p0>> ELSE Mapped(u, a)
    BY <2>4, <1>2 DEF Mapped
  <2>6. StateOf(Mapped(u, a))' # "REG_FREE"
    BY <2>1, <2>2, <2>4, <1>2, <1>4, <1>11 DEF StateOf, Mapped
  <2> QED
    BY <2>3, <2>5, <2>6
<1>18. ASSUME NEW u \in Threads, NEW i \in Writers(u)'
       PROVE  /\ ~(u = t /\ i = n + 1) => i \in Writers(u) /\ Replaced(u, i)' = Replaced(u, i)
              /\ u = t /\ i = n + 1 => Replaced(u, i)' = Mapped(t, x)
              /\ StateOf(Replaced(u, i))' # "REG_FREE"
  <2>1. CASE u = t /\ i = n + 1
    <3>1. rob'[t][n + 1].dest_format = ty /\ rob'[t][n + 1].old_physreg = old
      BY <1>6, <1>8
    <3>2. reg_file[ty][old] # "REG_FREE"
      BY <1>2, <1>2a DEF NoRegisterShared, StateOf, Mapped
    <3>3. reg_file'[ty][old] # "REG_FREE"
      BY <3>2, <1>2, <1>4, <1>11
    <3>4. StateOf(Replaced(t, n + 1))' # "REG_FREE"
      BY <3>1, <3>3 DEF StateOf, Replaced
    <3> QED
      BY <2>1, <1>13, <3>4
  <2>2. CASE ~(u = t /\ i = n + 1)
    BY <2>2, <1>10, <1>12
  <2> QED
    BY <2>1, <2>2
<1>19. NoRegisterShared'
  <2>1. ASSUME NEW u \in Threads, NEW v \in Threads, NEW a \in ArchRegs,
               NEW b \in ArchRegs, Mapped(u, a)' = Mapped(v, b)'
        PROVE  u = v /\ a = b
    <3>1. /\ Mapped(u, a)' = IF u = t /\ a = x THEN <<ty, p0>> ELSE Mapped(u, a)
          /\ Mapped(v, b)' = IF v = t /\ b = x THEN <<ty, p0>> ELSE Mapped(v, b)
          /\ Mapped(u, a) # <<ty, p0>> /\ Mapped(v, b) # <<ty, p0>>
      BY <1>17
    <3>2. Mapped(u, a) = Mapped(v, b) => u = v /\ a = b
      BY DEF NoRegisterShared
    <3> QED
      BY <2>1, <3>1, <3>2
  <2>2. ASSUME NEW u \in Threads, NEW v \in Threads, NEW a \in ArchRegs,
               NEW j \in Writers(v)'
        PROVE  Mapped(u, a)' # Replaced(v, j)'
    <3>1. /\ Mapped(u, a)' = IF u = t /\ a = x THEN <<ty, p0>> ELSE Mapped(u, a)
          /\ Mapped(u, a) # <<ty, p0>> /\ Mapped(t, x) # <<ty, p0>>
      BY <1>2, <1>17
    <3>2. CASE v = t /\ j = n + 1
      <4>1. Replaced(v, j)' = Mapped(t, x)
        BY <3>2, <1>18
      <4>2. ~(u = t /\ a = x) => Mapped(u, a) # Mapped(t, x)
        BY <1>2 DEF NoRegisterShared
      <4> QED
        BY <3>1, <4>1, <4>2
    <3>3. CASE ~(v = t /\ j = n + 1)
      <4>1. j \in Writers(v) /\ Replaced(v, j)' = Replaced(v, j)
        BY <3>3, <1>18
      <4>2. Mapped(u, a) # Replaced(v, j) /\ Replaced(v, j) # <<ty, p0>>
        BY <4>1, <1>12 DEF NoRegisterShared
      <4> QED
        BY <3>1, <4>1, <4>2
    <3> QED
      BY <3>2, <3>3
  <2>3. ASSUME NEW u \in Threads, NEW v \in Threads,
               NEW i \in Writers(u)', NEW j \in Writers(v)',
               Replaced(u, i)' = Replaced(v, j)'
        PROVE  u = v /\ i = j
    <3>1. CASE u = t /\ i = n + 1 /\ v = t /\ j = n + 1
      BY <3>1
    <3>2. CASE u = t /\ i = n + 1 /\ ~(v = t /\ j = n + 1)
      <4>1. j \in Writers(v) /\ Mapped(t, x) = Replaced(v, j)
        BY <2>3, <3>2, <1>18
      <4> QED
        BY <4>1, <1>2 DEF NoRegisterShared
    <3>3. CASE ~(u = t /\ i = n + 1) /\ v = t /\ j = n + 1
      <4>1. i \in Writers(u) /\ Mapped(t, x) = Replaced(u, i)
        BY <2>3, <3>3, <1>18
      <4> QED
        BY <4>1, <1>2 DEF NoRegisterShared
    <3>4. CASE ~(u = t /\ i = n + 1) /\ ~(v = t /\ j = n + 1)
      <4>1. i \in Writers(u) /\ j \in Writers(v) /\ Replaced(u, i) = Replaced(v, j)
        BY <2>3, <3>4, <1>18
      <4> QED
        BY <4>1 DEF NoRegisterShared
    <3> QED
      BY <3>1, <3>2, <3>3, <3>4
  <2> QED
    BY <2>1, <2>2, <2>3, <1>17, <1>18 DEF NoRegisterShared
<1>20. NoRegisterLeak'
  <2> SUFFICES ASSUME NEW d \in RegTypes, NEW p \in Phys, reg_file'[d][p] # "REG_FREE"
               PROVE  \E u \in Threads :
                        \/ \E a \in ArchRegs : Mapped(u, a)' = <<d, p>>
                        \/ \E i \in Writers(u)' : Replaced(u, i)' = <<d, p>>
    BY DEF NoRegisterLeak
  <2>1. CASE d = ty /\ p = p0
    BY <2>1, <1>2, <1>17
  <2>2. CASE ~(d = ty /\ p = p0)
    <3>1. reg_file[d][p] # "REG_FREE"
      BY <2>2, <1>11
    <3>2. PICK u \in Threads : \/ \E a \in ArchRegs : Mapped(u, a) = <<d, p>>
                              \/ \E i \in Writers(u) : Replaced(u, i) = <<d, p>>
      BY <3>1 DEF NoRegisterLeak
    <3>3. ASSUME NEW a \in ArchRegs, Mapped(u, a) = <<d, p>>, ~(u = t /\ a = x)
          PROVE  Mapped(u, a)' = <<d, p>>
      BY <3>3, <1>17
    <3>4. ASSUME u = t, Mapped(t, x) = <<d, p>>
          PROVE  n + 1 \in Writers(t)' /\ Replaced(t, n + 1)' = <<d, p>>
      BY <3>4, <1>10, <1>13
    <3>5. ASSUME NEW i \in Writers(u), Replaced(u, i) = <<d, p>>
          PROVE  i \in Writers(u)' /\ Replaced(u, i)' = <<d, p>>
      BY <3>5, <1>10, <1>12
    <3> QED
      BY <3>2, <3>3, <3>4, <3>5
  <2> QED
    BY <2>1, <2>2
<1>21. CountersExact'
  <2> SUFFICES ASSUME NEW u \in Threads
               PROVE  /\ reg_counter'[u] = Cardinality(InFlight(u)')
                      /\ \A d \in RegTypes : dcra_rf'[u][d] = Cardinality(InFlightOf(u, d)')
    BY DEF CountersExact
  <2> DEFINE r == <<ty, p0>>
  <2>1. /\ IsFiniteSet(InFlight(u)) /\ Cardinality(InFlight(u)) \in Nat
        /\ \A d : IsFiniteSet(InFlightOf(u, d)) /\ Cardinality(InFlightOf(u, d)) \in Nat
    BY SetsFinite DEF InFlightOf
  <2>2. /\ reg_counter[u] = Cardinality(InFlight(u))
        /\ \A d \in RegTypes : dcra_rf[u][d] = Cardinality(InFlightOf(u, d))
    BY DEF CountersExact
  <2>3. CASE u = t
    <3>1. r \notin InFlight(t)
      BY <1>12 DEF InFlight
    <3>2. InFlight(t)' = InFlight(t) \cup {r}
      BY <1>10, <1>12, <1>13 DEF InFlight
    <3>3. Cardinality(InFlight(t)') = Cardinality(InFlight(t)) + 1
      <4>1. IsFiniteSet(InFlight(t))
        BY <2>1, <2>3
      <4> QED
        BY <4>1, <3>1, <3>2, FS_AddElement
    <3>4. reg_counter'[t] = reg_counter[t] + 1
      BY <1>3 DEF TypeOK
    <3>5. ASSUME NEW d \in RegTypes
          PROVE  dcra_rf'[t][d] = Cardinality(InFlightOf(t, d)')
      <4>1. CASE d = ty
        <5>1. r \notin InFlightOf(t, ty) /\ IsFiniteSet(InFlightOf(t, ty))
          BY <2>1, <2>3, <3>1 DEF InFlightOf
        <5>2. InFlightOf(t, ty)' = InFlightOf(t, ty) \cup {r}
          BY <3>2 DEF InFlightOf
        <5>3. Cardinality(InFlightOf(t, ty)') = Cardinality(InFlightOf(t, ty)) + 1
          BY <5>1, <5>2, FS_AddElement
        <5>4. dcra_rf'[t][ty] = dcra_rf[t][ty] + 1
          BY <1>2, <1>3 DEF TypeOK
        <5> QED
          BY <4>1, <5>3, <5>4, <2>2, <2>3
      <4>2. CASE d # ty
        <5>1. InFlightOf(t, d)' = InFlightOf(t, d)
          BY <3>2, <4>2 DEF InFlightOf
        <5>2. dcra_rf'[t][d] = dcra_rf[t][d]
          BY <1>2, <1>3, <4>2 DEF TypeOK
        <5> QED
          BY <5>1, <5>2, <2>2, <2>3
      <4> QED
        BY <4>1, <4>2
    <3> QED
      BY <2>2, <2>3, <3>3, <3>4, <3>5
  <2>4. CASE u # t
    <3>1. InFlight(u)' = InFlight(u) /\ \A d : InFlightOf(u, d)' = InFlightOf(u, d)
      BY <2>4, <1>10, <1>12 DEF InFlight, InFlightOf
    <3>2. reg_counter'[u] = reg_counter[u] /\ dcra_rf'[u] = dcra_rf[u]
      BY <2>4, <1>3 DEF TypeOK
    <3> QED
      BY <3>1, <3>2, <2>2
  <2> QED
    BY <2>3, <2>4
<1> QED
  BY <1>9, <1>14, <1>15, <1>16, <1>19, <1>20, <1>21

-----------------------------------------------------------------------------
(* rollbackTo() cuts the ROB of t behind entry i, which is completed.      *)
LEMMA TruncateFacts ==
  ASSUME TypeOK, NEW t \in Threads, NEW i \in DOMAIN rob[t],
         rob' = [rob EXCEPT ![t] = [SubSeq(@, 1, i) EXCEPT ![i].completed = TRUE]]
  PROVE  /\ rob' \in [Threads -> Seq(Entries)]
         /\ \A u \in Threads : u # t => rob'[u] = rob[u]
         /\ i \in Nat /\ Len(rob[t]) \in Nat /\ 1 <= i /\ i <= Len(rob[t])
         /\ DOMAIN rob[t] = 1 .. Len(rob[t])
         /\ Len(rob'[t]) = i
         /\ DOMAIN rob'[t] = 1 .. i
         /\ \A j \in 1 .. i : rob'[t][j] = IF j = i
                                           THEN [rob[t][i] EXCEPT !.completed = TRUE]
                                           ELSE rob[t][j]
<1> DEFINE e == [rob[t][i] EXCEPT !.completed = TRUE]
           s == SubSeq(rob[t], 1, i)
<1>1. rob[t] \in Seq(Entries)
  BY DEF TypeOK
<1>2. /\ i \in Nat /\ Len(rob[t]) \in Nat /\ 1 <= i /\ i <= Len(rob[t])
      /\ DOMAIN rob[t] = 1 .. Len(rob[t])
      /\ \A j \in 1 .. i : rob[t][j] \in Entries
  BY <1>1, LenProperties
<1>3. e \in Entries
  <2>1. rob[t][i] \in Entries
    BY <1>2
  <2> QED
    BY <2>1 DEF Entries
<1>4. s \in Seq(Entries) /\ Len(s) = i /\ \A j \in 1 .. i : s[j] = rob[t][j]
  <2>1. SubSeq(rob[t], 1, i) \in Seq(Entries)
    BY <1>2, SubSeqProperties
  <2>2. Len(SubSeq(rob[t], 1, i)) = i
    BY <1>2, SubSeqProperties
  <2>3. \A j \in 1 .. i : SubSeq(rob[t], 1, i)[j] = rob[t][1 + j - 1]
    BY <1>2, SubSeqProperties
  <2>4. \A j \in 1 .. i : 1 + j - 1 = j
    BY <1>2
  <2> QED
    BY <2>1, <2>2, <2>3, <2>4
<1>5. rob'[t] = [s EXCEPT ![i] = e]
  <2>1. s[i] = rob[t][i]
    BY <1>2, <1>4
  <2>2. rob'[t] = [s EXCEPT ![i].completed = TRUE]
    BY DEF TypeOK
  <2> QED
    BY <2>1, <2>2
<1> HIDE DEF e, s
<1>6. /\ [s EXCEPT ![i] = e] \in Seq(Entries)
      /\ Len([s EXCEPT ![i] = e]) = Len(s)
      /\ \A j \in 1 .. Len(s) : [s EXCEPT ![i] = e][j] = IF j = i THEN e ELSE s[j]
  BY <1>2, <1>3, <1>4, ExceptSeq
<1>7. /\ rob'[t] \in Seq(Entries) /\ Len(rob'[t]) = i
      /\ \A j \in 1 .. i : rob'[t][j] = IF j = i THEN e ELSE rob[t][j]
  BY <1>4, <1>5, <1>6
<1>8. \A u \in Threads : u # t => rob'[u] = rob[u]
  BY DEF TypeOK
<1>9. rob' \in [Threads -> Seq(Entries)]
  BY <1>7 DEF TypeOK
<1>10. DOMAIN rob'[t] = 1 .. i
  BY <1>7, LenProperties
<1> QED
  BY <1>2, <1>7, <1>8, <1>9, <1>10 DEF e

(* What the rollback restores: a mapping that no squashed instruction has  *)
(* changed stays, any other becomes what its oldest squashed writer        *)
(* replaced.                                                               *)
LEMMA RestoredFacts ==
  ASSUME TypeOK, NEW t \in Threads, NEW i, NEW a \in ArchRegs
  PROVE  \/ /\ \A j \in Squashed(t, i) : rob[t][j].archreg # a
            /\ RestoredMap(t, i)[a] = rename_table[t][a]
         \/ \E j \in Squashed(t, i) :
              /\ IsOldestWriter(t, i, j, a)
              /\ RestoredMap(t, i)[a] = rob[t][j].old_physreg
<1> DEFINE S == {j \in Squashed(t, i) : rob[t][j].archreg = a}
<1>1. CASE S = {}
  BY <1>1 DEF RestoredMap
<1>2. CASE S # {}
  <2>1. rob[t] \in Seq(Entries)
    BY DEF TypeOK
  <2>2. DOMAIN rob[t] = 1 .. Len(rob[t]) /\ Len(rob[t]) \in Nat
    BY <2>1, LenProperties
  <2>3. S \subseteq Nat
    BY <2>2 DEF Squashed
  <2>4. PICK j \in S : \A k \in S : j <= k
    BY <1>2, <2>3, LeastElement
  <2>5. IsOldestWriter(t, i, j, a) /\ j \in DOMAIN rob[t]
    BY <2>4 DEF IsOldestWriter, Squashed
  <2> DEFINE c == CHOOSE k \in DOMAIN rob[t] : IsOldestWriter(t, i, k, a)
  <2>6. c \in DOMAIN rob[t] /\ IsOldestWriter(t, i, c, a)
    BY <2>5
  <2>7. RestoredMap(t, i)[a] = rob[t][c].old_physreg
    BY <1>2 DEF RestoredMap
  <2>8. c \in Squashed(t, i)
    BY <2>6 DEF IsOldestWriter
  <2> QED
    BY <2>6, <2>7, <2>8
<1> QED
  BY <1>1, <1>2

(* A mapping that the instructions up to entry i see does not name a       *)
(* register that the rollback to i frees.                                  *)
LEMMA SeenSurvives ==
  ASSUME RegisterInv, NEW t \in Threads, NEW i \in DOMAIN rob[t],
         NEW u \in Threads, NEW a \in ArchRegs, NEW m \in Nat, NEW p,
         u = t => m <= i + 1, SeenAt(u, a, m, p)
  PROVE  <<TypeOf(a), p>> \notin SquashedRegs(t, i)
<1> SUFFICES ASSUME NEW j \in Squashed(t, i), Taken(t, j) = <<TypeOf(a), p>>
             PROVE  FALSE
  BY DEF SquashedRegs, Taken
<1>0. TypeOK /\ EntriesOK /\ TakenOnce
  BY DEF RegisterInv
<1>1. j \in Writers(t) /\ j > i /\ rob[t] \in Seq(Entries)
  BY <1>0 DEF Squashed, Writers, TypeOK
<1>2. j \in Nat /\ i \in Nat
  BY <1>1, LenProperties DEF Writers
<1>3. StateOf(Taken(t, j)) # "REG_ARCH"
  BY <1>0, <1>1, WriterFacts
<1>4. CASE WritersBefore(u, a, m) = {}
  BY <1>3, <1>4 DEF SeenAt, StateOf
<1>5. CASE WritersBefore(u, a, m) # {}
  <2>1. PICK k \in WritersBefore(u, a, m) : rob[u][k].physreg = p
    BY <1>5 DEF SeenAt
  <2>2. k \in Writers(u) /\ k < m /\ rob[u][k].archreg = a
    BY <2>1 DEF WritersBefore
  <2>3. Taken(u, k) = <<TypeOf(a), p>>
    BY <1>0, <2>1, <2>2, WriterFacts DEF Taken
  <2>4. u = t /\ k = j
    BY <1>0, <1>1, <2>2, <2>3 DEF TakenOnce
  <2> QED
    BY <1>1, <1>2, <2>2, <2>4
<1> QED
  BY <1>4, <1>5

(* The restored mapping of a is the one that entry i left behind.          *)
LEMMA RestoredSeen ==
  ASSUME RegisterInv, NEW t \in Threads, NEW i \in DOMAIN rob[t], NEW a \in ArchRegs
  PROVE  /\ RestoredMap(t, i)[a] \in Phys
         /\ SeenAt(t, a, i + 1, RestoredMap(t, i)[a])
<1>0. TypeOK /\ EntriesOK /\ MapHistory
  BY DEF RegisterInv
<1>1. /\ i \in Nat /\ Len(rob[t]) \in Nat /\ i <= Len(rob[t])
      /\ \A j \in Writers(t) : j \in Nat /\ j <= Len(rob[t])
      /\ \A j \in Squashed(t, i) : j \in Writers(t) /\ j > i
      /\ \A j \in Writers(t) : j > i => j \in Squashed(t, i)
  <2>1. rob[t] \in Seq(Entries)
    BY <1>0 DEF TypeOK
  <2> QED
    BY <2>1, LenProperties DEF Writers, Squashed
<1>2. CASE /\ \A j \in Squashed(t, i) : rob[t][j].archreg # a
           /\ RestoredMap(t, i)[a] = rename_table[t][a]
  <2>1. SeenAt(t, a, Len(rob[t]) + 1, rename_table[t][a]) /\ rename_table[t][a] \in Phys
    BY <1>0 DEF MapHistory, TypeOK
  <2>2. WritersBefore(t, a, Len(rob[t]) + 1) = WritersBefore(t, a, i + 1)
    BY <1>1, <1>2 DEF WritersBefore
  <2> QED
    BY <1>2, <2>1, <2>2 DEF SeenAt
<1>3. CASE \E j \in Squashed(t, i) : /\ IsOldestWriter(t, i, j, a)
                                     /\ RestoredMap(t, i)[a] = rob[t][j].old_physreg
  <2>1. PICK j \in Squashed(t, i) : /\ IsOldestWriter(t, i, j, a)
                                    /\ RestoredMap(t, i)[a] = rob[t][j].old_physreg
    BY <1>3
  <2>2. j \in Writers(t) /\ rob[t][j].archreg = a
    BY <1>1, <2>1 DEF IsOldestWriter
  <2>3. SeenAt(t, a, j, rob[t][j].old_physreg) /\ rob[t][j].old_physreg \in Phys
    BY <1>0, <2>2 DEF MapHistory, EntriesOK
  <2>4. WritersBefore(t, a, j) = WritersBefore(t, a, i + 1)
    BY <1>1, <2>1 DEF WritersBefore, IsOldestWriter
  <2> QED
    BY <2>1, <2>3, <2>4 DEF SeenAt
<1> QED
  BY <1>0, <1>2, <1>3, RestoredFacts

(* The recovery step: the registers of the squashed writers become free,   *)
(* everything the surviving instructions and mappings need is kept.        *)
LEMMA WritebackRecoverStep ==
  ASSUME RegisterInv, NEW t \in Threads, NEW i, WritebackRecover(t, i)
  PROVE  RegisterInv'
<1> USE DEF RegisterInv
<1> DEFINE R    == SquashedRegs(t, i)
           f    == rob[t][i]
           M(a) == RestoredMap(t, i)[a]
<1>1. /\ i \in DOMAIN rob[t]
      /\ rob' = [rob EXCEPT ![t] = [SubSeq(@, 1, i) EXCEPT ![i].completed = TRUE]]
      /\ Rollback(t, i)
  BY DEF WritebackRecover
<1>2. /\ rob' \in [Threads -> Seq(Entries)]
      /\ \A u \in Threads : u # t => rob'[u] = rob[u]
      /\ i \in Nat /\ Len(rob[t]) \in Nat /\ 1 <= i /\ i <= Len(rob[t])
      /\ DOMAIN rob[t] = 1 .. Len(rob[t])
      /\ Len(rob'[t]) = i
      /\ DOMAIN rob'[t] = 1 .. i
      /\ \A j \in 1 .. i : rob'[t][j] = IF j = i
                                        THEN [rob[t][i] EXCEPT !.completed = TRUE]
                                        ELSE rob[t][j]
  BY <1>1, TruncateFacts
<1>3. f \in Entries
  <2>1. rob[t] \in Seq(Entries)
    BY DEF TypeOK
  <2> QED
    BY <2>1, <1>2
<1>4. ASSUME NEW u \in Threads
      PROVE  /\ Writers(u)' = {k \in Writers(u) : u = t => k <= i}
             /\ \A k \in Writers(u)' :
                  /\ k \in Writers(u)
                  /\ u = t => k <= i
                  /\ rob'[u][k].op = rob[u][k].op
                  /\ rob'[u][k].archreg = rob[u][k].archreg
                  /\ rob'[u][k].physreg = rob[u][k].physreg
                  /\ rob'[u][k].old_physreg = rob[u][k].old_physreg
                  /\ rob'[u][k].dest_format = rob[u][k].dest_format
                  /\ rob'[u][k].lsq_completed = rob[u][k].lsq_completed
                  /\ u = t /\ k = i => rob'[u][k].completed
                  /\ ~(u = t /\ k = i) => rob'[u][k] = rob[u][k]
  <2>1. CASE u = t
    <3>0. [f EXCEPT !.completed = TRUE].physreg = f.physreg
      BY <1>3 DEF Entries
    <3>1. \A k \in 1 .. i : HasDest(rob'[t][k]) <=> HasDest(rob[t][k])
      BY <1>2, <3>0 DEF HasDest
    <3>2. Writers(t)' = {k \in Writers(t) : k <= i}
      BY <1>2, <3>1 DEF Writers, HasDest
    <3>3. ASSUME NEW k \in Writers(t)'
          PROVE  k \in Writers(t) /\ k \in 1 .. i
      BY <1>2, <3>2 DEF Writers
    <3> QED
      BY <2>1, <3>2, <3>3, <1>2, <1>3 DEF Entries
  <2>2. CASE u # t
    BY <2>2, <1>2 DEF Writers
  <2> QED
    BY <2>1, <2>2
<1>5. /\ \A j \in Squashed(t, i) : j \in Writers(t) /\ j > i
      /\ \A j \in Writers(t) : j \in Nat /\ (j <= i \/ j \in Squashed(t, i))
  BY <1>2 DEF Squashed, Writers
<1>6. ASSUME NEW ty \in RegTypes, NEW p \in Phys
      PROVE  reg_file'[ty][p] = IF <<ty, p>> \in R THEN "REG_FREE"
                                ELSE IF WritesBack(f) /\ <<ty, p>> = Taken(t, i) THEN "REG_WB"
                                ELSE reg_file[ty][p]
  BY DEF WritebackRecover, Taken
<1>7. ASSUME NEW ty \in RegTypes, NEW p \in Phys, <<ty, p>> \in R
      PROVE  reg_file[ty][p] # "REG_ARCH" /\ reg_file[ty][p] # "REG_FREE"
  <2>1. PICK j \in Squashed(t, i) : <<ty, p>> = Taken(t, j)
    BY <1>7 DEF SquashedRegs, Taken
  <2> QED
    BY <2>1, <1>5, WriterFacts DEF StateOf
<1>8. WritesBack(f) => i \in Writers(t)
  BY <1>1 DEF WritesBack, Writers
<1>9. TypeOK'
  <2>1. ifq' \in [Threads -> Seq(Insts)] /\ spec_mode' \in [Threads -> BOOLEAN]
    <3>1. <<>> \in Seq(Insts)
      OBVIOUS
    <3> QED
      BY <1>1, <3>1 DEF Rollback, TypeOK
  <2>2. rename_table' \in [Threads -> [ArchRegs -> Phys]]
    <3>1. RestoredMap(t, i) \in [ArchRegs -> Phys]
      <4>1. \A a \in ArchRegs : RestoredMap(t, i)[a] \in Phys
        BY <1>1, RestoredSeen
      <4>2. RestoredMap(t, i) = [a \in ArchRegs |-> RestoredMap(t, i)[a]]
        BY DEF RestoredMap
      <4> QED
        BY <4>1, <4>2
    <3> QED
      BY <1>1, <3>1 DEF Rollback, TypeOK
  <2>3. reg_file' \in [RegTypes -> [Phys -> {"REG_FREE", "REG_ALLOC", "REG_WB", "REG_ARCH"}]]
    <3>1. ASSUME NEW ty \in RegTypes, NEW p \in Phys
          PROVE  reg_file[ty][p] \in {"REG_FREE", "REG_ALLOC", "REG_WB", "REG_ARCH"}
      BY DEF TypeOK
    <3> QED
      BY <3>1 DEF WritebackRecover
  <2>4. IsFiniteSet(R) /\ Cardinality(R) \in Nat
        /\ \A ty : Cardinality({r \in R : r[1] = ty}) \in Nat
    <3>1. R \subseteq InFlight(t)
      BY SetsFinite
    <3>2. \A ty : {r \in R : r[1] = ty} \subseteq InFlight(t)
      BY <3>1
    <3> QED
      BY <3>1, <3>2, SetsFinite
  <2>5. reg_counter' \in [Threads -> Nat]
    BY <1>1, <2>4 DEF Rollback, Decref, TypeOK
  <2>6. dcra_rf' \in [Threads -> [RegTypes -> Int]]
    <3> DEFINE g == [ty \in RegTypes |->
                       dcra_rf[t][ty] - Cardinality({r \in R : r[1] = ty})]
    <3>1. ASSUME NEW ty \in RegTypes
          PROVE  /\ dcra_rf[t][ty] \in Int
                 /\ Cardinality({r \in R : r[1] = ty}) \in Int
      <4>1. dcra_rf[t][ty] \in Int
        BY DEF TypeOK
      <4>2. Cardinality({r \in R : r[1] = ty}) \in Nat
        BY <2>4
      <4> HIDE DEF R
      <4> QED
        BY <4>1, <4>2
    <3>2. g \in [RegTypes -> Int]
      BY <3>1
    <3>3. dcra_rf' = [dcra_rf EXCEPT ![t] = g]
      BY <1>1 DEF Rollback
    <3> HIDE DEF g
    <3> QED
      BY <3>2, <3>3 DEF TypeOK
  <2> QED
    BY <1>2, <2>1, <2>2, <2>3, <2>5, <2>6 DEF TypeOK
<1>10. ASSUME NEW u \in Threads, NEW k \in Writers(u)'
       PROVE  /\ Taken(u, k)' = Taken(u, k) /\ Replaced(u, k)' = Replaced(u, k)
              /\ Taken(u, k) \notin R
              /\ Replaced(u, k) \notin R
  <2>1. /\ Taken(u, k)' = Taken(u, k) /\ Replaced(u, k)' = Replaced(u, k)
        /\ k \in Writers(u)
    BY <1>4 DEF Taken, Replaced
  <2>2. Taken(u, k) \notin R
    <3> SUFFICES ASSUME NEW j \in Squashed(t, i), Taken(u, k) = Taken(t, j)
                 PROVE  FALSE
      BY DEF SquashedRegs, Taken
    <3>1. u = t /\ k = j
      BY <2>1, <1>5 DEF TakenOnce
    <3> QED
      BY <3>1, <1>2, <1>4, <1>5
  <2>3. Replaced(u, k) \notin R
    <3>1. PICK a \in ArchRegs, p \in Phys, m \in Nat :
            a = rob[u][k].archreg /\ p = rob[u][k].old_physreg /\ m = k
      BY <2>1, WriterFacts
    <3>2. SeenAt(u, a, m, p)
      BY <2>1, <3>1 DEF MapHistory
    <3>3. u = t => m <= i + 1
      BY <1>2, <1>4, <3>1
    <3>4. <<TypeOf(a), p>> \notin R
      BY <1>1, <3>2, <3>3, SeenSurvives
    <3> QED
      BY <2>1, <3>1, <3>4, WriterFacts DEF Replaced
  <2> QED
    BY <2>1, <2>2, <2>3
<1>11. EntriesOK'
  <2> SUFFICES ASSUME NEW u \in Threads, NEW k \in Writers(u)'
               PROVE  /\ rob'[u][k].dest_format = TypeOf(rob'[u][k].archreg)
                      /\ rob'[u][k].old_physreg \in Phys
                      /\ StateOf(Taken(u, k))' =
                           IF Done(rob'[u][k]) THEN "REG_WB" ELSE "REG_ALLOC"
    BY DEF EntriesOK
  <2>1. /\ k \in Writers(u)
        /\ rob[u][k].dest_format \in RegTypes /\ rob[u][k].physreg \in Phys
        /\ rob[u][k].dest_format = TypeOf(rob[u][k].archreg)
        /\ rob[u][k].old_physreg \in Phys
    BY <1>4, WriterFacts
  <2>2. StateOf(Taken(u, k))' = IF WritesBack(f) /\ Taken(u, k) = Taken(t, i)
                                THEN "REG_WB" ELSE StateOf(Taken(u, k))
    <3>1. Taken(u, k) = <<rob[u][k].dest_format, rob[u][k].physreg>>
          /\ Taken(u, k)' = Taken(u, k) /\ Taken(u, k) \notin R
      BY <1>10 DEF Taken
    <3>2. reg_file'[rob[u][k].dest_format][rob[u][k].physreg] =
            IF WritesBack(f) /\ Taken(u, k) = Taken(t, i) THEN "REG_WB"
            ELSE reg_file[rob[u][k].dest_format][rob[u][k].physreg]
      BY <2>1, <3>1, <1>6
    <3> QED
      BY <3>1, <3>2 DEF StateOf
  <2>3. StateOf(Taken(u, k)) = IF Done(rob[u][k]) THEN "REG_WB" ELSE "REG_ALLOC"
    BY <2>1 DEF EntriesOK
  <2>4. CASE u = t /\ k = i
    <3>1. WritesBack(f) <=> ~IsMem(f.op)
      BY <2>1, <2>4 DEF WritesBack, Writers
    <3>2. Done(rob'[u][k]) <=> WritesBack(f) \/ Done(f)
      BY <1>4, <2>4, <3>1 DEF Done
    <3> QED
      BY <2>1, <2>2, <2>3, <2>4, <3>2, <1>4
  <2>5. CASE ~(u = t /\ k = i)
    <3>1. ~(WritesBack(f) /\ Taken(u, k) = Taken(t, i))
      BY <1>8, <2>1, <2>5 DEF TakenOnce
    <3> QED
      BY <2>1, <2>2, <2>3, <2>5, <3>1, <1>4
  <2> QED
    BY <2>4, <2>5
<1>12. TakenOnce'
  BY <1>4, <1>10 DEF TakenOnce
<1>13. ASSUME NEW u \in Threads, NEW a \in ArchRegs, NEW m \in Nat, NEW p \in Phys,
              u = t => m <= i + 1, SeenAt(u, a, m, p)
       PROVE  SeenAt(u, a, m, p)'
  <2>1. WritersBefore(u, a, m)' = WritersBefore(u, a, m)
    <3>1. \A k \in WritersBefore(u, a, m) : k \in Writers(u)'
      BY <1>2, <1>4, <1>5, <1>13 DEF WritersBefore
    <3> QED
      BY <3>1, <1>4 DEF WritersBefore
  <2>2. \A k \in WritersBefore(u, a, m)' : rob'[u][k].physreg = rob[u][k].physreg
    BY <1>4 DEF WritersBefore
  <2>3. reg_file[TypeOf(a)][p] = "REG_ARCH" => reg_file'[TypeOf(a)][p] = "REG_ARCH"
    <3>1. TypeOf(a) \in RegTypes
      BY DEF TypeOf, RegTypes
    <3>2. ASSUME reg_file[TypeOf(a)][p] = "REG_ARCH"
          PROVE  <<TypeOf(a), p>> \notin R /\ ~(WritesBack(f) /\ <<TypeOf(a), p>> = Taken(t, i))
      <4>1. <<TypeOf(a), p>> \notin R
        BY <3>1, <3>2, <1>7
      <4>2. WritesBack(f) => StateOf(Taken(t, i)) # "REG_ARCH"
        BY <1>8, WriterFacts
      <4> QED
        BY <3>2, <4>1, <4>2 DEF StateOf
    <3> QED
      BY <3>1, <3>2, <1>6
  <2> QED
    BY <1>13, <2>1, <2>2, <2>3 DEF SeenAt
<1>14. \A u \in Threads, a \in ArchRegs :
         rename_table'[u][a] = IF u = t THEN M(a) ELSE rename_table[u][a]
  BY <1>1 DEF Rollback, TypeOK
<1>15. MapHistory'
  <2>1. ASSUME NEW u \in Threads, NEW k \in Writers(u)'
        PROVE  SeenAt(u, rob[u][k].archreg, k, rob[u][k].old_physreg)'
    <3>1. PICK a \in ArchRegs, p \in Phys, m \in Nat :
            a = rob[u][k].archreg /\ p = rob[u][k].old_physreg /\ m = k
      BY <1>4, WriterFacts
    <3>2. SeenAt(u, a, m, p) /\ (u = t => m <= i + 1)
      BY <1>2, <1>4, <3>1 DEF MapHistory
    <3>3. SeenAt(u, a, m, p)'
      BY <3>2, <1>13
    <3>4. rob'[u][k].archreg = a /\ rob'[u][k].old_physreg = p
      BY <1>4, <3>1
    <3> QED
      BY <3>1, <3>3, <3>4 DEF SeenAt, WritersBefore
  <2>2. ASSUME NEW u \in Threads, NEW a \in ArchRegs
        PROVE  SeenAt(u, a, Len(rob[u]) + 1, rename_table[u][a])'
    <3>1. CASE u = t
      <4>0. M(a) \in Phys /\ SeenAt(t, a, i + 1, M(a))
        BY <1>1, RestoredSeen
      <4>1. PICK m \in Nat, p \in Phys : m = i + 1 /\ p = M(a)
        BY <4>0, <1>2
      <4>2. SeenAt(t, a, m, p)
        BY <4>0, <4>1
      <4>3. SeenAt(t, a, m, p)'
        BY <4>1, <4>2, <1>2, <1>13
      <4>4. Len(rob'[t]) + 1 = m /\ rename_table'[t][a] = p
        BY <4>1, <1>2, <1>14
      <4> QED
        BY <3>1, <4>3, <4>4 DEF SeenAt, WritersBefore
    <3>2. CASE u # t
      <4>1. rob[u] \in Seq(Entries) /\ rename_table[u][a] \in Phys
        BY DEF TypeOK
      <4>2. PICK m \in Nat, p \in Phys : m = Len(rob[u]) + 1 /\ p = rename_table[u][a]
        BY <4>1, LenProperties
      <4>3. SeenAt(u, a, m, p)
        BY <4>2 DEF MapHistory
      <4>4. SeenAt(u, a, m, p)'
        BY <3>2, <4>3, <1>13
      <4>5. rob'[u] = rob[u] /\ rename_table'[u][a] = p
        BY <3>2, <4>2, <1>2, <1>14
      <4> QED
        BY <4>2, <4>4, <4>5 DEF SeenAt, WritersBefore
    <3> QED
      BY <3>1, <3>2
  <2> QED
    BY <2>1, <2>2 DEF MapHistory
(* Where a mapping of t comes from after the rollback.                     *)
<1>16. ASSUME NEW a \in ArchRegs
       PROVE  \/ /\ \A j \in Squashed(t, i) : rob[t][j].archreg # a
                 /\ Mapped(t, a)' = Mapped(t, a)
              \/ \E j \in Squashed(t, i) :
                   /\ IsOldestWriter(t, i, j, a)
                   /\ Mapped(t, a)' = Replaced(t, j)
  <2>1. Mapped(t, a)' = <<TypeOf(a), M(a)>>
    BY <1>14 DEF Mapped
  <2>2. CASE /\ \A j \in Squashed(t, i) : rob[t][j].archreg # a
             /\ M(a) = rename_table[t][a]
    BY <2>1, <2>2 DEF Mapped
  <2>3. CASE \E j \in Squashed(t, i) : /\ IsOldestWriter(t, i, j, a)
                                       /\ M(a) = rob[t][j].old_physreg
    <3>1. PICK j \in Squashed(t, i) : /\ IsOldestWriter(t, i, j, a)
                                      /\ M(a) = rob[t][j].old_physreg
      BY <2>3
    <3>2. rob[t][j].dest_format = TypeOf(a)
      BY <3>1, <1>5, WriterFacts DEF IsOldestWriter
    <3>3. Mapped(t, a)' = Replaced(t, j)
      BY <2>1, <3>1, <3>2 DEF Replaced
    <3> QED
      BY <3>1, <3>3
  <2> QED
    BY <1>1, <2>2, <2>3, RestoredFacts
<1>17. ASSUME NEW u \in Threads, NEW a \in ArchRegs
       PROVE  /\ u # t => Mapped(u, a)' = Mapped(u, a)
              /\ Mapped(u, a)' \notin R
  <2>1. u # t => Mapped(u, a)' = Mapped(u, a)
    BY <1>14 DEF Mapped
  <2>2. CASE u = t
    <3>1. M(a) \in Phys /\ SeenAt(t, a, i + 1, M(a))
      BY <1>1, RestoredSeen
    <3>2. PICK m \in Nat, p \in Phys : m = i + 1 /\ p = M(a)
      BY <3>1, <1>2
    <3>3. SeenAt(u, a, m, p) /\ (u = t => m <= i + 1)
      BY <2>2, <3>1, <3>2, <1>2
    <3>4. <<TypeOf(a), p>> \notin R
      BY <3>3, <1>1, SeenSurvives
    <3> QED
      BY <2>2, <3>2, <3>4, <1>14 DEF Mapped
  <2>3. CASE u # t
    <3>1. rob[u] \in Seq(Entries)
      BY DEF TypeOK
    <3>2. PICK m \in Nat : m = Len(rob[u]) + 1
      BY <3>1, LenProperties
    <3>3. SeenAt(u, a, m, rename_table[u][a])
      BY <3>2 DEF MapHistory
    <3>4. <<TypeOf(a), rename_table[u][a]>> \notin R
      BY <2>3, <3>3, <1>1, SeenSurvives
    <3> QED
      BY <2>1, <2>3, <3>4 DEF Mapped
  <2> QED
    BY <2>1, <2>2, <2>3
<1>18. ASSUME NEW ty \in RegTypes, NEW p \in Phys, <<ty, p>> \notin R,
              reg_file[ty][p] # "REG_FREE"
       PROVE  reg_file'[ty][p] # "REG_FREE"
  BY <1>6, <1>18
<1>19. NoRegisterShared'
  <2>1. ASSUME NEW u \in Threads, NEW a \in ArchRegs
        PROVE  StateOf(Mapped(u, a))' # "REG_FREE"
    <3>1. TypeOf(a) \in RegTypes /\ rename_table'[u][a] \in Phys
      BY <1>9 DEF TypeOK, TypeOf, RegTypes
    <3>2. reg_file[TypeOf(a)][rename_table'[u][a]] # "REG_FREE"
      <4>1. CASE u # t \/ Mapped(u, a)' = Mapped(u, a)
        <5>1. Mapped(u, a)' = Mapped(u, a)
          BY <4>1, <1>17
        <5>2. rename_table'[u][a] = rename_table[u][a]
          BY <5>1 DEF Mapped
        <5> QED
          BY <5>2 DEF NoRegisterShared, StateOf, Mapped
      <4>2. CASE u = t /\ \E j \in Squashed(t, i) : Mapped(t, a)' = Replaced(t, j)
        <5>1. PICK j \in Squashed(t, i) : Mapped(t, a)' = Replaced(t, j)
          BY <4>2
        <5>2. /\ rob[t][j].dest_format = TypeOf(a)
              /\ rob[t][j].old_physreg = rename_table'[t][a]
          BY <5>1 DEF Mapped, Replaced
        <5>3. StateOf(Replaced(t, j)) # "REG_FREE"
          BY <1>5 DEF NoRegisterShared
        <5> QED
          BY <4>2, <5>2, <5>3 DEF StateOf, Replaced
      <4> QED
        BY <4>1, <4>2, <1>16
    <3>3. <<TypeOf(a), rename_table'[u][a]>> \notin R
      BY <1>17 DEF Mapped
    <3> QED
      BY <3>1, <3>2, <3>3, <1>18 DEF StateOf, Mapped
  <2>2. ASSUME NEW u \in Threads, NEW k \in Writers(u)'
        PROVE  StateOf(Replaced(u, k))' # "REG_FREE"
    <3>1. /\ k \in Writers(u)
          /\ rob[u][k].dest_format \in RegTypes /\ rob[u][k].old_physreg \in Phys
      BY <1>4, WriterFacts
    <3>2. reg_file[rob[u][k].dest_format][rob[u][k].old_physreg] # "REG_FREE"
      BY <3>1 DEF NoRegisterShared, StateOf, Replaced
    <3>3. <<rob[u][k].dest_format, rob[u][k].old_physreg>> \notin R
      BY <1>10 DEF Replaced
    <3>4. reg_file'[rob[u][k].dest_format][rob[u][k].old_physreg] # "REG_FREE"
      BY <3>1, <3>2, <3>3, <1>18
    <3> QED
      BY <3>4, <1>10 DEF StateOf, Replaced
  <2>3. ASSUME NEW u \in Threads, NEW v \in Threads, NEW a \in ArchRegs,
               NEW b \in ArchRegs, Mapped(u, a)' = Mapped(v, b)'
        PROVE  u = v /\ a = b
    (* Each new mapping is an old one or what a squashed writer replaced.  *)
    <3>1. \/ Mapped(u, a)' = Mapped(u, a)
          \/ u = t /\ \E j \in Squashed(t, i) : rob[t][j].archreg = a
                                                /\ Mapped(u, a)' = Replaced(t, j)
      BY <1>16, <1>17 DEF IsOldestWriter
    <3>2. \/ Mapped(v, b)' = Mapped(v, b)
          \/ v = t /\ \E j \in Squashed(t, i) : rob[t][j].archreg = b
                                                /\ Mapped(v, b)' = Replaced(t, j)
      <4>1. CASE v = t
        BY <4>1, <1>16 DEF IsOldestWriter
      <4>2. CASE v # t
        BY <4>2, <1>17
      <4> QED
        BY <4>1, <4>2
    <3>3. CASE Mapped(u, a)' = Mapped(u, a) /\ Mapped(v, b)' = Mapped(v, b)
      <4>1. Mapped(u, a) = Mapped(v, b)
        BY <2>3, <3>3
      <4> QED
        BY <4>1 DEF NoRegisterShared
    <3>4. ASSUME NEW j \in Squashed(t, i), NEW w \in Threads, NEW c \in ArchRegs
          PROVE  Mapped(w, c) # Replaced(t, j)
      BY <1>5 DEF NoRegisterShared
    <3>5. ASSUME NEW j \in Squashed(t, i), NEW k \in Squashed(t, i),
                 Replaced(t, j) = Replaced(t, k)
          PROVE  j = k
      BY <3>5, <1>5 DEF NoRegisterShared
    <3> QED
      BY <2>3, <3>1, <3>2, <3>3, <3>4, <3>5
  <2>4. ASSUME NEW u \in Threads, NEW v \in Threads, NEW a \in ArchRegs,
               NEW k \in Writers(v)'
        PROVE  Mapped(u, a)' # Replaced(v, k)'
    <3>1. \/ Mapped(u, a)' = Mapped(u, a)
          \/ \E j \in Squashed(t, i) : Mapped(u, a)' = Replaced(t, j)
      BY <1>16, <1>17
    <3>2. k \in Writers(v) /\ Replaced(v, k)' = Replaced(v, k)
      BY <1>4, <1>10
    <3>3. Mapped(u, a) # Replaced(v, k)
      BY <3>2 DEF NoRegisterShared
    <3>4. ASSUME NEW j \in Squashed(t, i), Replaced(t, j) = Replaced(v, k)
          PROVE  FALSE
      <4>1. v = t /\ k = j
        BY <3>2, <3>4, <1>5 DEF NoRegisterShared
      <4> QED
        BY <4>1, <1>2, <1>4, <1>5
    <3> QED
      BY <3>1, <3>2, <3>3, <3>4
  <2>5. ASSUME NEW u \in Threads, NEW v \in Threads, NEW k \in Writers(u)',
               NEW l \in Writers(v)', Replaced(u, k)' = Replaced(v, l)'
        PROVE  u = v /\ k = l
    BY <2>5, <1>4, <1>10 DEF NoRegisterShared
  <2> QED
    BY <2>1, <2>2, <2>3, <2>4, <2>5 DEF NoRegisterShared
<1>20. NoRegisterLeak'
  <2> SUFFICES ASSUME NEW ty \in RegTypes, NEW p \in Phys, reg_file'[ty][p] # "REG_FREE"
               PROVE  \E u \in Threads :
                        \/ \E a \in ArchRegs : Mapped(u, a)' = <<ty, p>>
                        \/ \E k \in Writers(u)' : Replaced(u, k)' = <<ty, p>>
    BY DEF NoRegisterLeak
  <2>1. <<ty, p>> \notin R
    BY <1>6
  <2>2. reg_file[ty][p] # "REG_FREE"
    <3>1. WritesBack(f) => StateOf(Taken(t, i)) # "REG_FREE"
      BY <1>8, WriterFacts
    <3> QED
      BY <2>1, <3>1, <1>6 DEF StateOf
  <2>3. PICK u \in Threads : \/ \E a \in ArchRegs : Mapped(u, a) = <<ty, p>>
                            \/ \E k \in Writers(u) : Replaced(u, k) = <<ty, p>>
    BY <2>2 DEF NoRegisterLeak
  (* A mapping that a squashed writer made is freed with that writer.      *)
  <2>4. ASSUME NEW a \in ArchRegs, NEW m \in Nat, NEW q, SeenAt(t, a, m, q),
               \E j \in Squashed(t, i) : rob[t][j].archreg = a /\ j < m
        PROVE  <<TypeOf(a), q>> \in R
    <3>1. PICK j \in Squashed(t, i) : rob[t][j].archreg = a /\ j < m
      BY <2>4
    <3>2. j \in WritersBefore(t, a, m)
      BY <3>1, <1>5 DEF WritersBefore
    <3>3. PICK k \in WritersBefore(t, a, m) : j <= k /\ rob[t][k].physreg = q
      BY <2>4, <3>2 DEF SeenAt
    <3>4. k \in Squashed(t, i) /\ rob[t][k].dest_format = TypeOf(a)
      <4>1. k \in Writers(t) /\ rob[t][k].archreg = a
        BY <3>3 DEF WritersBefore
      <4>2. j \in Nat /\ k \in Nat /\ j > i
        BY <4>1, <1>5, <3>1
      <4>3. k > i
        BY <4>2, <3>3, <1>2
      <4> QED
        BY <4>1, <4>2, <4>3, <1>2, <1>5, WriterFacts
    <3> QED
      BY <3>3, <3>4 DEF SquashedRegs
  <2>5. CASE \E a \in ArchRegs : Mapped(u, a) = <<ty, p>>
    <3>1. PICK a \in ArchRegs : Mapped(u, a) = <<ty, p>>
      BY <2>5
    <3>2. Mapped(u, a)' = Mapped(u, a)
      <4>1. CASE u # t
        BY <4>1, <1>17
      <4>2. CASE u = t
        <5>1. SeenAt(t, a, Len(rob[t]) + 1, rename_table[t][a])
              /\ Len(rob[t]) + 1 \in Nat
          BY <1>2 DEF MapHistory
        <5>2. <<TypeOf(a), rename_table[t][a]>> \notin R
          BY <2>1, <3>1, <4>2 DEF Mapped
        <5>3. \A j \in Squashed(t, i) : j < Len(rob[t]) + 1
          BY <1>2 DEF Squashed
        <5>4. \A j \in Squashed(t, i) : rob[t][j].archreg # a
          BY <2>4, <5>1, <5>2, <5>3
        <5> QED
          BY <4>2, <5>4, <1>16 DEF IsOldestWriter
      <4> QED
        BY <4>1, <4>2
    <3> QED
      BY <3>1, <3>2
  <2>6. CASE \E k \in Writers(u) : Replaced(u, k) = <<ty, p>>
    <3>1. PICK k \in Writers(u) : Replaced(u, k) = <<ty, p>>
      BY <2>6
    <3>2. CASE k \in Writers(u)'
      BY <3>1, <3>2, <1>10
    <3>3. CASE k \notin Writers(u)'
      <4>1. u = t /\ k \in Squashed(t, i) /\ k \in Nat
        <5>1. u = t /\ ~(k <= i)
          BY <3>3, <1>4
        <5> QED
          BY <5>1, <1>5
      <4>2. PICK a \in ArchRegs : a = rob[t][k].archreg
        BY <4>1, <3>1, WriterFacts
      <4>3. SeenAt(t, a, k, rob[t][k].old_physreg)
        BY <4>1, <4>2, <3>1 DEF MapHistory
      <4>4. <<TypeOf(a), rob[t][k].old_physreg>> = <<ty, p>>
        BY <3>1, <4>1, <4>2, WriterFacts DEF Replaced
      <4>5. \A j \in Squashed(t, i) : ~(rob[t][j].archreg = a /\ j < k)
        BY <2>1, <2>4, <4>1, <4>3, <4>4
      <4>6. Mapped(t, a)' = Replaced(t, k)
        <5>1. PICK j \in Squashed(t, i) : /\ IsOldestWriter(t, i, j, a)
                                         /\ Mapped(t, a)' = Replaced(t, j)
          BY <1>16, <4>1, <4>2
        <5>2. j <= k /\ ~(j < k) /\ j \in Nat
          BY <5>1, <4>1, <4>2, <4>5, <1>5 DEF IsOldestWriter
        <5> QED
          BY <5>1, <5>2, <4>1
      <4> QED
        BY <3>1, <4>1, <4>6
    <3> QED
      BY <3>2, <3>3
  <2> QED
    BY <2>3, <2>5, <2>6
<1>21. CountersExact'
  <2> SUFFICES ASSUME NEW u \in Threads
               PROVE  /\ reg_counter'[u] = Cardinality(InFlight(u)')
                      /\ \A ty \in RegTypes : dcra_rf'[u][ty] = Cardinality(InFlightOf(u, ty)')
    BY DEF CountersExact
  <2>1. /\ reg_counter[u] = Cardinality(InFlight(u))
        /\ \A ty \in RegTypes : dcra_rf[u][ty] = Cardinality(InFlightOf(u, ty))
    BY DEF CountersExact
  <2>2. CASE u # t
    <3>1. Writers(u)' = Writers(u)
      BY <2>2, <1>4
    <3>2. InFlight(u)' = InFlight(u)
      BY <3>1, <1>10 DEF InFlight
    <3>3. \A ty : InFlightOf(u, ty)' = InFlightOf(u, ty)
      BY <3>2 DEF InFlightOf
    <3>4. reg_counter'[u] = reg_counter[u] /\ dcra_rf'[u] = dcra_rf[u]
      BY <2>2, <1>1 DEF Rollback, TypeOK
    <3> QED
      BY <2>1, <3>2, <3>3, <3>4
  <2>3. CASE u = t
    <3>1. R \subseteq InFlight(t) /\ IsFiniteSet(InFlight(t))
      BY SetsFinite
    <3>2. InFlight(t)' = InFlight(t) \ R
      <4>1. \A k \in Writers(t)' : Taken(t, k)' \in InFlight(t) /\ Taken(t, k)' \notin R
        BY <1>4, <1>10 DEF InFlight
      <4>2. ASSUME NEW k \in Writers(t), Taken(t, k) \notin R
            PROVE  k \in Writers(t)' /\ Taken(t, k)' = Taken(t, k)
        <5>1. k \notin Squashed(t, i)
          BY <4>2 DEF SquashedRegs, Taken
        <5>2. k \in Writers(t)'
          BY <5>1, <1>4, <1>5
        <5> QED
          BY <5>2, <1>10
      <4> QED
        BY <4>1, <4>2 DEF InFlight
    (* Removing from a set of registers those that R holds of it.          *)
    <3>3. ASSUME NEW S, NEW T, S \subseteq InFlight(t), T \subseteq S
          PROVE  /\ Cardinality(S \ T) = Cardinality(S) - Cardinality(T)
                 /\ Cardinality(S) \in Nat /\ Cardinality(T) \in Nat
                 /\ Cardinality(S \ T) \in Nat
      <4>1. IsFiniteSet(S) /\ Cardinality(S) \in Nat /\ Cardinality(T) \in Nat
            /\ Cardinality(S \ T) \in Nat
        BY <3>3, SetsFinite
      <4>2. S \cap T = T
        BY <3>3
      <4>3. Cardinality(S \ T) = Cardinality(S) - Cardinality(S \cap T)
        BY <4>1, FS_Difference
      <4> QED
        BY <4>1, <4>2, <4>3
    <3>4. reg_counter'[t] = Cardinality(InFlight(t)')
      <4>1. reg_counter'[t] = Decref(reg_counter[t], Cardinality(R))
        BY <1>1 DEF Rollback, TypeOK
      <4>2. /\ Cardinality(InFlight(t) \ R) = Cardinality(InFlight(t)) - Cardinality(R)
            /\ Cardinality(InFlight(t)) \in Nat /\ Cardinality(R) \in Nat
            /\ Cardinality(InFlight(t) \ R) \in Nat
        BY <3>1, <3>3
      <4> QED
        BY <2>1, <2>3, <3>2, <4>1, <4>2 DEF Decref
    <3>5. ASSUME NEW ty \in RegTypes
          PROVE  dcra_rf'[t][ty] = Cardinality(InFlightOf(t, ty)')
      <4> DEFINE Rt == {r \in R : r[1] = ty}
      <4>1. InFlightOf(t, ty)' = InFlightOf(t, ty) \ Rt
        BY <3>2 DEF InFlightOf
      <4>2. InFlightOf(t, ty) \subseteq InFlight(t) /\ Rt \subseteq InFlightOf(t, ty)
        BY <3>1 DEF InFlightOf
      <4>3. Cardinality(InFlightOf(t, ty) \ Rt) = Cardinality(InFlightOf(t, ty)) - Cardinality(Rt)
        BY <4>2, <3>3
      <4>4. dcra_rf'[t][ty] = dcra_rf[t][ty] - Cardinality(Rt)
        BY <1>1 DEF Rollback, TypeOK
      <4> QED
        BY <2>1, <2>3, <4>1, <4>3, <4>4
    <3> QED
      BY <2>3, <3>4, <3>5
  <2> QED
    BY <2>2, <2>3
<1> QED
  BY <1>9, <1>11, <1>12, <1>15, <1>19, <1>20, <1>21

-----------------------------------------------------------------------------
(* Every step of the core, and a stutter, keeps the invariant.             *)
LEMMA NextStep ==
  ASSUME RegisterInv, [Next]_vars
  PROVE  RegisterInv'
<1>1. CASE UNCHANGED vars
  BY <1>1, FrameStep DEF vars, RegisterInv, TypeOK
<1>2. CASE Next
  <2>1. PICK t \in Threads :
          \/ Fetch(t)
          \/ RenameDest(t)
          \/ RenameNoDest(t)
          \/ RenameNop(t)
          \/ RenameAbort(t)
          \/ CommitDest(t)
          \/ CommitNoDest(t)
          \/ \E i \in 1 .. RobSize :
               \/ Writeback(t, i)
               \/ LsqWriteback(t, i)
               \/ WritebackRecover(t, i)
    BY <1>2 DEF Next
  <2>2. CASE Fetch(t)
    BY <2>2, FetchStep
  <2>3. CASE RenameDest(t)
    BY <2>3, RenameDestStep
  <2>4. CASE RenameNoDest(t)
    BY <2>4, RenameNoDestStep
  <2>5. CASE RenameNop(t)
    BY <2>5, RenameNopStep
  <2>6. CASE RenameAbort(t)
    BY <2>6, RenameAbortStep
  <2>7. CASE CommitDest(t) \/ CommitNoDest(t)
    BY <2>7, CommitStep DEF Commit
  <2>8. ASSUME NEW i \in 1 .. RobSize, Writeback(t, i)
        PROVE  RegisterInv'
    BY <2>8, WritebackStep DEF Writeback
  <2>9. ASSUME NEW i \in 1 .. RobSize, LsqWriteback(t, i)
        PROVE  RegisterInv'
    BY <2>9, LsqWritebackStep DEF LsqWriteback
  <2>10. ASSUME NEW i \in 1 .. RobSize, WritebackRecover(t, i)
         PROVE  RegisterInv'
    BY <2>10, WritebackRecoverStep
  <2> QED
    BY <2>1, <2>2, <2>3, <2>4, <2>5, <2>6, <2>7, <2>8, <2>9, <2>10
<1> QED
  BY <1>1, <1>2

(* The inductive invariant holds of every state the core reaches.          *)
THEOREM RegisterInvariant == Spec => []RegisterInv
<1>1. Init => RegisterInv
  BY InitInv
<1>2. RegisterInv /\ [Next]_vars => RegisterInv'
  BY NextStep
<1> QED
  BY <1>1, <1>2, PTL DEF Spec

(* Type correctness: rename, writeback, commit and rollback keep every     *)
(* table, queue and counter of the core in the shape it is declared with.  *)
THEOREM TypeCorrect == Spec => []TypeOK
<1>1. RegisterInv => TypeOK
  BY DEF RegisterInv
<1> QED
  BY <1>1, RegisterInvariant, PTL

(* No register is shared: whatever number of threads and registers there   *)
(* are, no physical register is needed twice and none that is needed is    *)
(* free, so find_free_physreg() never hands out a register in use.         *)
THEOREM RegistersNotShared == Spec => []NoRegisterShared
<1>1. RegisterInv => NoRegisterShared
  BY DEF RegisterInv
<1> QED
  BY <1>1, RegisterInvariant, PTL

(* No register is lost: commit() and rollbackTo() between them free every  *)
(* register that register_rename() took and that is not needed any more.   *)
THEOREM RegistersNotLeaked == Spec => []NoRegisterLeak
<1>1. RegisterInv => NoRegisterLeak
  BY DEF RegisterInv
<1> QED
  BY <1>1, RegisterInvariant, PTL

(* reg_counter and the DCRA counters are exact in every reachable state.   *)
THEOREM CountersAreExact == Spec => []CountersExact
<1>1. RegisterInv => CountersExact
  BY DEF RegisterInv
<1> QED
  BY <1>1, RegisterInvariant, PTL

(* The asserts of commit() and writeback() on register states never fail.  *)
THEOREM StateAssertions == Spec => []StateAssertionsHold
<1>1. RegisterInv => StateAssertionsHold
  <2> SUFFICES ASSUME RegisterInv, NEW t \in Threads, NEW i \in Writers(t)
               PROVE  /\ i = 1 => StateOf(Replaced(t, i)) = "REG_ARCH"
                      /\ StateOf(Taken(t, i)) = IF Done(rob[t][i])
                                                THEN "REG_WB" ELSE "REG_ALLOC"
    BY DEF StateAssertionsHold
  <2>1. i = 1 => StateOf(Replaced(t, i)) = "REG_ARCH"
    BY HeadReplacedArch DEF StateOf, Replaced
  <2>2. StateOf(Taken(t, i)) = IF Done(rob[t][i]) THEN "REG_WB" ELSE "REG_ALLOC"
    BY DEF RegisterInv, EntriesOK
  <2> QED
    BY <2>1, <2>2
<1> QED
  BY <1>1, RegisterInvariant, PTL

(* The rename map is the chain of the writers in the ROB: what rollbackTo()*)
(* relies on when it restores old_physreg entry by entry.                  *)
THEOREM MapIsChain == Spec => []RenameMapChain
<1>1. RegisterInv => RenameMapChain
  <2> SUFFICES ASSUME RegisterInv, NEW t \in Threads, NEW i \in Writers(t)
               PROVE  LET later == {j \in Writers(t) : j > i /\ rob[t][j].archreg = rob[t][i].archreg}
                      IN /\ later = {} => Mapped(t, rob[t][i].archreg) = Taken(t, i)
                         /\ \A j \in later :
                              (\A k \in later : j <= k) => Replaced(t, j) = Taken(t, i)
    BY DEF RenameMapChain
  <2> DEFINE a     == rob[t][i].archreg
             later == {j \in Writers(t) : j > i /\ rob[t][j].archreg = rob[t][i].archreg}
  <2>1. TypeOK /\ EntriesOK /\ MapHistory
    BY DEF RegisterInv
  <2>2. /\ a \in ArchRegs /\ Len(rob[t]) \in Nat
        /\ \A j \in Writers(t) : /\ j \in Nat /\ j < Len(rob[t]) + 1
                                 /\ rob[t][j].dest_format = TypeOf(rob[t][j].archreg)
    BY <2>1, WriterFacts
  <2>3. ASSUME NEW m \in Nat, NEW p, i < m, SeenAt(t, a, m, p),
               \A j \in later : ~(j < m)
        PROVE  <<TypeOf(a), p>> = Taken(t, i)
    <3>1. i \in WritersBefore(t, a, m)
      BY <2>3 DEF WritersBefore
    <3>2. PICK k \in WritersBefore(t, a, m) : i <= k /\ rob[t][k].physreg = p
      BY <2>3, <3>1 DEF SeenAt
    <3>3. k \in Writers(t) /\ k < m /\ rob[t][k].archreg = a
      BY <3>2 DEF WritersBefore
    <3>4. k = i
      BY <2>2, <2>3, <3>2, <3>3
    <3> QED
      BY <2>2, <3>2, <3>4 DEF Taken
  <2>4. ASSUME later = {}
        PROVE  Mapped(t, a) = Taken(t, i)
    <3>1. SeenAt(t, a, Len(rob[t]) + 1, rename_table[t][a])
      BY <2>1, <2>2 DEF MapHistory
    <3>2. Len(rob[t]) + 1 \in Nat /\ i < Len(rob[t]) + 1
      BY <2>2
    <3> QED
      BY <2>3, <2>4, <3>1, <3>2 DEF Mapped
  <2>5. ASSUME NEW j \in later, \A k \in later : j <= k
        PROVE  Replaced(t, j) = Taken(t, i)
    <3>1. j \in Writers(t) /\ j > i /\ rob[t][j].archreg = a
      OBVIOUS
    <3>2. SeenAt(t, a, j, rob[t][j].old_physreg)
      BY <2>1, <3>1 DEF MapHistory
    <3>3. j \in Nat /\ i \in Nat /\ i < j /\ \A k \in later : ~(k < j)
      BY <2>2, <2>5, <3>1
    <3>4. <<TypeOf(a), rob[t][j].old_physreg>> = Taken(t, i)
      BY <2>3, <3>2, <3>3
    <3> QED
      BY <2>2, <3>1, <3>4 DEF Replaced
  <2> QED
    BY <2>4, <2>5
<1> QED
  BY <1>1, RegisterInvariant, PTL

(* The cap: for every number of threads and registers and every            *)
(* RENAME_REG_LIMIT, no thread ever holds more than RENAME_REG_LIMIT       *)
(* registers for its instructions in flight.                               *)
THEOREM CapIsRespected == Spec => []CapRespected
<1>1. Init /\ RegisterInv => CapRespected
  <2> SUFFICES ASSUME Init, RegisterInv, NEW t \in Threads
               PROVE  Cardinality(InFlight(t)) <= Limit
    BY DEF CapRespected
  <2>1. reg_counter[t] = 0 /\ reg_counter[t] = Cardinality(InFlight(t))
    BY DEF Init, RegisterInv, CountersExact
  <2> QED
    BY <2>1, ConstantsAssumption
<1>2. CapRespected /\ RegisterInv /\ RegisterInv' /\ [Next]_vars => CapRespected'
  <2> SUFFICES ASSUME CapRespected, RegisterInv, RegisterInv', [Next]_vars,
                      NEW u \in Threads
               PROVE  Cardinality(InFlight(u)') <= Limit
    BY DEF CapRespected
  <2>1. /\ reg_counter[u] \in Nat /\ reg_counter[u] <= Limit
        /\ reg_counter'[u] = Cardinality(InFlight(u)')
        /\ reg_counter \in [Threads -> Nat] /\ Limit \in Nat
    BY ConstantsAssumption DEF RegisterInv, TypeOK, CountersExact, CapRespected
  <2>2. \A t \in Threads : \A i : Cardinality(SquashedRegs(t, i)) \in Nat
    BY SetsFinite DEF RegisterInv
  <2>3. \A n, k \in Nat : Decref(n, k) <= n
    BY DEF Decref
  <2>4. reg_counter'[u] <= Limit
    <3>1. CASE UNCHANGED vars
      BY <2>1, <3>1 DEF vars
    <3>2. ASSUME NEW t \in Threads, Fetch(t) \/ RenameNoDest(t) \/ RenameNop(t)
                                    \/ RenameAbort(t) \/ CommitNoDest(t)
          PROVE  reg_counter'[u] <= Limit
      BY <2>1, <3>2 DEF Fetch, RenameNoDest, RenameNop, RenameAbort, CommitNoDest
    <3>3. ASSUME NEW t \in Threads, RenameDest(t)
          PROVE  reg_counter'[u] <= Limit
      <4>1. /\ reg_counter[t] < Limit
            /\ reg_counter' = [reg_counter EXCEPT ![t] = @ + 1]
        BY <3>3 DEF RenameDest, OldMapping, RenameGuard, RegisterAvailable, TakesRegister
      <4> QED
        BY <2>1, <4>1
    <3>4. ASSUME NEW t \in Threads, CommitDest(t)
          PROVE  reg_counter'[u] <= Limit
      <4>1. reg_counter' = [reg_counter EXCEPT ![t] = Decref(@, 1)]
        BY <3>4 DEF CommitDest, Retired
      <4> QED
        BY <2>1, <2>3, <4>1 DEF Decref
    <3>5. ASSUME NEW t \in Threads, NEW i, Writeback(t, i) \/ LsqWriteback(t, i)
          PROVE  reg_counter'[u] <= Limit
      BY <2>1, <3>5 DEF Writeback, LsqWriteback
    <3>6. ASSUME NEW t \in Threads, NEW i, WritebackRecover(t, i)
          PROVE  reg_counter'[u] <= Limit
      <4>1. PICK k \in Nat : k = Cardinality(SquashedRegs(t, i))
        BY <2>2
      <4>2. reg_counter' = [reg_counter EXCEPT ![t] = Decref(@, k)]
        BY <3>6, <4>1 DEF WritebackRecover, Rollback
      <4> QED
        BY <2>1, <2>3, <4>1, <4>2 DEF Decref
    <3> QED
      BY <3>1, <3>2, <3>3, <3>4, <3>5, <3>6 DEF Next
  <2> QED
    BY <2>1, <2>4
<1>3. Spec => []RegisterInv
  BY RegisterInvariant
<1> QED
  BY <1>1, <1>2, <1>3, PTL DEF Spec

-----------------------------------------------------------------------------
(***************************************************************************)
(* Who is speculating, and what the cap buys.                              *)
(*                                                                         *)
(* Speculation is inductive ROB by ROB: an entry of a wrong path is        *)
(* younger than the one entry that is open, that is, mispredicted and not  *)
(* finished.  SpeculationStep has one step per action, each of which does  *)
(* one of five things to a ROB.                                            *)
(***************************************************************************)

Open(e) == e.recover_inst /\ ~e.completed

Owned(r, sm) ==
  /\ \A i, j \in DOMAIN r : Open(r[i]) /\ Open(r[j]) => i = j
  /\ sm <=> \E i \in DOMAIN r : Open(r[i])
  /\ \A j \in DOMAIN r : r[j].spec_mode <=> \E i \in DOMAIN r : Open(r[i]) /\ i < j
  /\ \A i \in DOMAIN r : IsTrap(r[i].op) => i = 1 /\ ~r[i].spec_mode

AllOwned == \A t \in Threads : Owned(rob[t], spec_mode[t])

(* An instruction enters: the first mispredicted one opens.                *)
LEMMA OwnedAppend ==
  ASSUME NEW n \in Nat, NEW r, NEW sm, Owned(r, sm), DOMAIN r = 1 .. n,
         NEW s, NEW e, NEW start \in BOOLEAN, DOMAIN s = 1 .. n + 1,
         \A i \in 1 .. n : s[i] = r[i], s[n + 1] = e,
         Open(e) <=> start, e.spec_mode = sm, start => ~sm,
         IsTrap(e.op) => n = 0
  PROVE  Owned(s, sm \/ start)
<1>1. \A i \in 1 .. n + 1 : i \in Nat /\ (i \in 1 .. n \/ i = n + 1)
  OBVIOUS
<1>2. /\ 1 .. n \subseteq 1 .. n + 1 /\ n + 1 \in 1 .. n + 1
      /\ \A i \in 1 .. n : i < n + 1 /\ ~(n + 1 < i)
  OBVIOUS
<1>3. \A i, j \in DOMAIN s : Open(s[i]) /\ Open(s[j]) => i = j
  <2> SUFFICES ASSUME NEW i \in DOMAIN s, NEW j \in DOMAIN s, Open(s[i]), Open(s[j])
               PROVE  i = j
    OBVIOUS
  <2>1. CASE i \in 1 .. n /\ j \in 1 .. n
    BY <2>1 DEF Owned
  <2>2. CASE i = n + 1 \/ j = n + 1
    <3>1. ~sm
      BY <2>2
    <3>2. \A k \in 1 .. n : ~Open(s[k])
      BY <3>1 DEF Owned
    <3> QED
      BY <1>1, <3>2
  <2> QED
    BY <1>1, <2>1, <2>2
<1>4. (sm \/ start) <=> \E i \in DOMAIN s : Open(s[i])
  <2>1. sm <=> \E i \in 1 .. n : Open(s[i])
    BY DEF Owned
  <2> QED
    BY <1>1, <1>2, <2>1
<1>5. ASSUME NEW j \in DOMAIN s
      PROVE  s[j].spec_mode <=> \E i \in DOMAIN s : Open(s[i]) /\ i < j
  <2>1. CASE j \in 1 .. n
    <3>1. r[j].spec_mode <=> \E i \in 1 .. n : Open(r[i]) /\ i < j
      BY <2>1 DEF Owned
    <3>2. \A i \in DOMAIN s : i < j => i \in 1 .. n
      BY <1>1, <1>2, <2>1
    <3> QED
      BY <1>2, <2>1, <3>1, <3>2
  <2>2. CASE j = n + 1
    <3>1. sm <=> \E i \in 1 .. n : Open(s[i])
      BY DEF Owned
    <3>2. ~(n + 1 < n + 1)
      OBVIOUS
    <3> QED
      BY <1>1, <1>2, <2>2, <3>1, <3>2
  <2> QED
    BY <1>1, <2>1, <2>2
<1>6. ASSUME NEW i \in DOMAIN s, IsTrap(s[i].op) PROVE i = 1 /\ ~s[i].spec_mode
  <2>1. CASE i \in 1 .. n
    BY <1>6, <2>1 DEF Owned
  <2>2. CASE i = n + 1
    <3>1. n = 0
      BY <1>6, <2>2
    <3>2. ~sm
      BY <3>1 DEF Owned
    <3> QED
      BY <2>2, <3>1, <3>2
  <2> QED
    BY <1>1, <2>1, <2>2
<1> QED
  BY <1>3, <1>4, <1>5, <1>6 DEF Owned

(* An entry changes that is not open, and does not open.                   *)
LEMMA OwnedReplace ==
  ASSUME NEW r, NEW sm, Owned(r, sm), NEW s, DOMAIN s = DOMAIN r,
         \A i \in DOMAIN r : /\ Open(s[i]) <=> Open(r[i])
                             /\ s[i].spec_mode = r[i].spec_mode /\ s[i].op = r[i].op
  PROVE  Owned(s, sm)
BY DEF Owned

(* The head leaves; it has finished.                                       *)
LEMMA OwnedPop ==
  ASSUME NEW n \in Nat, NEW r, NEW sm, Owned(r, sm), DOMAIN r = 1 .. n + 1,
         NEW s, DOMAIN s = 1 .. n, \A i \in 1 .. n : s[i] = r[i + 1], ~Open(r[1])
  PROVE  Owned(s, sm)
<1>1. \A i \in 1 .. n : i \in Nat /\ i + 1 \in 1 .. n + 1 /\ i + 1 # 1
  OBVIOUS
<1>2. \A i \in 1 .. n + 1 : i # 1 => \E k \in 1 .. n : i = k + 1
  <2> SUFFICES ASSUME NEW i \in 1 .. n + 1, i # 1 PROVE \E k \in 1 .. n : i = k + 1
    OBVIOUS
  <2>1. i - 1 \in 1 .. n /\ i = (i - 1) + 1
    OBVIOUS
  <2> QED
    BY <2>1
<1>3. ASSUME NEW i \in DOMAIN s, NEW j \in DOMAIN s, Open(s[i]), Open(s[j]) PROVE i = j
  <2>1. i + 1 = j + 1
    BY <1>1, <1>3 DEF Owned
  <2> QED
    BY <1>1, <2>1
<1>4. sm <=> \E i \in DOMAIN s : Open(s[i])
  <2>1. ASSUME sm PROVE \E i \in DOMAIN s : Open(s[i])
    <3>1. PICK i \in 1 .. n + 1 : Open(r[i])
      BY <2>1 DEF Owned
    <3>2. PICK k \in 1 .. n : i = k + 1
      BY <1>2, <3>1
    <3> QED
      BY <3>1, <3>2
  <2>2. (\E i \in DOMAIN s : Open(s[i])) => \E i \in DOMAIN r : Open(r[i])
    BY <1>1
  <2> QED
    BY <2>1, <2>2 DEF Owned
<1>5. ASSUME NEW j \in DOMAIN s
      PROVE  s[j].spec_mode <=> \E i \in DOMAIN s : Open(s[i]) /\ i < j
  <2>1. j + 1 \in DOMAIN r /\ s[j] = r[j + 1]
    BY <1>1
  <2>2. s[j].spec_mode <=> \E i \in DOMAIN r : Open(r[i]) /\ i < j + 1
    BY <2>1 DEF Owned
  <2>3. ASSUME NEW i \in DOMAIN r, Open(r[i]), i < j + 1
        PROVE  \E k \in DOMAIN s : Open(s[k]) /\ k < j
    <3>1. PICK k \in 1 .. n : i = k + 1
      BY <1>2, <2>3
    <3>2. k < j
      BY <1>1, <2>3, <3>1
    <3> QED
      BY <2>3, <3>1, <3>2
  <2>4. ASSUME NEW k \in DOMAIN s, Open(s[k]), k < j
        PROVE  \E i \in DOMAIN r : Open(r[i]) /\ i < j + 1
    <3>1. k + 1 \in DOMAIN r /\ Open(r[k + 1]) /\ k + 1 < j + 1
      BY <1>1, <2>4
    <3> QED
      BY <3>1
  <2> QED
    BY <2>2, <2>3, <2>4
<1>6. ASSUME NEW i \in DOMAIN s, IsTrap(s[i].op) PROVE i = 1 /\ ~s[i].spec_mode
  BY <1>1, <1>6 DEF Owned
<1> QED
  BY <1>3, <1>4, <1>5, <1>6 DEF Owned

(* The open entry k finishes, and all that is younger leaves.              *)
LEMMA OwnedTruncate ==
  ASSUME NEW r, NEW sm, Owned(r, sm), NEW n \in Nat, DOMAIN r = 1 .. n,
         NEW k \in 1 .. n, Open(r[k]),
         NEW s, DOMAIN s = 1 .. k, ~Open(s[k]),
         \A i \in 1 .. k : s[i].spec_mode = r[i].spec_mode /\ s[i].op = r[i].op,
         \A i \in 1 .. k : i # k => s[i] = r[i]
  PROVE  Owned(s, FALSE)
<1>1. \A i \in 1 .. k : i \in 1 .. n /\ ~(k < i)
  OBVIOUS
<1>2. \A i \in 1 .. k : ~Open(s[i])
  BY <1>1 DEF Owned
<1>3. \A i \in 1 .. k : ~s[i].spec_mode
  <2> SUFFICES ASSUME NEW i \in 1 .. k, s[i].spec_mode PROVE FALSE
    OBVIOUS
  <2>1. PICK j \in 1 .. n : Open(r[j]) /\ j < i
    BY <1>1 DEF Owned
  <2> QED
    BY <1>1, <2>1 DEF Owned
<1>4. \A i \in 1 .. k : IsTrap(s[i].op) => i = 1
  BY <1>1 DEF Owned
<1> QED
  BY <1>2, <1>3, <1>4 DEF Owned

-----------------------------------------------------------------------------
LEMMA SeqEntry ==
  ASSUME TypeOK, NEW t \in Threads, NEW i \in DOMAIN rob[t]
  PROVE  rob[t][i] \in Entries
BY LenProperties, ElementOfSeq DEF TypeOK

(* What a rename puts into the ROB.                                        *)
LEMMA EnterOwned ==
  ASSUME TypeOK, AllOwned, NEW t \in Threads, NEW inst, NEW p, NEW q, NEW ty,
         NewEntry(t, inst, p, q, ty) \in Entries, TrapMayRename(t, inst.op),
         EnterRob(t, inst, NewEntry(t, inst, p, q, ty))
  PROVE  AllOwned'
<1>1. PICK e \in Entries : e = NewEntry(t, inst, p, q, ty)
  OBVIOUS
<1>2. PICK start \in BOOLEAN : start <=> StartsRecovery(t, inst)
  OBVIOUS
<1>3. PICK n \in Nat : n = Len(rob[t])
  BY LenProperties DEF TypeOK
<1>4. /\ rob' = [rob EXCEPT ![t] = Append(@, e)]
      /\ spec_mode' = [spec_mode EXCEPT ![t] = @ \/ start]
  BY <1>1, <1>2 DEF EnterRob
<1>5. /\ DOMAIN rob[t] = 1 .. n /\ DOMAIN rob'[t] = 1 .. n + 1
      /\ \A i \in 1 .. n : rob'[t][i] = rob[t][i]
      /\ rob'[t][n + 1] = e
      /\ \A u \in Threads : u # t => rob'[u] = rob[u]
  BY <1>3, <1>4, AppendFacts
<1>6. /\ e.recover_inst = StartsRecovery(t, inst) /\ e.completed = FALSE
      /\ e.spec_mode = spec_mode[t] /\ e.op = inst.op
  BY <1>1 DEF NewEntry
<1>7. start => ~spec_mode[t]
  BY <1>2 DEF StartsRecovery
<1>8. IsTrap(e.op) => n = 0
  BY <1>3, <1>6 DEF TrapMayRename
<1>9. Owned(rob'[t], spec_mode[t] \/ start)
  <2>1. Open(e) <=> start
    BY <1>2, <1>6 DEF Open
  <2>2. Owned(rob[t], spec_mode[t])
    BY DEF AllOwned
  <2> QED
    BY <1>5, <1>6, <1>7, <1>8, <2>1, <2>2, OwnedAppend
<1>10. /\ spec_mode'[t] = (spec_mode[t] \/ start)
       /\ \A u \in Threads : u # t => spec_mode'[u] = spec_mode[u]
  BY <1>4 DEF TypeOK
<1> QED
  BY <1>5, <1>9, <1>10 DEF AllOwned

(* An entry finishes without being the mispredicted one.                   *)
LEMMA FinishOwned ==
  ASSUME TypeOK, AllOwned, NEW t \in Threads, NEW i \in DOMAIN rob[t], NEW e \in Entries,
         rob' = [rob EXCEPT ![t] = [@ EXCEPT ![i] = e]], spec_mode' = spec_mode,
         Open(e) <=> Open(rob[t][i]),
         e.spec_mode = rob[t][i].spec_mode, e.op = rob[t][i].op
  PROVE  AllOwned'
<1>1. \A u \in Threads : /\ DOMAIN rob'[u] = DOMAIN rob[u]
                         /\ \A j \in DOMAIN rob[u] :
                              rob'[u][j] = IF u = t /\ j = i THEN e ELSE rob[u][j]
  BY ReplaceFacts
<1>2. ASSUME NEW u \in Threads
      PROVE  Owned(rob'[u], spec_mode[u])
  <2>1. \A j \in DOMAIN rob[u] : /\ Open(rob'[u][j]) <=> Open(rob[u][j])
                                 /\ rob'[u][j].spec_mode = rob[u][j].spec_mode
                                 /\ rob'[u][j].op = rob[u][j].op
    BY <1>1
  <2> QED
    BY <1>1, <2>1, OwnedReplace DEF AllOwned
<1> QED
  BY <1>2 DEF AllOwned

LEMMA SpeculationStep ==
  ASSUME RegisterInv, AllOwned, [Next]_vars
  PROVE  AllOwned'
<1>0. TypeOK
  BY DEF RegisterInv
<1>1. CASE rob' = rob /\ spec_mode' = spec_mode
  BY <1>1 DEF AllOwned
<1>2. ASSUME NEW t \in Threads, RenameDest(t)
      PROVE  AllOwned'
  <2>1. PICK inst : inst = Head(ifq[t])
    OBVIOUS
  <2>2. RenameGuard(t, inst) /\ ifq[t] # <<>> /\ TakesRegister(inst)
    BY <1>2, <2>1 DEF RenameDest, OldMapping, RenameGuard, MayRename
  <2>3. inst \in Insts /\ DestOf(inst.op) \in RegTypes /\ inst.out1 \in ArchRegs
    BY <1>0, <2>1, <2>2, HeadIsInst, InstFacts DEF TakesRegister
  <2>4. PICK q : q = OldMapping(t, inst.out1)
    OBVIOUS
  <2>5. q \in Phys
    BY <1>0, <2>3, <2>4 DEF OldMapping, TypeOK
  <2>6. PICK p \in Phys : EnterRob(t, inst, NewEntry(t, inst, p, q, DestOf(inst.op)))
    BY <1>2, <2>1, <2>4 DEF RenameDest, Free
  <2>7. NewEntry(t, inst, p, q, DestOf(inst.op)) \in Entries
    BY <1>0, <2>3, <2>5, NewEntryType
  <2> QED
    BY <1>0, <2>2, <2>6, <2>7, EnterOwned DEF RenameGuard
<1>3. ASSUME NEW t \in Threads, RenameNoDest(t)
      PROVE  AllOwned'
  <2>1. PICK inst : inst = Head(ifq[t])
    OBVIOUS
  <2>2. /\ RenameGuard(t, inst) /\ ifq[t] # <<>>
        /\ EnterRob(t, inst, NewEntry(t, inst, NoReg, NoReg, NONE))
    BY <1>3, <2>1 DEF RenameNoDest, RenameGuard, MayRename
  <2>3. NewEntry(t, inst, NoReg, NoReg, NONE) \in Entries
    BY <1>0, <2>1, <2>2, HeadIsInst, NewEntryType
  <2> QED
    BY <1>0, <2>2, <2>3, EnterOwned DEF RenameGuard
<1>4. ASSUME NEW t \in Threads, CommitDest(t) \/ CommitNoDest(t)
      PROVE  AllOwned'
  <2>1. /\ rob[t] # <<>> /\ Head(rob[t]).completed
        /\ rob' = [rob EXCEPT ![t] = Tail(@)] /\ spec_mode' = spec_mode
    BY <1>4 DEF CommitDest, CommitNoDest, MayCommit
  <2>2. PICK m \in Nat : m + 1 = Len(rob[t])
    <3>1. Len(rob[t]) \in Nat /\ Len(rob[t]) >= 1
      BY <1>0, <2>1, PopFacts
    <3> QED
      BY <3>1, Len(rob[t]) - 1 \in Nat
  <2>3. /\ DOMAIN rob[t] = 1 .. m + 1 /\ DOMAIN rob'[t] = 1 .. m
        /\ \A i \in 1 .. m : rob'[t][i] = rob[t][i + 1]
        /\ ~Open(rob[t][1])
    <3>1. DOMAIN rob[t] = 1 .. m + 1 /\ Len(rob'[t]) = m + 1 - 1
      <4>1. DOMAIN rob[t] = 1 .. Len(rob[t]) /\ Len(rob'[t]) = Len(rob[t]) - 1
        BY <1>0, <2>1, PopFacts
      <4> QED
        BY <2>2, <4>1
    <3>2. DOMAIN rob'[t] = 1 .. m
      BY <1>0, <2>1, <3>1, PopFacts
    <3>3. \A i \in DOMAIN rob'[t] : rob'[t][i] = rob[t][i + 1]
      BY <1>0, <2>1, PopFacts, ZenonT(60)
    <3>4. Head(rob[t]) = rob[t][1]
      BY <1>0, <2>1, PopFacts
    <3> QED
      BY <2>1, <3>1, <3>2, <3>3, <3>4 DEF Open
  <2>4. Owned(rob'[t], spec_mode[t])
    BY <2>3, OwnedPop DEF AllOwned
  <2>5. \A u \in Threads : u # t => rob'[u] = rob[u]
    BY <1>0, <2>1 DEF TypeOK
  <2> QED
    BY <2>1, <2>4, <2>5 DEF AllOwned
<1>5. ASSUME NEW t \in Threads, NEW i, Writeback(t, i)
      PROVE  AllOwned'
  <2>1. PICK f, e : f = rob[t][i] /\ e = [f EXCEPT !.completed = TRUE]
    OBVIOUS
  <2>2. /\ i \in DOMAIN rob[t] /\ ~f.recover_inst /\ spec_mode' = spec_mode
        /\ rob' = [rob EXCEPT ![t][i].completed = TRUE]
    BY <1>5, <2>1 DEF Writeback
  <2>3. f \in Entries
    BY <1>0, <2>1, <2>2, SeqEntry
  <2>4. /\ e \in Entries /\ e.recover_inst = f.recover_inst
        /\ e.spec_mode = f.spec_mode /\ e.op = f.op
    BY <2>1, <2>3 DEF Entries
  <2>5. rob' = [rob EXCEPT ![t] = [@ EXCEPT ![i] = e]]
    BY <2>1, <2>2
  <2> QED
    <3>1. /\ Open(e) <=> Open(rob[t][i])
          /\ e.spec_mode = rob[t][i].spec_mode /\ e.op = rob[t][i].op
      BY <2>1, <2>2, <2>4 DEF Open
    <3> QED
      BY <1>0, <2>2, <2>4, <2>5, <3>1, FinishOwned
<1>6. ASSUME NEW t \in Threads, NEW i, LsqWriteback(t, i)
      PROVE  AllOwned'
  <2>1. PICK f, e : f = rob[t][i] /\ e = [f EXCEPT !.lsq_completed = TRUE]
    OBVIOUS
  <2>2. /\ i \in DOMAIN rob[t] /\ spec_mode' = spec_mode
        /\ rob' = [rob EXCEPT ![t][i].lsq_completed = TRUE]
    BY <1>6, <2>1 DEF LsqWriteback
  <2>3. f \in Entries
    BY <1>0, <2>1, <2>2, SeqEntry
  <2>4. /\ e \in Entries /\ e.recover_inst = f.recover_inst /\ e.completed = f.completed
        /\ e.spec_mode = f.spec_mode /\ e.op = f.op
    BY <2>1, <2>3 DEF Entries
  <2>5. rob' = [rob EXCEPT ![t] = [@ EXCEPT ![i] = e]]
    BY <2>1, <2>2
  <2> QED
    <3>1. /\ Open(e) <=> Open(rob[t][i])
          /\ e.spec_mode = rob[t][i].spec_mode /\ e.op = rob[t][i].op
      BY <2>1, <2>4 DEF Open
    <3> QED
      BY <1>0, <2>2, <2>4, <2>5, <3>1, FinishOwned
<1>7. ASSUME NEW t \in Threads, NEW i, WritebackRecover(t, i)
      PROVE  AllOwned'
  <2>1. /\ i \in DOMAIN rob[t] /\ ~rob[t][i].completed /\ rob[t][i].recover_inst
        /\ rob' = [rob EXCEPT ![t] = [SubSeq(@, 1, i) EXCEPT ![i].completed = TRUE]]
        /\ spec_mode' = [spec_mode EXCEPT ![t] = FALSE]
    BY <1>7 DEF WritebackRecover, Rollback
  <2>2. PICK f : f = rob[t][i]
    OBVIOUS
  <2>n. PICK n \in Nat : n = Len(rob[t])
    BY <1>0, LenProperties DEF TypeOK
  <2>3. /\ \A u \in Threads : u # t => rob'[u] = rob[u]
        /\ DOMAIN rob[t] = 1 .. n /\ i \in 1 .. n
        /\ DOMAIN rob'[t] = 1 .. i
        /\ \A j \in 1 .. i : rob'[t][j] = IF j = i THEN [f EXCEPT !.completed = TRUE]
                                          ELSE rob[t][j]
    <3>1. /\ \A u \in Threads : u # t => rob'[u] = rob[u]
          /\ DOMAIN rob[t] = 1 .. Len(rob[t])
          /\ DOMAIN rob'[t] = 1 .. i
      BY <1>0, <2>1, TruncateFacts
    <3>2. \A j \in 1 .. i : rob'[t][j] = IF j = i THEN [rob[t][i] EXCEPT !.completed = TRUE]
                                         ELSE rob[t][j]
      BY <1>0, <2>1, TruncateFacts
    <3> QED
      BY <2>1, <2>2, <2>n, <3>1, <3>2
  <2>4. f \in Entries
    BY <1>0, <2>1, <2>2, SeqEntry
  <2>5. i \in 1 .. i
    BY <2>3
  <2>6. PICK g : g = [f EXCEPT !.completed = TRUE]
    OBVIOUS
  <2>7. g.completed /\ g.spec_mode = f.spec_mode /\ g.op = f.op /\ rob'[t][i] = g
    BY <2>3, <2>4, <2>5, <2>6 DEF Entries
  <2>8. /\ Open(rob[t][i]) /\ ~Open(rob'[t][i])
        /\ \A j \in 1 .. i : rob'[t][j].spec_mode = rob[t][j].spec_mode
                             /\ rob'[t][j].op = rob[t][j].op
        /\ \A j \in 1 .. i : j # i => rob'[t][j] = rob[t][j]
    BY <2>1, <2>2, <2>3, <2>7 DEF Open
  <2>9. Owned(rob'[t], FALSE)
    BY <2>3, <2>8, OwnedTruncate DEF AllOwned
  <2>10. spec_mode'[t] = FALSE /\ \A u \in Threads : u # t => spec_mode'[u] = spec_mode[u]
    BY <1>0, <2>1 DEF TypeOK
  <2> QED
    BY <2>3, <2>9, <2>10 DEF AllOwned
<1>8. CASE \E t \in Threads : Fetch(t) \/ RenameNop(t) \/ RenameAbort(t)
  BY <1>1, <1>8 DEF Fetch, RenameNop, RenameAbort
<1>9. CASE UNCHANGED vars
  BY <1>1, <1>9 DEF vars
<1> QED
  BY <1>2, <1>3, <1>4, <1>5, <1>6, <1>7, <1>8, <1>9 DEF Next

LEMMA AllOwnedHolds == Spec => [](AllOwned /\ RegisterInv)
<1>1. Init => AllOwned
  <2> SUFFICES ASSUME Init, NEW t \in Threads PROVE Owned(rob[t], spec_mode[t])
    BY DEF AllOwned
  <2>1. rob[t] = <<>> /\ spec_mode[t] = FALSE /\ DOMAIN rob[t] = {}
    BY DEF Init
  <2> QED
    BY <2>1 DEF Owned
<1>2. AllOwned /\ RegisterInv /\ [Next]_vars => AllOwned'
  BY SpeculationStep
<1>3. Spec => []RegisterInv
  BY RegisterInvariant
<1> QED
  BY <1>1, <1>2, <1>3, PTL DEF Spec

(* Speculation has one owner: a thread is in spec mode exactly while one   *)
(* unfinished mispredicted instruction is in its ROB, what was renamed on  *)
(* the wrong path is exactly what is younger, and no system call is on it. *)
THEOREM OneOwner == Spec => []SpeculationInv
<1>1. AllOwned /\ RegisterInv => SpeculationInv
  <2> SUFFICES ASSUME AllOwned, RegisterInv PROVE SpeculationInv
    OBVIOUS
  <2>1. TrapAtHead
    BY DEF TrapAtHead, AllOwned, Owned
  <2>2. ASSUME NEW t \in Threads
        PROVE  LET recovering == {i \in DOMAIN rob[t] : rob[t][i].recover_inst
                                                        /\ ~rob[t][i].completed}
               IN /\ Cardinality(recovering) = IF spec_mode[t] THEN 1 ELSE 0
                  /\ \A j \in DOMAIN rob[t] :
                       rob[t][j].spec_mode <=> \E i \in recovering : i < j
    <3> DEFINE recovering == {i \in DOMAIN rob[t] : rob[t][i].recover_inst
                                                    /\ ~rob[t][i].completed}
    <3>1. Owned(rob[t], spec_mode[t])
      BY DEF AllOwned
    <3>2. recovering = {i \in DOMAIN rob[t] : Open(rob[t][i])}
      BY DEF Open
    <3>3. CASE spec_mode[t]
      <4>1. PICK i \in DOMAIN rob[t] : Open(rob[t][i])
        BY <3>1, <3>3 DEF Owned
      <4>2. recovering = {i}
        BY <3>1, <3>2, <4>1 DEF Owned
      <4>3. Cardinality(recovering) = 1
        BY <4>2, FS_Singleton
      <4> QED
        BY <3>1, <3>2, <3>3, <4>3 DEF Owned
    <3>4. CASE ~spec_mode[t]
      <4>1. recovering = {}
        BY <3>1, <3>2, <3>4 DEF Owned
      <4>2. Cardinality(recovering) = 0
        BY <4>1, FS_EmptySet
      <4> QED
        BY <3>1, <3>2, <3>4, <4>2 DEF Owned
    <3> QED
      BY <3>3, <3>4
  <2> QED
    BY <2>1, <2>2 DEF SpeculationInv, RecoveryOwner
<1> QED
  BY <1>1, AllOwnedHolds, PTL

-----------------------------------------------------------------------------
(***************************************************************************)
(* What the cap buys.  With a free list that is empty, every register of a *)
(* type is needed: mapped to an architectural register of some thread, or  *)
(* replaced by a writer in some ROB.  A thread needs at most NumArch of    *)
(* the first kind, and of the second at most as many as it has taken.      *)
(***************************************************************************)
(* The registers of type ty that thread t needs.                           *)
ArchPart(t, ty) == {p \in Phys : \E a \in ArchRegs : Mapped(t, a) = <<ty, p>>}
OldPart(t, ty)  == {p \in Phys : \E i \in Writers(t) : Replaced(t, i) = <<ty, p>>}
Needs(t, ty)    == ArchPart(t, ty) \cup OldPart(t, ty)

(* A set of at most as many elements as a set has an injection to.         *)
LEMMA NoMore ==
  ASSUME NEW S, NEW T, IsFiniteSet(T), NEW f \in [S -> T],
         \A x, y \in S : f[x] = f[y] => x = y
  PROVE  IsFiniteSet(S) /\ Cardinality(S) <= Cardinality(T)
<1>1. f \in Injection(S, T)
  BY DEF Injection, IsInjective
<1> QED
  BY <1>1, FS_Injection

(* An architectural name of a type has a number below NumArch.             *)
LEMMA NameNumbers ==
  ASSUME NEW ty \in RegTypes
  PROVE  LET A == {x \in ArchRegs : TypeOf(x) = ty}
         IN  IsFiniteSet(A) /\ Cardinality(A) <= NumArch
<1> DEFINE A == {x \in ArchRegs : TypeOf(x) = ty}
           T == 0 .. NumArch - 1
           f == [x \in A |-> IF ty = INT THEN x ELSE x - NumArch]
<1>1. NumArch \in Nat
  BY ConstantsAssumption
<1>2. IsFiniteSet(T) /\ Cardinality(T) = NumArch
  <2>1. 0 \in Int /\ NumArch - 1 \in Int
    BY <1>1
  <2>2. IsFiniteSet(T) /\ Cardinality(T) = IF 0 > NumArch - 1 THEN 0 ELSE (NumArch - 1) - 0 + 1
    BY <2>1, FS_Interval
  <2> QED
    BY <1>1, <2>2
<1>3. \A x \in A : x \in Int /\ x >= 0 /\ x <= 2 * NumArch - 1 /\ (x < NumArch <=> ty = INT)
  BY <1>1 DEF ArchRegs, TypeOf, INT, FP, RegTypes
<1>4. \A x \in A : (IF ty = INT THEN x ELSE x - NumArch) \in T
  BY <1>1, <1>3
<1>5. f \in [A -> T]
  BY <1>4
<1>6. \A x, y \in A : f[x] = f[y] => x = y
  BY <1>1, <1>3
<1> HIDE DEF A, T, f
<1>7. IsFiniteSet(A) /\ Cardinality(A) <= NumArch
  BY <1>2, <1>5, <1>6, NoMore
<1> QED
  BY <1>7 DEF A

(* The mapped registers are at most the architectural ones, the replaced   *)
(* ones at most the taken.                                                 *)
LEMMA NeedsBound ==
  ASSUME RegisterInv, NEW t \in Threads, NEW ty \in RegTypes
  PROVE  /\ IsFiniteSet(Needs(t, ty))
         /\ Cardinality(Needs(t, ty)) <= NumArch + Cardinality(InFlightOf(t, ty))
<1> DEFINE A == {x \in ArchRegs : TypeOf(x) = ty}
           O == OldPart(t, ty)
           F == InFlightOf(t, ty)
           name(p) == CHOOSE a \in ArchRegs : Mapped(t, a) = <<ty, p>>
           owner(p) == CHOOSE i \in Writers(t) : Replaced(t, i) = <<ty, p>>
           f == [p \in ArchPart(t, ty) |-> name(p)]
           g == [p \in O |-> Taken(t, owner(p))]
<1>0. TypeOK /\ EntriesOK /\ TakenOnce
  BY DEF RegisterInv
<1>1. IsFiniteSet(A) /\ Cardinality(A) <= NumArch
  BY NameNumbers
<1>2. IsFiniteSet(F) /\ Cardinality(F) \in Nat
  <2>1. F \subseteq InFlight(t)
    BY DEF InFlightOf
  <2> QED
    BY <1>0, <2>1, SetsFinite
<1>3. \A p \in ArchPart(t, ty) : name(p) \in ArchRegs /\ Mapped(t, name(p)) = <<ty, p>>
  BY DEF ArchPart
<1>4. \A p \in ArchPart(t, ty) : name(p) \in A
  BY <1>3 DEF Mapped
<1>5. f \in [ArchPart(t, ty) -> A] /\ \A p \in ArchPart(t, ty) : f[p] = name(p)
  BY <1>4
<1>6. \A p, q \in ArchPart(t, ty) : f[p] = f[q] => p = q
  <2> SUFFICES ASSUME NEW p \in ArchPart(t, ty), NEW q \in ArchPart(t, ty), name(p) = name(q)
               PROVE  p = q
    BY <1>5
  <2>1. <<ty, p>> = <<ty, q>>
    BY <1>3
  <2> QED
    BY <2>1
<1>7. IsFiniteSet(ArchPart(t, ty)) /\ Cardinality(ArchPart(t, ty)) <= Cardinality(A)
  <2> HIDE DEF A, f
  <2> QED
    BY <1>1, <1>5, <1>6, NoMore
<1>8. \A p \in O : owner(p) \in Writers(t) /\ Replaced(t, owner(p)) = <<ty, p>>
  BY DEF OldPart
<1>9. \A p \in O : Taken(t, owner(p)) \in F
  <2> SUFFICES ASSUME NEW p \in O
               PROVE  Taken(t, owner(p)) \in F
    OBVIOUS
  <2>1. PICK i \in Writers(t) : i = owner(p)
    BY <1>8
  <2>2. Replaced(t, i) = <<ty, p>>
    BY <1>8, <2>1
  <2>3. Taken(t, i) \in InFlight(t) /\ Taken(t, i)[1] = ty
    BY <2>2 DEF InFlight, Taken, Replaced
  <2> QED
    BY <2>1, <2>3 DEF InFlightOf
<1>10. g \in [O -> F] /\ \A p \in O : g[p] = Taken(t, owner(p))
  BY <1>9
<1>11. \A p, q \in O : g[p] = g[q] => p = q
  <2> SUFFICES ASSUME NEW p \in O, NEW q \in O, Taken(t, owner(p)) = Taken(t, owner(q))
               PROVE  p = q
    BY <1>10
  <2>1. owner(p) = owner(q)
    BY <1>0, <1>8 DEF TakenOnce
  <2>2. <<ty, p>> = <<ty, q>>
    BY <1>8, <2>1
  <2> QED
    BY <2>2
<1>12. IsFiniteSet(O) /\ Cardinality(O) <= Cardinality(F)
  <2> HIDE DEF O, F, g
  <2> QED
    BY <1>2, <1>10, <1>11, NoMore
<1>13. /\ IsFiniteSet(ArchPart(t, ty) \cup O)
       /\ Cardinality(ArchPart(t, ty) \cup O)
            = Cardinality(ArchPart(t, ty)) + Cardinality(O) - Cardinality(ArchPart(t, ty) \cap O)
  BY <1>7, <1>12, FS_Union
<1>14. /\ Cardinality(A) \in Nat /\ Cardinality(ArchPart(t, ty)) \in Nat
       /\ Cardinality(O) \in Nat /\ Cardinality(ArchPart(t, ty) \cap O) \in Nat
  <2>1. IsFiniteSet(ArchPart(t, ty) \cap O)
    BY <1>7, FS_Intersection
  <2> QED
    BY <1>1, <1>7, <1>12, <2>1, FS_CardinalityType
<1>15. Cardinality(ArchPart(t, ty) \cup O) <= NumArch + Cardinality(F)
  <2>1. PICK na \in Nat : na = NumArch
    BY ConstantsAssumption
  <2>2. PICK ca \in Nat : ca = Cardinality(A)
    BY <1>14
  <2>3. PICK cp \in Nat : cp = Cardinality(ArchPart(t, ty))
    BY <1>14
  <2>4. PICK co \in Nat : co = Cardinality(O)
    BY <1>14
  <2>5. PICK ci \in Nat : ci = Cardinality(ArchPart(t, ty) \cap O)
    BY <1>14
  <2>6. PICK cf \in Nat : cf = Cardinality(F)
    BY <1>2
  <2>7. ca <= na /\ cp <= ca /\ co <= cf
    BY <1>1, <1>7, <1>12, <2>1, <2>2, <2>3, <2>4, <2>6
  <2>8. Cardinality(ArchPart(t, ty) \cup O) = cp + co - ci
    BY <1>13, <2>3, <2>4, <2>5
  <2>9. cp + co - ci <= na + cf
    BY <2>7
  <2> QED
    BY <2>1, <2>6, <2>8, <2>9
<1> QED
  BY <1>13, <1>15 DEF Needs

(* A set with at most n elements can be numbered from 1 to n.              *)
LEMMA Numbered ==
  ASSUME NEW S, IsFiniteSet(S), NEW n \in Nat, Cardinality(S) <= n
  PROVE  \E h \in [S -> 1 .. n] : \A x, y \in S : h[x] = h[y] => x = y
<1>1. PICK k \in Nat : k = Cardinality(S)
  BY FS_CardinalityType
<1>2. ExistsBijection(1 .. k, S)
  BY <1>1, FS_CardinalityType
<1>3. PICK b \in Bijection(1 .. k, S) : TRUE
  BY <1>2 DEF ExistsBijection
<1>4. /\ b \in [1 .. k -> S]
      /\ \A x \in S : \E i \in 1 .. k : b[i] = x
  BY <1>3 DEF Bijection, Injection, Surjection
<1> DEFINE h == [x \in S |-> CHOOSE i \in 1 .. k : b[i] = x]
<1>5. \A x \in S : h[x] \in 1 .. k /\ b[h[x]] = x
  BY <1>4
<1>6. 1 .. k \subseteq 1 .. n
  BY <1>1
<1>7. h \in [S -> 1 .. n]
  BY <1>5, <1>6
<1>8. \A x, y \in S : h[x] = h[y] => x = y
  BY <1>5
<1> QED
  BY <1>7, <1>8

(* With every other thread at its cap, what is not t's fills at most       *)
(* NumArch + Limit registers for each of them.                             *)
LEMMA OthersBound ==
  ASSUME RegisterInv, CapRespected, NEW t \in Threads, NEW ty \in RegTypes,
         Free(ty) = {}
  PROVE  LET O == Phys \ Needs(t, ty)
             U == Threads \ {t}
         IN  /\ IsFiniteSet(O) /\ IsFiniteSet(U)
             /\ Cardinality(O) <= Cardinality(U) * (NumArch + Limit)
<1> DEFINE O == Phys \ Needs(t, ty)
           U == Threads \ {t}
           m == NumArch + Limit
           who(p) == CHOOSE u \in U : p \in Needs(u, ty)
           numbering(u) == CHOOSE h \in [Needs(u, ty) -> 1 .. m] :
                             \A x, y \in Needs(u, ty) : h[x] = h[y] => x = y
           f == [p \in O |-> <<who(p), numbering(who(p))[p]>>]
<1>0. NumArch \in Nat /\ Limit \in Nat /\ m \in Nat
  BY ConstantsAssumption
<1>1. \A p \in O : \E u \in U : p \in Needs(u, ty)
  <2> SUFFICES ASSUME NEW p \in O
               PROVE  \E u \in U : p \in Needs(u, ty)
    OBVIOUS
  <2>1. p \in Phys /\ reg_file[ty][p] # "REG_FREE"
    BY DEF Free
  <2>2. PICK u \in Threads : \/ \E a \in ArchRegs : Mapped(u, a) = <<ty, p>>
                             \/ \E i \in Writers(u) : Replaced(u, i) = <<ty, p>>
    BY <2>1 DEF RegisterInv, NoRegisterLeak
  <2>3. p \in Needs(u, ty)
    BY <2>1, <2>2 DEF Needs, ArchPart, OldPart
  <2> QED
    BY <2>3
<1>2. \A p \in O : who(p) \in U /\ p \in Needs(who(p), ty)
  BY <1>1
<1>3. \A u \in U : \E h \in [Needs(u, ty) -> 1 .. m] :
                     \A x, y \in Needs(u, ty) : h[x] = h[y] => x = y
  <2> SUFFICES ASSUME NEW u \in U
               PROVE  \E h \in [Needs(u, ty) -> 1 .. m] :
                        \A x, y \in Needs(u, ty) : h[x] = h[y] => x = y
    OBVIOUS
  <2>1. IsFiniteSet(Needs(u, ty))
        /\ Cardinality(Needs(u, ty)) <= NumArch + Cardinality(InFlightOf(u, ty))
    BY NeedsBound
  <2>2. InFlightOf(u, ty) \in SUBSET InFlight(u) /\ InFlight(u) \subseteq InFlight(u)
    BY DEF InFlightOf
  <2>3. IsFiniteSet(InFlight(u)) /\ Cardinality(InFlight(u)) \in Nat
        /\ Cardinality(InFlightOf(u, ty)) \in Nat
    BY <2>2, SetsFinite DEF RegisterInv
  <2>4. Cardinality(InFlightOf(u, ty)) <= Cardinality(InFlight(u))
    BY <2>2, <2>3, FS_Subset
  <2>5. Cardinality(InFlight(u)) <= Limit
    BY DEF CapRespected
  <2>6. PICK c \in Nat : c = Cardinality(InFlightOf(u, ty))
    BY <2>3
  <2>7. c <= Limit
    BY <1>0, <2>3, <2>4, <2>5, <2>6
  <2>8. PICK k \in Nat : k = Cardinality(Needs(u, ty))
    BY <2>1, FS_CardinalityType
  <2>9. k <= NumArch + c
    BY <2>1, <2>6, <2>8
  <2>10. k <= m
    BY <1>0, <2>7, <2>9
  <2> HIDE DEF m
  <2>11. Cardinality(Needs(u, ty)) <= m
    BY <2>8, <2>10
  <2> QED
    BY <1>0, <2>1, <2>11, Numbered
<1>4. \A u \in U : /\ numbering(u) \in [Needs(u, ty) -> 1 .. m]
                   /\ \A x, y \in Needs(u, ty) : numbering(u)[x] = numbering(u)[y] => x = y
  <2> HIDE DEF m
  <2> QED
    BY <1>3
<1>5. \A p \in O : <<who(p), numbering(who(p))[p]>> \in U \X (1 .. m)
  <2> SUFFICES ASSUME NEW p \in O
               PROVE  <<who(p), numbering(who(p))[p]>> \in U \X (1 .. m)
    OBVIOUS
  <2>1. PICK u \in U : u = who(p) /\ p \in Needs(u, ty)
    BY <1>2
  <2>2. numbering(u)[p] \in 1 .. m
    <3> HIDE DEF m, numbering
    <3> QED
      BY <1>4, <2>1
  <2> HIDE DEF who, numbering, m, U
  <2> QED
    BY <2>1, <2>2
<1>6. f \in [O -> U \X (1 .. m)] /\ \A p \in O : f[p] = <<who(p), numbering(who(p))[p]>>
  <2> HIDE DEF who, numbering, m, U
  <2> QED
    BY <1>5
<1>7. \A p, q \in O : f[p] = f[q] => p = q
  <2> HIDE DEF numbering, m, f
  <2> SUFFICES ASSUME NEW p \in O, NEW q \in O, f[p] = f[q]
               PROVE  p = q
    OBVIOUS
  <2>1. PICK u \in U : u = who(p) /\ p \in Needs(u, ty)
    BY <1>2
  <2>2. who(q) = u /\ numbering(u)[p] = numbering(u)[q]
    <3>1. f[p] = <<u, numbering(u)[p]>> /\ f[q] = <<who(q), numbering(who(q))[q]>>
      BY <1>6, <2>1
    <3>2. u = who(q) /\ numbering(u)[p] = numbering(who(q))[q]
      <4> HIDE DEF who, O, U
      <4>1. PICK v : v = who(q)
        OBVIOUS
      <4>2. PICK x, y : x = numbering(u)[p] /\ y = numbering(v)[q]
        OBVIOUS
      <4>3. <<u, x>> = <<v, y>>
        BY <3>1, <4>1, <4>2
      <4> QED
        BY <4>1, <4>2, <4>3
    <3> QED
      BY <3>2
  <2>3. q \in Needs(u, ty)
    BY <1>2, <2>2
  <2> QED
    BY <1>4, <2>1, <2>2, <2>3
<1>8. IsFiniteSet(U)
  <2>1. U \in SUBSET Threads /\ IsFiniteSet(Threads)
    BY ConstantsAssumption
  <2> QED
    BY <2>1, FS_Subset
<1>9. IsFiniteSet(1 .. m) /\ Cardinality(1 .. m) = m
  <2>1. 1 \in Int /\ m \in Int
    BY <1>0
  <2>2. IsFiniteSet(1 .. m) /\ Cardinality(1 .. m) = IF 1 > m THEN 0 ELSE m - 1 + 1
    BY <2>1, FS_Interval
  <2> HIDE DEF m
  <2> QED
    BY <1>0, <2>2
<1>10. IsFiniteSet(U \X (1 .. m)) /\ Cardinality(U \X (1 .. m)) = Cardinality(U) * m
  <2> HIDE DEF U, m
  <2>1. IsFiniteSet(U \X (1 .. m))
        /\ Cardinality(U \X (1 .. m)) = Cardinality(U) * Cardinality(1 .. m)
    BY <1>8, <1>9, FS_Product
  <2> QED
    BY <1>9, <2>1
<1>11. IsFiniteSet(O) /\ Cardinality(O) <= Cardinality(U \X (1 .. m))
  <2> HIDE DEF O, U, m, f
  <2> QED
    BY <1>6, <1>7, <1>10, NoMore
<1> QED
  BY <1>8, <1>10, <1>11

(* A thread whose rename finds no free register of a type already holds    *)
(* its share of them: however many threads the core has and whatever they  *)
(* rename, the cap leaves each of them NumPhys minus what the others can   *)
(* need at most.                                                           *)
THEOREM ShareIsKept == Spec => []FairShare
<1>1. RegisterInv /\ CapRespected => FairShare
  <2> SUFFICES ASSUME RegisterInv, CapRespected, NEW t \in Threads, NEW ty \in RegTypes,
                      Free(ty) = {}
               PROVE  Cardinality(InFlightOf(t, ty)) >= Share
    BY DEF FairShare
  <2> DEFINE O == Phys \ Needs(t, ty)
             U == Threads \ {t}
             N == Needs(t, ty)
  <2>1. IsFiniteSet(O) /\ IsFiniteSet(U) /\ Cardinality(O) <= Cardinality(U) * (NumArch + Limit)
    BY OthersBound
  <2>2. IsFiniteSet(N) /\ Cardinality(N) <= NumArch + Cardinality(InFlightOf(t, ty))
    BY NeedsBound
  <2>3. IsFiniteSet(Threads) /\ Cardinality(U) = Cardinality(Threads) - 1
    BY ConstantsAssumption, FS_RemoveElement
  <2>4. IsFiniteSet(Phys) /\ Cardinality(Phys) = NumPhys
    <3>1. NumPhys \in Nat /\ 0 \in Int /\ NumPhys - 1 \in Int
      BY ConstantsAssumption
    <3>2. IsFiniteSet(Phys)
          /\ Cardinality(Phys) = IF 0 > NumPhys - 1 THEN 0 ELSE NumPhys - 1 - 0 + 1
      BY <3>1, FS_Interval DEF Phys
    <3> QED
      BY <3>1, <3>2
  <2>5. Phys = N \cup O /\ N \cap O = {}
    BY DEF Needs, ArchPart, OldPart
  <2>6. Cardinality(Phys) = Cardinality(N) + Cardinality(O)
    <3>1. Cardinality(N \cup O) = Cardinality(N) + Cardinality(O) - Cardinality(N \cap O)
      BY <2>1, <2>2, FS_Union
    <3>2. Cardinality(N \cap O) = 0
      BY <2>5, FS_EmptySet
    <3>3. Cardinality(N) \in Nat /\ Cardinality(O) \in Nat
      BY <2>1, <2>2, FS_CardinalityType
    <3>4. PICK x \in Nat, y \in Nat : x = Cardinality(N) /\ y = Cardinality(O)
      BY <3>3
    <3>5. Cardinality(N \cup O) = x + y - 0
      BY <3>1, <3>2, <3>4
    <3>6. Cardinality(N \cup O) = x + y
      BY <3>5
    <3> HIDE DEF N, O
    <3> QED
      BY <2>5, <3>4, <3>6
  <2>7. Cardinality(InFlightOf(t, ty)) \in Nat
    <3>1. InFlightOf(t, ty) \subseteq InFlight(t)
      BY DEF InFlightOf
    <3> QED
      BY <3>1, SetsFinite DEF RegisterInv
  <2>8. PICK c \in Nat : c = Cardinality(InFlightOf(t, ty))
    BY <2>7
  <2>9. PICK n \in Nat : n = Cardinality(Threads)
    BY <2>3, FS_CardinalityType
  <2>10. PICK a \in Nat, l \in Nat, p \in Nat : a = NumArch /\ l = Limit /\ p = NumPhys
    BY ConstantsAssumption
  <2>11. PICK o \in Nat : o = Cardinality(O)
    BY <2>1, FS_CardinalityType
  <2>12. PICK k \in Nat : k = Cardinality(N)
    BY <2>2, FS_CardinalityType
  <2> HIDE DEF O, U, N
  <2>13. o <= (n - 1) * (a + l)
    BY <2>1, <2>3, <2>9, <2>10, <2>11
  <2>14. k <= a + c
    BY <2>2, <2>8, <2>10, <2>12
  <2>15. p = k + o
    BY <2>4, <2>6, <2>10, <2>11, <2>12
  <2>16. c >= p - n * a - (n - 1) * l
    <3>1. (n - 1) * (a + l) = n * a - a + (n - 1) * l
      OBVIOUS
    <3>2. PICK x \in Int, y \in Int : x = n * a /\ y = (n - 1) * l
      OBVIOUS
    <3>3. o <= x - a + y
      BY <2>13, <3>1, <3>2
    <3> QED
      BY <2>14, <2>15, <3>2, <3>3
  <2> QED
    BY <2>8, <2>9, <2>10, <2>16 DEF Share
<1> QED
  BY <1>1, RegisterInvariant, CapIsRespected, PTL

-----------------------------------------------------------------------------
(***************************************************************************)
(* The renamer implements ArchState, step by step: a rename is an Issue, a *)
(* commit a Retire, the recovery of a misprediction a Squash, and every    *)
(* other step a stutter.                                                   *)
(*                                                                         *)
(* The architectural register of a name is characterised first: it is what *)
(* the oldest writer of the name in the ROB has replaced, or the mapping   *)
(* of the name when the ROB has no writer of it.  Each step is then        *)
(* followed through this characterisation.                                 *)
(***************************************************************************)
(* Register p is what the ROB r and the rename table m have for the name a *)
(* at the ROB head.                                                        *)
Oldest(r, m, a, p) ==
  \/ /\ \A j \in DOMAIN r : HasDest(r[j]) => r[j].archreg # a
     /\ p = m[a]
  \/ \E j \in DOMAIN r :
       /\ HasDest(r[j]) /\ r[j].archreg = a
       /\ \A k \in DOMAIN r : HasDest(r[k]) /\ r[k].archreg = a => j <= k
       /\ p = r[j].old_physreg

(* There is only one such register.                                        *)
LEMMA OldestUnique ==
  ASSUME NEW r \in Seq(Entries), NEW m, NEW a, NEW p, NEW q,
         Oldest(r, m, a, p), Oldest(r, m, a, q)
  PROVE  p = q
<1>1. \A j \in DOMAIN r : j \in Int
  BY LenProperties
<1>2. ASSUME NEW j \in DOMAIN r, HasDest(r[j]), r[j].archreg = a
      PROVE  p = q
  <2>1. PICK i \in DOMAIN r :
               /\ HasDest(r[i]) /\ r[i].archreg = a
               /\ \A k \in DOMAIN r : HasDest(r[k]) /\ r[k].archreg = a => i <= k
               /\ p = r[i].old_physreg
    BY <1>2 DEF Oldest
  <2>2. PICK n \in DOMAIN r :
               /\ HasDest(r[n]) /\ r[n].archreg = a
               /\ \A k \in DOMAIN r : HasDest(r[k]) /\ r[k].archreg = a => n <= k
               /\ q = r[n].old_physreg
    BY <1>2 DEF Oldest
  <2>3. i <= n /\ n <= i
    BY <2>1, <2>2
  <2>4. i = n
    BY <1>1, <2>3
  <2> QED
    BY <2>1, <2>2, <2>4
<1>3. CASE \A j \in DOMAIN r : HasDest(r[j]) => r[j].archreg # a
  BY <1>3 DEF Oldest
<1> QED
  BY <1>2, <1>3

(* ArchOf is that register.                                                *)
LEMMA ArchIsOldest ==
  TypeOK => \A t \in Threads, a \in ArchRegs :
              Oldest(rob[t], rename_table[t], a, RestoredMap(t, 0)[a])
<1> SUFFICES ASSUME TypeOK, NEW t \in Threads, NEW a \in ArchRegs
             PROVE  Oldest(rob[t], rename_table[t], a, RestoredMap(t, 0)[a])
  OBVIOUS
<1>1. rob[t] \in Seq(Entries)
  BY DEF TypeOK
<1>2. \A j : j \in Squashed(t, 0) <=> j \in DOMAIN rob[t] /\ HasDest(rob[t][j])
  BY <1>1, LenProperties DEF Squashed
<1>3. CASE /\ \A j \in Squashed(t, 0) : rob[t][j].archreg # a
           /\ RestoredMap(t, 0)[a] = rename_table[t][a]
  BY <1>2, <1>3 DEF Oldest
<1>4. CASE \E j \in Squashed(t, 0) :
             /\ IsOldestWriter(t, 0, j, a)
             /\ RestoredMap(t, 0)[a] = rob[t][j].old_physreg
  BY <1>2, <1>4 DEF Oldest, IsOldestWriter
<1> QED
  BY <1>3, <1>4, RestoredFacts

(* The same, of the state after a step.                                    *)
LEMMA ArchIsOldestNext ==
  TypeOK' => \A t \in Threads, a \in ArchRegs :
               Oldest(rob'[t], rename_table'[t], a, RestoredMap(t, 0)'[a])
<1>1. (TypeOK => \A t \in Threads, a \in ArchRegs :
              Oldest(rob[t], rename_table[t], a, RestoredMap(t, 0)[a]))'
  BY ArchIsOldest, PTL
<1> QED
  BY <1>1

-----------------------------------------------------------------------------
(* The abstract log of a ROB, and the entries it can hold.                 *)
LogSeq(r) == [i \in DOMAIN r |-> Logged(r[i])]
Ops == [name : Names, reg : Registers \cup {Nothing}]

LEMMA LoggedType ==
  ASSUME NEW e \in Entries
  PROVE  /\ Logged(e) \in Ops
         /\ Logged(e).name = e.archreg
         /\ Logged(e).reg = IF HasDest(e) THEN Typed(e.archreg, e.physreg) ELSE Nothing
<1>1. e.archreg \in ArchRegs /\ e.physreg \in Phys \cup {NoReg}
  BY DEF Entries
<1>2. Typed(e.archreg, e.physreg) \in RegTypes \X (Phys \cup {NoReg})
  BY <1>1 DEF Typed, TypeOf, RegTypes
<1>3. HasDest(e) => Typed(e.archreg, e.physreg) \in Registers
  BY <1>1 DEF HasDest, Typed, TypeOf, RegTypes, Registers
<1> QED
  BY <1>1, <1>3 DEF Logged, Ops, Names

LEMMA LogType ==
  ASSUME NEW r \in Seq(Entries)
  PROVE  /\ LogSeq(r) \in Seq(Ops)
         /\ Len(r) \in Nat /\ DOMAIN r = 1 .. Len(r)
         /\ Len(LogSeq(r)) = Len(r) /\ DOMAIN LogSeq(r) = 1 .. Len(r)
         /\ \A i \in 1 .. Len(r) : r[i] \in Entries /\ LogSeq(r)[i] = Logged(r[i])
<1>1. PICK n \in Nat : n = Len(r) /\ DOMAIN r = 1 .. n
  BY LenProperties
<1>2. \A i \in 1 .. n : r[i] \in Entries
  BY <1>1, ElementOfSeq
<1>3. LogSeq(r) = [i \in 1 .. n |-> Logged(r[i])]
  BY <1>1 DEF LogSeq
<1>4. LogSeq(r) \in [1 .. n -> Ops]
  BY <1>2, <1>3, LoggedType
<1>5. LogSeq(r) \in Seq(Ops) /\ Len(LogSeq(r)) = n
  BY <1>4
<1> QED
  BY <1>1, <1>2, <1>3, <1>5

(* A ROB that has one more entry has one more entry in its log.            *)
LEMMA LogAppend ==
  ASSUME NEW r \in Seq(Entries), NEW e \in Entries
  PROVE  LogSeq(Append(r, e)) = Append(LogSeq(r), Logged(e))
<1>1. PICK n \in Nat : n = Len(r)
  BY LenProperties
<1>2. /\ Append(r, e) \in Seq(Entries) /\ Len(Append(r, e)) = n + 1
      /\ \A i \in 1 .. n : Append(r, e)[i] = r[i]
      /\ Append(r, e)[n + 1] = e
  BY <1>1, AppendProperties
<1>3. Logged(e) \in Ops
  BY LoggedType
<1>4. LogSeq(r) \in Seq(Ops) /\ Len(LogSeq(r)) = n
      /\ \A i \in 1 .. n : LogSeq(r)[i] = Logged(r[i])
  BY <1>1, LogType
<1>5. /\ Append(LogSeq(r), Logged(e)) \in Seq(Ops)
      /\ Len(Append(LogSeq(r), Logged(e))) = n + 1
      /\ \A i \in 1 .. n : Append(LogSeq(r), Logged(e))[i] = LogSeq(r)[i]
      /\ Append(LogSeq(r), Logged(e))[n + 1] = Logged(e)
  BY <1>3, <1>4, AppendProperties
<1>6. /\ LogSeq(Append(r, e)) \in Seq(Ops) /\ Len(LogSeq(Append(r, e))) = n + 1
      /\ \A i \in 1 .. n + 1 : LogSeq(Append(r, e))[i] = Logged(Append(r, e)[i])
  BY <1>2, LogType
<1>7. \A i \in 1 .. n + 1 : LogSeq(Append(r, e))[i] = Append(LogSeq(r), Logged(e))[i]
  <2>1. \A i \in 1 .. n + 1 : i \in 1 .. n \/ i = n + 1
    OBVIOUS
  <2> QED
    BY <1>2, <1>4, <1>5, <1>6, <2>1
<1> QED
  BY <1>5, <1>6, <1>7, SeqEqual

(* The log of what is behind the ROB head.                                 *)
LEMMA LogTail ==
  ASSUME NEW r \in Seq(Entries), r # <<>>
  PROVE  /\ LogSeq(r) # <<>> /\ Head(LogSeq(r)) = Logged(Head(r))
         /\ LogSeq(Tail(r)) = Tail(LogSeq(r))
<1>1. PICK n \in Nat : n = Len(r)
  BY LenProperties
<1>2. n >= 1 /\ Tail(r) \in Seq(Entries) /\ Len(Tail(r)) = n - 1
      /\ \A i \in 1 .. n - 1 : Tail(r)[i] = r[i + 1]
  BY <1>1, EmptySeq, HeadTailProperties
<1>3. LogSeq(r) \in Seq(Ops) /\ Len(LogSeq(r)) = n
      /\ \A i \in 1 .. n : LogSeq(r)[i] = Logged(r[i])
  BY <1>1, LogType
<1>4. LogSeq(r) # <<>>
  BY <1>2, <1>3, EmptySeq
<1>5. Tail(LogSeq(r)) \in Seq(Ops) /\ Len(Tail(LogSeq(r))) = n - 1
      /\ \A i \in 1 .. n - 1 : Tail(LogSeq(r))[i] = LogSeq(r)[i + 1]
  BY <1>3, <1>4, HeadTailProperties
<1>6. LogSeq(Tail(r)) \in Seq(Ops) /\ Len(LogSeq(Tail(r))) = n - 1
      /\ \A i \in 1 .. n - 1 : LogSeq(Tail(r))[i] = Logged(Tail(r)[i])
  BY <1>2, LogType
<1>7. \A i \in 1 .. n - 1 : LogSeq(Tail(r))[i] = Tail(LogSeq(r))[i]
  <2>1. \A i \in 1 .. n - 1 : i + 1 \in 1 .. n
    OBVIOUS
  <2> QED
    BY <1>2, <1>3, <1>5, <1>6, <2>1
<1>8. LogSeq(Tail(r)) = Tail(LogSeq(r))
  BY <1>5, <1>6, <1>7, SeqEqual
<1>9. Head(LogSeq(r)) = LogSeq(r)[1] /\ Head(r) = r[1]
  OBVIOUS
<1> QED
  BY <1>2, <1>3, <1>4, <1>8, <1>9

(* A ROB whose entries write what the first i of another do has the first  *)
(* i entries of the other's log.                                           *)
LEMMA LogCut ==
  ASSUME NEW r \in Seq(Entries), NEW s \in Seq(Entries), Len(s) <= Len(r),
         \A j \in 1 .. Len(s) : Logged(s[j]) = Logged(r[j])
  PROVE  LogSeq(s) = SubSeq(LogSeq(r), 1, Len(s))
<1>1. PICK n \in Nat, k \in Nat : n = Len(r) /\ k = Len(s) /\ k <= n
  BY LenProperties
<1>2. LogSeq(r) \in Seq(Ops) /\ \A i \in 1 .. n : LogSeq(r)[i] = Logged(r[i])
      /\ Len(LogSeq(r)) = n
  BY <1>1, LogType
<1>3. \A i \in 1 .. k : i \in 1 .. n /\ LogSeq(r)[i] \in Ops
  <2>1. \A i \in 1 .. k : i \in 1 .. n
    BY <1>1
  <2> QED
    BY <1>2, <2>1, ElementOfSeq
<1>4. SubSeq(LogSeq(r), 1, k) \in Seq(Ops)
  BY <1>3, SubSeqProperties
<1>5. Len(SubSeq(LogSeq(r), 1, k)) = IF 1 <= k THEN k - 1 + 1 ELSE 0
  BY <1>3, SubSeqProperties
<1>6. \A i \in 1 .. k - 1 + 1 : SubSeq(LogSeq(r), 1, k)[i] = LogSeq(r)[1 + i - 1]
  BY <1>3, SubSeqProperties
<1>7. /\ Len(SubSeq(LogSeq(r), 1, k)) = k
      /\ \A i \in 1 .. k : SubSeq(LogSeq(r), 1, k)[i] = LogSeq(r)[i]
  <2>1. (IF 1 <= k THEN k - 1 + 1 ELSE 0) = k /\ k - 1 + 1 = k
    OBVIOUS
  <2>2. \A i \in 1 .. k : 1 + i - 1 = i
    OBVIOUS
  <2> QED
    BY <1>5, <1>6, <2>1, <2>2
<1>8. LogSeq(s) \in Seq(Ops) /\ Len(LogSeq(s)) = k
      /\ \A i \in 1 .. k : LogSeq(s)[i] = Logged(s[i])
  BY <1>1, LogType
<1>9. \A i \in 1 .. k : LogSeq(s)[i] = SubSeq(LogSeq(r), 1, k)[i]
  BY <1>1, <1>2, <1>3, <1>7, <1>8
<1> QED
  BY <1>1, <1>4, <1>7, <1>8, <1>9, SeqEqual

-----------------------------------------------------------------------------
(* Steps of ArchState, told thread by thread.                              *)
SameLog(u)  == LogOf(u)' = LogOf(u)
SameArch(u) == ArchOf(u)' = ArchOf(u)

LEMMA InUseFacts ==
  ASSUME NEW x \in Arch!InUse
  PROVE  \/ \E u \in Threads, a \in ArchRegs : x = ArchOf(u)[a]
         \/ \E u \in Threads : \E i \in DOMAIN LogOf(u) : x = LogOf(u)[i].reg
<1> DEFINE A == [t \in Threads |-> ArchOf(t)]
           L == [t \in Threads |-> LogOf(t)]
           U == {{A[t][n] : n \in ArchRegs} : t \in Threads}
           V == {{L[t][i].reg : i \in DOMAIN L[t]} : t \in Threads}
<1>1. x \in (UNION U) \cup (UNION V)
  BY DEF Arch!InUse, Names
<1>2. CASE x \in UNION U
  <2>1. PICK S \in U : x \in S
    BY <1>2
  <2>2. PICK u \in Threads : S = {A[u][n] : n \in ArchRegs}
    BY <2>1
  <2>3. A[u] = ArchOf(u)
    OBVIOUS
  <2> HIDE DEF A
  <2> QED
    BY <2>1, <2>2, <2>3
<1>3. CASE x \in UNION V
  <2>1. PICK S \in V : x \in S
    BY <1>3
  <2>2. PICK u \in Threads : S = {L[u][i].reg : i \in DOMAIN L[u]}
    BY <2>1
  <2>3. L[u] = LogOf(u)
    OBVIOUS
  <2> HIDE DEF L
  <2> QED
    BY <2>1, <2>2, <2>3
<1> QED
  BY <1>1, <1>2, <1>3

LEMMA AbstractStutter ==
  ASSUME \A u \in Threads : SameLog(u) /\ SameArch(u)
  PROVE  UNCHANGED <<[t \in Threads |-> ArchOf(t)], [t \in Threads |-> LogOf(t)]>>
BY DEF SameLog, SameArch

LEMMA AbstractIssue ==
  ASSUME NEW t \in Threads, NEW n \in Names,
         NEW r \in (Registers \ Arch!InUse) \cup {Nothing},
         LogOf(t)' = Append(LogOf(t), [name |-> n, reg |-> r]),
         \A u \in Threads : SameArch(u) /\ (u # t => SameLog(u))
  PROVE  Arch!Next
<1> DEFINE L == [u \in Threads |-> LogOf(u)]
<1>1. L' = [L EXCEPT ![t] = Append(@, [name |-> n, reg |-> r])]
  BY DEF SameLog
<1>2. UNCHANGED [u \in Threads |-> ArchOf(u)]
  BY DEF SameArch
<1>3. Arch!Issue(t)
  BY <1>1, <1>2 DEF Arch!Issue
<1> QED
  BY <1>3 DEF Arch!Next

LEMMA AbstractSquash ==
  ASSUME NEW t \in Threads, NEW n \in 0 .. Len(LogOf(t)),
         LogOf(t)' = SubSeq(LogOf(t), 1, n),
         \A u \in Threads : SameArch(u) /\ (u # t => SameLog(u))
  PROVE  Arch!Next
<1> DEFINE L == [u \in Threads |-> LogOf(u)]
<1>1. L' = [L EXCEPT ![t] = SubSeq(@, 1, n)] /\ L[t] = LogOf(t)
  BY DEF SameLog
<1>2. UNCHANGED [u \in Threads |-> ArchOf(u)]
  BY DEF SameArch
<1>3. Arch!Squash(t)
  BY <1>1, <1>2 DEF Arch!Squash
<1> QED
  BY <1>3 DEF Arch!Next

LEMMA AbstractRetire ==
  ASSUME NEW t \in Threads, LogOf(t) # <<>>, LogOf(t)' = Tail(LogOf(t)),
         ArchOf(t)' = IF Head(LogOf(t)).reg = Nothing THEN ArchOf(t)
                      ELSE [ArchOf(t) EXCEPT ![Head(LogOf(t)).name] = Head(LogOf(t)).reg],
         \A u \in Threads : u # t => SameLog(u) /\ SameArch(u)
  PROVE  Arch!Next
<1> DEFINE L == [u \in Threads |-> LogOf(u)]
           A == [u \in Threads |-> ArchOf(u)]
           h == Head(LogOf(t))
<1>1. L' = [L EXCEPT ![t] = Tail(@)] /\ L[t] = LogOf(t) /\ A[t] = ArchOf(t)
  BY DEF SameLog
<1>2. A' = IF h.reg = Nothing THEN A ELSE [A EXCEPT ![t][h.name] = h.reg]
  <2>1. CASE h.reg = Nothing
    BY <2>1 DEF SameArch
  <2>2. CASE h.reg # Nothing
    BY <2>2 DEF SameArch
  <2> QED
    BY <2>1, <2>2
<1>3. Arch!Retire(t)
  BY <1>1, <1>2 DEF Arch!Retire
<1> QED
  BY <1>3 DEF Arch!Next

(* When the oldest writers say what they said, arch does not move.         *)
LEMMA ArchStays ==
  ASSUME TypeOK, TypeOK', NEW u \in Threads,
         \A a \in ArchRegs : \A p : Oldest(rob[u], rename_table[u], a, p)
                                   => Oldest(rob'[u], rename_table'[u], a, p)
  PROVE  SameArch(u)
<1>1. rob'[u] \in Seq(Entries)
  BY DEF TypeOK
<1>2. \A a \in ArchRegs : RestoredMap(u, 0)'[a] = RestoredMap(u, 0)[a]
  <2> SUFFICES ASSUME NEW a \in ArchRegs
               PROVE  RestoredMap(u, 0)'[a] = RestoredMap(u, 0)[a]
    OBVIOUS
  <2>1. Oldest(rob'[u], rename_table'[u], a, RestoredMap(u, 0)[a])
    BY ArchIsOldest
  <2>2. Oldest(rob'[u], rename_table'[u], a, RestoredMap(u, 0)'[a])
    BY ArchIsOldestNext
  <2> QED
    BY <1>1, <2>1, <2>2, OldestUnique
<1>3. [a \in ArchRegs |-> Typed(a, RestoredMap(u, 0)'[a])]
        = [a \in ArchRegs |-> Typed(a, RestoredMap(u, 0)[a])]
  BY <1>2
<1> QED
  BY <1>3 DEF SameArch, ArchOf, Typed, TypeOf

(* A thread whose ROB and rename table stay is not seen to move.           *)
LEMMA ThreadStays ==
  ASSUME TypeOK, TypeOK', NEW u \in Threads, rob'[u] = rob[u],
         rename_table'[u] = rename_table[u]
  PROVE  SameLog(u) /\ SameArch(u)
<1>1. SameLog(u)
  BY DEF SameLog, LogOf
<1>2. SameArch(u)
  BY ArchStays
<1> QED
  BY <1>1, <1>2

(* Nor is one whose entries write what they wrote.                         *)
LEMMA EntriesStay ==
  ASSUME TypeOK, TypeOK', NEW u \in Threads, DOMAIN rob'[u] = DOMAIN rob[u],
         rename_table'[u] = rename_table[u],
         \A j \in DOMAIN rob[u] : /\ rob'[u][j].archreg = rob[u][j].archreg
                                  /\ rob'[u][j].physreg = rob[u][j].physreg
                                  /\ rob'[u][j].old_physreg = rob[u][j].old_physreg
  PROVE  SameLog(u) /\ SameArch(u)
<1>1. \A j \in DOMAIN rob[u] : /\ HasDest(rob'[u][j]) <=> HasDest(rob[u][j])
                               /\ Logged(rob'[u][j]) = Logged(rob[u][j])
  BY DEF HasDest, Logged, Typed
<1>2. SameLog(u)
  BY <1>1 DEF SameLog, LogOf
<1>3. ASSUME NEW a \in ArchRegs, NEW p, Oldest(rob[u], rename_table[u], a, p)
      PROVE  Oldest(rob'[u], rename_table'[u], a, p)
  <2>1. CASE /\ \A j \in DOMAIN rob[u] : HasDest(rob[u][j]) => rob[u][j].archreg # a
             /\ p = rename_table[u][a]
    BY <1>1, <2>1 DEF Oldest
  <2>2. CASE \E j \in DOMAIN rob[u] :
               /\ HasDest(rob[u][j]) /\ rob[u][j].archreg = a
               /\ \A k \in DOMAIN rob[u] :
                    HasDest(rob[u][k]) /\ rob[u][k].archreg = a => j <= k
               /\ p = rob[u][j].old_physreg
    <3>1. PICK j \in DOMAIN rob[u] :
               /\ HasDest(rob[u][j]) /\ rob[u][j].archreg = a
               /\ \A k \in DOMAIN rob[u] :
                    HasDest(rob[u][k]) /\ rob[u][k].archreg = a => j <= k
               /\ p = rob[u][j].old_physreg
      BY <2>2
    <3>2. /\ j \in DOMAIN rob'[u] /\ HasDest(rob'[u][j]) /\ rob'[u][j].archreg = a
          /\ p = rob'[u][j].old_physreg
      BY <1>1, <3>1
    <3>3. ASSUME NEW k \in DOMAIN rob'[u], HasDest(rob'[u][k]), rob'[u][k].archreg = a
          PROVE  j <= k
      BY <1>1, <3>1, <3>3
    <3> QED
      BY <3>2, <3>3 DEF Oldest
  <2> QED
    BY <1>3, <2>1, <2>2 DEF Oldest
<1>4. SameArch(u)
  BY <1>3, ArchStays
<1> QED
  BY <1>2, <1>4

(* An instruction that enters the ROB is issued with the register it took, *)
(* which must be free, and the mapping it replaced is the youngest.        *)
LEMMA EnterIssues ==
  ASSUME RegisterInv, TypeOK', NEW t \in Threads, NEW e \in Entries,
         rob' = [rob EXCEPT ![t] = Append(@, e)],
         IF HasDest(e)
         THEN /\ e.physreg \in Free(TypeOf(e.archreg))
              /\ e.old_physreg = rename_table[t][e.archreg]
              /\ rename_table' = [rename_table EXCEPT ![t][e.archreg] = e.physreg]
         ELSE rename_table' = rename_table
  PROVE  Arch!Next
<1> DEFINE n == Len(rob[t])
<1>0. TypeOK /\ EntriesOK /\ NoRegisterShared
  BY DEF RegisterInv
<1>1. /\ \A u \in Threads : u # t => rob'[u] = rob[u]
      /\ n \in Nat /\ DOMAIN rob[t] = 1 .. n /\ DOMAIN rob'[t] = 1 .. n + 1
      /\ rob[t] \in Seq(Entries) /\ rob'[t] = Append(rob[t], e)
      /\ rob'[t][n + 1] = e
      /\ \A i \in 1 .. n : rob'[t][i] = rob[t][i]
  <2>1. rob[t] \in Seq(Entries)
    BY <1>0 DEF TypeOK
  <2>2. rob'[t] = Append(rob[t], e) /\ \A u \in Threads : u # t => rob'[u] = rob[u]
    BY <1>0 DEF TypeOK
  <2>3. n \in Nat /\ DOMAIN rob[t] = 1 .. n
    BY <1>0, AppendFacts
  <2>4. DOMAIN rob'[t] = 1 .. n + 1
    BY <1>0, AppendFacts
  <2>5. /\ Append(rob[t], e)[n + 1] = e
        /\ \A i \in 1 .. n : Append(rob[t], e)[i] = rob[t][i]
    BY <2>1, AppendProperties
  <2> QED
    BY <2>1, <2>2, <2>3, <2>4, <2>5
<1> HIDE DEF n
<1>2. \A u \in Threads : u # t => rename_table'[u] = rename_table[u]
  BY <1>0 DEF TypeOK
<1>3. \A u \in Threads : u # t => SameLog(u) /\ SameArch(u)
  BY <1>0, <1>1, <1>2, ThreadStays
<1>4. LogOf(t)' = Append(LogOf(t), Logged(e))
  <2>1. LogSeq(Append(rob[t], e)) = Append(LogSeq(rob[t]), Logged(e))
    BY <1>1, LogAppend
  <2> QED
    BY <1>1, <2>1 DEF LogSeq, LogOf
<1>5. SameArch(t)
  <2>1. ASSUME NEW a \in ArchRegs, NEW p, Oldest(rob[t], rename_table[t], a, p)
        PROVE  Oldest(rob'[t], rename_table'[t], a, p)
    <3>1. CASE /\ \A j \in DOMAIN rob[t] : HasDest(rob[t][j]) => rob[t][j].archreg # a
               /\ p = rename_table[t][a]
      <4>1. CASE HasDest(e) /\ e.archreg = a
        <5>1. /\ n + 1 \in DOMAIN rob'[t] /\ HasDest(rob'[t][n + 1])
              /\ rob'[t][n + 1].archreg = a /\ rob'[t][n + 1].old_physreg = p
          BY <1>1, <3>1, <4>1
        <5>2. ASSUME NEW k \in DOMAIN rob'[t], HasDest(rob'[t][k]), rob'[t][k].archreg = a
              PROVE  n + 1 <= k
          <6>1. k \notin 1 .. n
            BY <1>1, <3>1, <5>2
          <6> QED
            BY <1>1, <6>1
        <5> QED
          BY <5>1, <5>2 DEF Oldest
      <4>2. CASE ~(HasDest(e) /\ e.archreg = a)
        <5>1. rename_table'[t][a] = rename_table[t][a]
          BY <1>0, <4>2 DEF TypeOK
        <5>2. \A k \in DOMAIN rob'[t] : HasDest(rob'[t][k]) => rob'[t][k].archreg # a
          <6>1. \A k \in 1 .. n + 1 : k \in 1 .. n \/ k = n + 1
            BY <1>1
          <6> QED
            BY <1>1, <3>1, <4>2, <6>1
        <5> QED
          BY <3>1, <5>1, <5>2 DEF Oldest
      <4> QED
        BY <4>1, <4>2
    <3>2. ASSUME NEW j \in DOMAIN rob[t], HasDest(rob[t][j]), rob[t][j].archreg = a,
                 \A k \in DOMAIN rob[t] : HasDest(rob[t][k]) /\ rob[t][k].archreg = a => j <= k,
                 p = rob[t][j].old_physreg
          PROVE  Oldest(rob'[t], rename_table'[t], a, p)
      <4>1. /\ j \in DOMAIN rob'[t] /\ HasDest(rob'[t][j]) /\ rob'[t][j].archreg = a
            /\ p = rob'[t][j].old_physreg
        BY <1>1, <3>2
      <4>2. ASSUME NEW k \in DOMAIN rob'[t], HasDest(rob'[t][k]), rob'[t][k].archreg = a
            PROVE  j <= k
        <5>1. CASE k \in 1 .. n
          BY <1>1, <3>2, <4>2, <5>1
        <5>2. CASE k \notin 1 .. n
          BY <1>1, <5>2
        <5> QED
          BY <5>1, <5>2
      <4> QED
        BY <4>1, <4>2 DEF Oldest
    <3> QED
      BY <2>1, <3>1, <3>2 DEF Oldest
  <2> QED
    BY <1>0, <2>1, ArchStays
<1>6. Logged(e).name \in Names /\ Logged(e) = [name |-> Logged(e).name, reg |-> Logged(e).reg]
  <2>1. Logged(e) \in Ops
    BY LoggedType
  <2> QED
    BY <2>1 DEF Ops
<1>7. Logged(e).reg \in (Registers \ Arch!InUse) \cup {Nothing}
  <2>1. CASE ~HasDest(e)
    BY <2>1, LoggedType
  <2>2. CASE HasDest(e)
    <3>1. /\ Logged(e).reg = Typed(e.archreg, e.physreg) /\ Logged(e).reg \in Registers \cup {Nothing}
          /\ Logged(e) \in Ops
      BY <2>2, LoggedType DEF Ops
    <3>2. reg_file[TypeOf(e.archreg)][e.physreg] = "REG_FREE"
      BY <2>2 DEF Free
    <3>3. ASSUME NEW x \in Arch!InUse
          PROVE  x # Typed(e.archreg, e.physreg)
      <4>1. CASE \E u \in Threads, a \in ArchRegs : x = Typed(a, RestoredMap(u, 0)[a])
        <5>1. PICK u \in Threads, a \in ArchRegs : x = Typed(a, RestoredMap(u, 0)[a])
          BY <4>1
        <5>2. Oldest(rob[u], rename_table[u], a, RestoredMap(u, 0)[a])
          BY <1>0, ArchIsOldest
        <5>3. reg_file[TypeOf(a)][RestoredMap(u, 0)[a]] # "REG_FREE"
          <6>1. CASE RestoredMap(u, 0)[a] = rename_table[u][a]
            <7>1. StateOf(Mapped(u, a)) # "REG_FREE"
              BY <1>0 DEF NoRegisterShared
            <7> QED
              BY <6>1, <7>1 DEF StateOf, Mapped
          <6>2. ASSUME NEW j \in DOMAIN rob[u], HasDest(rob[u][j]), rob[u][j].archreg = a,
                       RestoredMap(u, 0)[a] = rob[u][j].old_physreg
                PROVE  reg_file[TypeOf(a)][RestoredMap(u, 0)[a]] # "REG_FREE"
            <7>1. j \in Writers(u)
              BY <6>2 DEF Writers
            <7>2. StateOf(Replaced(u, j)) # "REG_FREE"
              BY <1>0, <7>1 DEF NoRegisterShared
            <7>3. rob[u][j].dest_format = TypeOf(a)
              BY <1>0, <6>2, <7>1 DEF EntriesOK
            <7> QED
              BY <6>2, <7>2, <7>3 DEF StateOf, Replaced
          <6> QED
            BY <5>2, <6>1, <6>2 DEF Oldest
        <5> QED
          BY <3>2, <5>1, <5>3 DEF Typed
      <4>2. CASE \E u \in Threads : \E i \in DOMAIN rob[u] : x = Logged(rob[u][i]).reg
        <5>0. PICK u \in Threads : \E i \in DOMAIN rob[u] : x = Logged(rob[u][i]).reg
          BY <4>2
        <5>1. PICK i \in DOMAIN rob[u] : x = Logged(rob[u][i]).reg
          BY <5>0
        <5>2. CASE HasDest(rob[u][i])
          <6>1. i \in Writers(u)
            BY <5>1, <5>2 DEF Writers
          <6>2. StateOf(Taken(u, i)) # "REG_FREE" /\ rob[u][i].dest_format = TypeOf(rob[u][i].archreg)
            BY <1>0, <6>1 DEF EntriesOK
          <6>3. x = Taken(u, i)
            BY <5>1, <5>2, <6>2 DEF Logged, Typed, Taken
          <6> QED
            BY <3>2, <6>2, <6>3 DEF Typed, StateOf
        <5>3. CASE ~HasDest(rob[u][i])
          BY <5>1, <5>3 DEF Logged, Nothing, Typed, TypeOf, INT, FP, NONE
        <5> QED
          BY <5>2, <5>3
      <4>3. \/ \E u \in Threads, a \in ArchRegs : x = ArchOf(u)[a]
            \/ \E u \in Threads : \E i \in DOMAIN LogOf(u) : x = LogOf(u)[i].reg
        BY InUseFacts
      <4> QED
        BY <4>1, <4>2, <4>3 DEF ArchOf, LogOf
    <3>4. Logged(e).reg # Nothing
      BY <3>1 DEF Nothing, Typed, TypeOf, INT, FP, NONE
    <3> QED
      BY <3>1, <3>3, <3>4
  <2> QED
    BY <2>1, <2>2
<1> QED
  <2>1. LogOf(t)' = Append(LogOf(t), [name |-> Logged(e).name, reg |-> Logged(e).reg])
    BY <1>4, <1>6
  <2> QED
    BY <1>3, <1>5, <1>6, <1>7, <2>1, AbstractIssue

-----------------------------------------------------------------------------
(* The steps of the renamer.                                               *)
LEMMA RenamesIssue ==
  ASSUME RegisterInv, TypeOK', NEW t \in Threads, RenameDest(t) \/ RenameNoDest(t)
  PROVE  Arch!Next
<1>0. TypeOK
  BY SMTT(30) DEF RegisterInv
<1>1. ifq[t] # <<>>
  BY DEF RenameDest, RenameNoDest, OldMapping, RenameGuard, MayRename
<1>2. PICK inst \in Insts : inst = Head(ifq[t])
  BY <1>0, <1>1, HeadIsInst
<1>3. CASE RenameDest(t)
  <2> DEFINE ty == DestOf(inst.op)
             x  == inst.out1
  <2>1. TakesRegister(inst)
    BY <1>2, <1>3 DEF RenameDest
  <2>2. ty \in RegTypes /\ x \in ArchRegs /\ TypeOf(x) = ty
    BY <2>1, InstFacts DEF TakesRegister
  <2>3. PICK old \in Phys : old = rename_table[t][x]
    BY <1>0, <2>2, SMTT(30) DEF TypeOK
  <2>4. PICK p \in Free(ty) :
          /\ EnterRob(t, inst, NewEntry(t, inst, p, old, ty))
          /\ rename_table' = [rename_table EXCEPT ![t][x] = p]
    BY <1>2, <1>3, <2>3 DEF RenameDest, OldMapping
  <2> DEFINE e == NewEntry(t, inst, p, old, ty)
  <2>5. p \in Phys /\ p # NoReg
    BY <2>4 DEF Free, Phys, NoReg
  <2>6. e \in Entries
    BY <1>0, <2>2, <2>5, NewEntryType
  <2>7. /\ e.archreg = x /\ e.physreg = p /\ e.old_physreg = old /\ HasDest(e)
    BY <2>5 DEF NewEntry, HasDest
  <2>8. rob' = [rob EXCEPT ![t] = Append(@, e)]
    BY <2>4 DEF EnterRob
  <2> HIDE DEF e
  <2> QED
    BY <2>2, <2>3, <2>4, <2>6, <2>7, <2>8, EnterIssues
<1>4. CASE RenameNoDest(t)
  <2> DEFINE e == NewEntry(t, inst, NoReg, NoReg, NONE)
  <2>1. EnterRob(t, inst, e) /\ rename_table' = rename_table
    BY <1>2, <1>4 DEF RenameNoDest
  <2>2. e \in Entries
    BY <1>0, NewEntryType
  <2>3. ~HasDest(e) /\ rob' = [rob EXCEPT ![t] = Append(@, e)]
    BY <2>1 DEF EnterRob, NewEntry, HasDest
  <2> HIDE DEF e
  <2> QED
    BY <2>1, <2>2, <2>3, EnterIssues
<1> QED
  BY <1>3, <1>4

(* commit() retires the oldest entry: its register becomes the one of its  *)
(* name, because the next writer of the name has replaced it, or else it   *)
(* is mapped still.                                                        *)
LEMMA CommitRetires ==
  ASSUME RegisterInv, RenameMapChain, TypeOK', NEW t \in Threads, Commit(t)
  PROVE  Arch!Next
<1> DEFINE e == rob[t][1]
<1>0. TypeOK /\ EntriesOK
  BY DEF RegisterInv
<1>1. /\ rob[t] # <<>> /\ rob' = [rob EXCEPT ![t] = Tail(@)]
      /\ rename_table' = rename_table
  BY DEF Commit, CommitDest, CommitNoDest, MayCommit
<1>2. PICK n \in Nat : n = Len(rob[t])
  BY <1>0, <1>1, PopFacts
<1>3. /\ n >= 1 /\ DOMAIN rob[t] = 1 .. n /\ DOMAIN rob'[t] = 1 .. n - 1
      /\ Head(rob[t]) = e
      /\ \A i \in 1 .. n - 1 : rob'[t][i] = rob[t][i + 1]
  <2>1. n >= 1 /\ DOMAIN rob[t] = 1 .. n /\ Head(rob[t]) = e
    BY <1>0, <1>1, <1>2, PopFacts
  <2>2. Len(rob'[t]) = n - 1 /\ DOMAIN rob'[t] = 1 .. Len(rob'[t])
    BY <1>0, <1>1, <1>2, PopFacts
  <2>3. \A i \in DOMAIN rob'[t] : rob'[t][i] = rob[t][IF t = t THEN i + 1 ELSE i]
    BY <1>0, <1>1, PopFacts
  <2> QED
    BY <2>1, <2>2, <2>3
<1>4. rob[t] \in Seq(Entries) /\ rob'[t] \in Seq(Entries) /\ e \in Entries
  BY <1>0, <1>3, ElementOfSeq, LenProperties DEF TypeOK
<1>5. rob'[t] = Tail(rob[t]) /\ \A u \in Threads : u # t => rob'[u] = rob[u]
  BY <1>0, <1>1 DEF TypeOK
<1>6. \A u \in Threads : u # t => SameLog(u) /\ SameArch(u)
  BY <1>0, <1>1, <1>5, ThreadStays
<1>7. /\ LogOf(t) # <<>> /\ Head(LogOf(t)) = Logged(e) /\ LogOf(t)' = Tail(LogOf(t))
  <2>1. LogOf(t) = LogSeq(rob[t]) /\ LogOf(t)' = LogSeq(rob'[t])
    BY DEF LogOf, LogSeq
  <2> QED
    BY <1>1, <1>3, <1>4, <1>5, <2>1, LogTail
<1>8. ASSUME NEW a \in ArchRegs, NEW p, ~(HasDest(e) /\ e.archreg = a),
             Oldest(rob[t], rename_table[t], a, p)
      PROVE  Oldest(rob'[t], rename_table'[t], a, p)
  <2>1. CASE /\ \A j \in DOMAIN rob[t] : HasDest(rob[t][j]) => rob[t][j].archreg # a
             /\ p = rename_table[t][a]
    <3>1. \A i \in 1 .. n - 1 : i + 1 \in 1 .. n
      OBVIOUS
    <3>2. \A i \in DOMAIN rob'[t] : HasDest(rob'[t][i]) => rob'[t][i].archreg # a
      BY <1>3, <2>1, <3>1
    <3> QED
      BY <1>1, <2>1, <3>2 DEF Oldest
  <2>2. ASSUME NEW j \in DOMAIN rob[t], HasDest(rob[t][j]), rob[t][j].archreg = a,
               \A k \in DOMAIN rob[t] : HasDest(rob[t][k]) /\ rob[t][k].archreg = a => j <= k,
               p = rob[t][j].old_physreg
        PROVE  Oldest(rob'[t], rename_table'[t], a, p)
    <3>0. j \in 1 .. n /\ j # 1
      BY <1>3, <1>8, <2>2
    <3>1. j \in 2 .. n /\ j - 1 \in 1 .. n - 1 /\ (j - 1) + 1 = j
      BY <3>0
    <3>2. rob'[t][j - 1] = rob[t][j]
      BY <1>3, <3>1
    <3>3. ASSUME NEW k \in DOMAIN rob'[t], HasDest(rob'[t][k]), rob'[t][k].archreg = a
          PROVE  j - 1 <= k
      <4>1. k \in 1 .. n - 1 /\ k + 1 \in 1 .. n /\ rob'[t][k] = rob[t][k + 1]
        BY <1>3
      <4>2. j <= k + 1
        BY <1>3, <2>2, <3>3, <4>1
      <4> QED
        BY <3>1, <4>1, <4>2
    <3> QED
      BY <1>3, <2>2, <3>1, <3>2, <3>3 DEF Oldest
  <2> QED
    BY <1>8, <2>1, <2>2 DEF Oldest
<1>9. ASSUME HasDest(e)
      PROVE  Oldest(rob'[t], rename_table'[t], e.archreg, e.physreg)
  <2> DEFINE a == e.archreg
             later == {j \in Writers(t) : j > 1 /\ rob[t][j].archreg = rob[t][1].archreg}
  <2>1. 1 \in Writers(t)
    BY <1>3, <1>9 DEF Writers
  <2>2. /\ later = {} => Mapped(t, a) = Taken(t, 1)
        /\ \A j \in later : (\A k \in later : j <= k) => Replaced(t, j) = Taken(t, 1)
    BY <2>1 DEF RenameMapChain
  <2>3. \A i \in 1 .. n - 1 : i + 1 \in 1 .. n /\ i + 1 > 1
    OBVIOUS
  <2>4. \A k \in DOMAIN rob'[t] : HasDest(rob'[t][k]) /\ rob'[t][k].archreg = a
                                    => k + 1 \in later
    BY <1>3, <2>3 DEF Writers
  <2>5. CASE later = {}
    <3>1. rename_table[t][a] = e.physreg
      BY <2>2, <2>5 DEF Mapped, Taken
    <3>2. \A k \in DOMAIN rob'[t] : HasDest(rob'[t][k]) => rob'[t][k].archreg # a
      BY <2>4, <2>5
    <3> QED
      BY <1>1, <3>1, <3>2 DEF Oldest
  <2>6. CASE later # {}
    <3>1. later \subseteq Nat
      BY <1>3 DEF Writers
    <3>2. PICK j \in later : \A k \in later : j <= k
      BY <2>6, <3>1, LeastElement
    <3>3. rob[t][j].old_physreg = e.physreg
      BY <2>2, <3>2 DEF Replaced, Taken
    <3>4. /\ j \in 2 .. n /\ j - 1 \in 1 .. n - 1 /\ (j - 1) + 1 = j
          /\ HasDest(rob[t][j]) /\ rob[t][j].archreg = a
      BY <1>3, <3>2 DEF Writers
    <3>5. rob'[t][j - 1] = rob[t][j]
      BY <1>3, <3>4
    <3>6. ASSUME NEW k \in DOMAIN rob'[t], HasDest(rob'[t][k]), rob'[t][k].archreg = a
          PROVE  j - 1 <= k
      <4>1. k + 1 \in later /\ k \in Int
        BY <1>3, <2>4, <3>6
      <4>2. j <= k + 1
        BY <3>2, <4>1
      <4> QED
        BY <3>4, <4>1, <4>2
    <3> QED
      BY <1>3, <3>3, <3>4, <3>5, <3>6 DEF Oldest
  <2> QED
    BY <2>5, <2>6
<1>10. \A a \in ArchRegs : RestoredMap(t, 0)'[a]
          = IF HasDest(e) /\ e.archreg = a THEN e.physreg ELSE RestoredMap(t, 0)[a]
  <2> SUFFICES ASSUME NEW a \in ArchRegs
               PROVE  RestoredMap(t, 0)'[a]
                 = IF HasDest(e) /\ e.archreg = a THEN e.physreg ELSE RestoredMap(t, 0)[a]
    OBVIOUS
  <2>1. Oldest(rob[t], rename_table[t], a, RestoredMap(t, 0)[a])
    BY <1>0, ArchIsOldest
  <2>2. Oldest(rob'[t], rename_table'[t], a, RestoredMap(t, 0)'[a])
    BY ArchIsOldestNext
  <2>3. CASE HasDest(e) /\ e.archreg = a
    BY <1>4, <1>9, <2>2, <2>3, OldestUnique
  <2>4. CASE ~(HasDest(e) /\ e.archreg = a)
    BY <1>4, <1>8, <2>1, <2>2, <2>4, OldestUnique
  <2> QED
    BY <2>3, <2>4
<1>11. /\ Logged(e).reg = IF HasDest(e) THEN Typed(e.archreg, e.physreg) ELSE Nothing
       /\ Logged(e).name = e.archreg
       /\ Typed(e.archreg, e.physreg) # Nothing
       /\ e.archreg \in ArchRegs
  BY <1>4, LoggedType DEF Nothing, Typed, TypeOf, INT, FP, NONE, Entries
<1>12. ArchOf(t)' = IF Logged(e).reg = Nothing THEN ArchOf(t)
                    ELSE [ArchOf(t) EXCEPT ![Logged(e).name] = Logged(e).reg]
  <2>1. ArchOf(t)' = [a \in ArchRegs |-> Typed(a, RestoredMap(t, 0)'[a])]
    BY DEF ArchOf, Typed, TypeOf
  <2>2. ArchOf(t) = [a \in ArchRegs |-> Typed(a, RestoredMap(t, 0)[a])]
    BY DEF ArchOf
  <2>3. CASE HasDest(e)
    BY <1>10, <1>11, <2>1, <2>2, <2>3
  <2>4. CASE ~HasDest(e)
    BY <1>10, <1>11, <2>1, <2>2, <2>4
  <2> QED
    BY <2>3, <2>4
<1> QED
  BY <1>6, <1>7, <1>12, AbstractRetire

(* The recovery squashes: what rollbackTo() restores for a name is what    *)
(* the oldest squashed writer of it had replaced, so the oldest writer of  *)
(* the whole ROB says what it said.                                        *)
LEMMA RecoverySquashes ==
  ASSUME RegisterInv, TypeOK', NEW t \in Threads, NEW i, WritebackRecover(t, i)
  PROVE  Arch!Next
<1>0. TypeOK
  BY DEF RegisterInv
<1>1. /\ i \in DOMAIN rob[t]
      /\ rob' = [rob EXCEPT ![t] = [SubSeq(@, 1, i) EXCEPT ![i].completed = TRUE]]
      /\ rename_table' = [rename_table EXCEPT ![t] = RestoredMap(t, i)]
  BY DEF WritebackRecover, Rollback
<1>2. PICK n \in Nat : n = Len(rob[t])
  BY <1>0, <1>1, TruncateFacts
<1>3. /\ i \in Nat /\ 1 <= i /\ i <= n
      /\ DOMAIN rob[t] = 1 .. n /\ DOMAIN rob'[t] = 1 .. i
      /\ Len(rob'[t]) = i
      /\ \A u \in Threads : u # t => rob'[u] = rob[u]
  BY <1>0, <1>1, <1>2, TruncateFacts
<1>4. \A j \in 1 .. i : rob'[t][j] = IF j = i THEN [rob[t][i] EXCEPT !.completed = TRUE]
                                     ELSE rob[t][j]
  BY <1>0, <1>1, TruncateFacts
<1>5. rob[t] \in Seq(Entries) /\ rob'[t] \in Seq(Entries)
  BY <1>0 DEF TypeOK
<1>6. \A j \in 1 .. i : /\ rob'[t][j].archreg = rob[t][j].archreg
                        /\ rob'[t][j].physreg = rob[t][j].physreg
                        /\ rob'[t][j].old_physreg = rob[t][j].old_physreg
  <2>1. rob[t][i] \in Entries
    BY <1>3, <1>5, ElementOfSeq
  <2> QED
    BY <1>4, <2>1 DEF Entries
<1>7. \A j \in 1 .. i : /\ HasDest(rob'[t][j]) <=> HasDest(rob[t][j])
                        /\ Logged(rob'[t][j]) = Logged(rob[t][j])
  BY <1>6 DEF HasDest, Logged, Typed
<1>8. \A u \in Threads : u # t => SameLog(u) /\ SameArch(u)
  <2>1. \A u \in Threads : u # t => rename_table'[u] = rename_table[u]
    BY <1>0, <1>1 DEF TypeOK
  <2> QED
    BY <1>0, <1>3, <2>1, ThreadStays
<1>9. LogOf(t)' = SubSeq(LogOf(t), 1, i) /\ i \in 0 .. Len(LogOf(t))
  <2>1. LogOf(t) = LogSeq(rob[t]) /\ LogOf(t)' = LogSeq(rob'[t])
    BY DEF LogOf, LogSeq
  <2>2. LogSeq(rob'[t]) = SubSeq(LogSeq(rob[t]), 1, i)
    BY <1>2, <1>3, <1>5, <1>7, LogCut
  <2>3. Len(LogSeq(rob[t])) = n
    BY <1>2, <1>5, LogType
  <2> QED
    BY <1>3, <2>1, <2>2, <2>3
<1>10. ASSUME NEW a \in ArchRegs, NEW p, Oldest(rob[t], rename_table[t], a, p)
       PROVE  Oldest(rob'[t], rename_table'[t], a, p)
  <2>0. rename_table'[t][a] = RestoredMap(t, i)[a]
    BY <1>0, <1>1 DEF TypeOK
  <2>1. CASE \E j \in 1 .. i : HasDest(rob[t][j]) /\ rob[t][j].archreg = a
    <3>1. PICK j0 \in 1 .. i : HasDest(rob[t][j0]) /\ rob[t][j0].archreg = a
      BY <2>1
    <3>2. j0 \in DOMAIN rob[t]
      BY <1>3
    <3>3. PICK j \in DOMAIN rob[t] :
            /\ HasDest(rob[t][j]) /\ rob[t][j].archreg = a
            /\ \A k \in DOMAIN rob[t] : HasDest(rob[t][k]) /\ rob[t][k].archreg = a => j <= k
            /\ p = rob[t][j].old_physreg
      BY <1>10, <3>1, <3>2 DEF Oldest
    <3>4. j \in 1 .. i
      <4>1. j <= j0
        BY <3>1, <3>2, <3>3
      <4> QED
        BY <1>3, <3>1, <4>1
    <3>5. /\ j \in DOMAIN rob'[t] /\ HasDest(rob'[t][j]) /\ rob'[t][j].archreg = a
          /\ p = rob'[t][j].old_physreg
      BY <1>3, <1>6, <1>7, <3>3, <3>4
    <3>6. ASSUME NEW k \in DOMAIN rob'[t], HasDest(rob'[t][k]), rob'[t][k].archreg = a
          PROVE  j <= k
      <4>1. k \in 1 .. i /\ k \in DOMAIN rob[t]
        BY <1>3
      <4>2. HasDest(rob[t][k]) /\ rob[t][k].archreg = a
        BY <1>6, <1>7, <3>6, <4>1
      <4> QED
        BY <3>3, <4>1, <4>2
    <3> QED
      BY <3>5, <3>6 DEF Oldest
  <2>2. CASE ~\E j \in 1 .. i : HasDest(rob[t][j]) /\ rob[t][j].archreg = a
    <3>1. \A k \in DOMAIN rob'[t] : HasDest(rob'[t][k]) => rob'[t][k].archreg # a
      BY <1>3, <1>6, <1>7, <2>2
    <3>2. \A j \in DOMAIN rob[t] : HasDest(rob[t][j]) /\ rob[t][j].archreg = a
                                     => j \in Squashed(t, i)
      BY <1>3, <2>2 DEF Squashed
    <3>3. \A j \in Squashed(t, i) : j \in DOMAIN rob[t] /\ HasDest(rob[t][j])
      BY DEF Squashed
    <3>4. Oldest(rob[t], rename_table[t], a, RestoredMap(t, i)[a])
      <4>1. CASE /\ \A j \in Squashed(t, i) : rob[t][j].archreg # a
                 /\ RestoredMap(t, i)[a] = rename_table[t][a]
        BY <3>2, <4>1 DEF Oldest
      <4>2. CASE \E j \in Squashed(t, i) :
                   /\ IsOldestWriter(t, i, j, a)
                   /\ RestoredMap(t, i)[a] = rob[t][j].old_physreg
        <5>1. PICK j \in Squashed(t, i) :
                   /\ IsOldestWriter(t, i, j, a)
                   /\ RestoredMap(t, i)[a] = rob[t][j].old_physreg
          BY <4>2
        <5>2. rob[t][j].archreg = a
              /\ \A k \in Squashed(t, i) : rob[t][k].archreg = a => j <= k
          BY <5>1 DEF IsOldestWriter
        <5> QED
          BY <3>2, <3>3, <5>1, <5>2 DEF Oldest
      <4> QED
        BY <1>0, <4>1, <4>2, RestoredFacts
    <3>5. p = RestoredMap(t, i)[a]
      BY <1>5, <1>10, <3>4, OldestUnique
    <3> QED
      BY <2>0, <3>1, <3>5 DEF Oldest
  <2> QED
    BY <2>1, <2>2
<1>11. SameArch(t)
  BY <1>0, <1>10, ArchStays
<1> QED
  BY <1>8, <1>9, <1>11, AbstractSquash

(* The rest of the pipeline is not seen.                                   *)
LEMMA OthersStutter ==
  ASSUME RegisterInv, TypeOK', NEW t \in Threads,
         \/ Fetch(t)
         \/ RenameNop(t)
         \/ RenameAbort(t)
         \/ \E i \in 1 .. RobSize : Writeback(t, i) \/ LsqWriteback(t, i)
  PROVE  UNCHANGED <<[u \in Threads |-> ArchOf(u)], [u \in Threads |-> LogOf(u)]>>
<1>0. TypeOK
  BY DEF RegisterInv
<1>1. ASSUME Fetch(t) \/ RenameNop(t) \/ RenameAbort(t), NEW u \in Threads
      PROVE  SameLog(u) /\ SameArch(u)
  BY <1>0, <1>1, ThreadStays DEF Fetch, RenameNop, RenameAbort
<1>2. ASSUME NEW i, Writeback(t, i) \/ LsqWriteback(t, i), NEW u \in Threads
      PROVE  SameLog(u) /\ SameArch(u)
  <2> DEFINE f == rob[t][i]
             e == IF Writeback(t, i) THEN [f EXCEPT !.completed = TRUE]
                                     ELSE [f EXCEPT !.lsq_completed = TRUE]
  <2>1. /\ i \in DOMAIN rob[t] /\ rename_table' = rename_table
        /\ rob' = [rob EXCEPT ![t] = [@ EXCEPT ![i] = e]]
    BY <1>2 DEF Writeback, LsqWriteback
  <2>2. f \in Entries
    BY <1>0, <2>1, LenProperties DEF TypeOK
  <2>3. e \in Entries /\ e.archreg = f.archreg /\ e.physreg = f.physreg
        /\ e.old_physreg = f.old_physreg
    BY <2>2 DEF Entries
  <2> HIDE DEF e
  <2>4. DOMAIN rob'[u] = DOMAIN rob[u]
    BY <1>0, <2>1, <2>3, ReplaceFacts
  <2>5. \A j \in DOMAIN rob[u] : rob'[u][j] = IF u = t /\ j = i THEN e ELSE rob[u][j]
    BY <1>0, <2>1, <2>3, ReplaceFacts
  <2> QED
    BY <1>0, <2>1, <2>3, <2>4, <2>5, EntriesStay
<1> QED
  BY <1>1, <1>2, AbstractStutter

(* Renaming implements its abstract specification: for every number of     *)
(* threads, registers and window, whatever is renamed, retired and rolled  *)
(* back, the architectural registers of a thread change only by its oldest *)
(* write, and no write takes a register that any thread still needs.       *)
THEOREM RenamerImplementsArch == Spec => ImplementsArch
<1>1. Init => Arch!Init
  <2> SUFFICES ASSUME Init PROVE Arch!Init
    OBVIOUS
  <2>1. \A t \in Threads : rob[t] = <<>> /\ rename_table[t] = InitMap[t]
    BY DEF Init
  <2>2. ASSUME NEW t \in Threads
        PROVE  /\ LogOf(t) = <<>>
               /\ ArchOf(t) = [a \in ArchRegs |-> Typed(a, InitMap[t][a])]
    <3>1. DOMAIN rob[t] = {} /\ Squashed(t, 0) = {}
      BY <2>1 DEF Squashed
    <3>2. LogOf(t) = <<>>
      BY <3>1 DEF LogOf
    <3>3. \A a \in ArchRegs : RestoredMap(t, 0)[a] = InitMap[t][a]
      BY <2>1, <3>1 DEF RestoredMap
    <3> QED
      BY <3>2, <3>3 DEF ArchOf
  <2> QED
    BY <2>2 DEF Arch!Init, Start
<1>2. RegisterInv /\ RegisterInv' /\ RenameMapChain /\ [Next]_vars
        => [Arch!Next]_<<[t \in Threads |-> ArchOf(t)], [t \in Threads |-> LogOf(t)]>>
  <2> SUFFICES ASSUME RegisterInv, RegisterInv', RenameMapChain, [Next]_vars
               PROVE  \/ Arch!Next
                      \/ UNCHANGED <<[t \in Threads |-> ArchOf(t)], [t \in Threads |-> LogOf(t)]>>
    OBVIOUS
  <2>0. TypeOK /\ TypeOK'
    BY DEF RegisterInv
  <2>1. CASE UNCHANGED vars
    <3>1. \A u \in Threads : SameLog(u) /\ SameArch(u)
      BY <2>0, <2>1, ThreadStays DEF vars
    <3> QED
      BY <3>1, AbstractStutter
  <2>2. CASE Next
    <3>1. PICK t \in Threads :
            \/ RenameDest(t) \/ RenameNoDest(t)
            \/ CommitDest(t) \/ CommitNoDest(t)
            \/ \E i \in 1 .. RobSize : WritebackRecover(t, i)
            \/ Fetch(t) \/ RenameNop(t) \/ RenameAbort(t)
            \/ \E i \in 1 .. RobSize : Writeback(t, i) \/ LsqWriteback(t, i)
      BY <2>2 DEF Next
    <3>2. CASE RenameDest(t) \/ RenameNoDest(t)
      BY <2>0, <3>2, RenamesIssue
    <3>3. CASE CommitDest(t) \/ CommitNoDest(t)
      BY <2>0, <3>3, CommitRetires DEF Commit
    <3>4. CASE \E i \in 1 .. RobSize : WritebackRecover(t, i)
      BY <2>0, <3>4, RecoverySquashes
    <3>5. CASE \/ Fetch(t) \/ RenameNop(t) \/ RenameAbort(t)
               \/ \E i \in 1 .. RobSize : Writeback(t, i) \/ LsqWriteback(t, i)
      BY <2>0, <3>5, OthersStutter
    <3> QED
      BY <3>1, <3>2, <3>3, <3>4, <3>5
  <2> QED
    BY <2>1, <2>2
<1> QED
  BY <1>1, <1>2, RegisterInvariant, MapIsChain, PTL DEF Spec, ImplementsArch, Arch!Spec

=============================================================================
