--------------------------- MODULE RegisterRename ---------------------------
(***************************************************************************)
(* Register renaming with a per-thread cap, as one core of the simulator   *)
(* performs it: register_rename() takes decoded instructions from a        *)
(* thread's fetch queue into its reorder buffer (ROB) and gives each       *)
(* destination a physical register, writeback() and selection() mark it    *)
(* written, commit() retires the ROB head and frees the register that the  *)
(* retired mapping replaced, and a mispredicted branch that reaches        *)
(* writeback() rolls the younger instructions back.                        *)
(*                                                                         *)
(* One action is one iteration of a stage's loop, for one instruction of   *)
(* one thread.  The cycle in which an iteration runs, and which thread the *)
(* round-robin picks first, are left open, so every order in which the     *)
(* stages can serve the threads is a behaviour of this module.             *)
(***************************************************************************)
EXTENDS Integers, Sequences, FiniteSets

CONSTANTS
  Threads,      (* the contexts of the core                                *)
  NumArch,      (* architectural registers of each type (32 in the code)   *)
  NumPhys,      (* physical registers of each type (-rf:size)              *)
  Limit,        (* RENAME_REG_LIMIT                                        *)
  RobSize,      (* entries of a thread's ROB                               *)
  LsqSize,      (* entries of a thread's load/store queue                  *)
  IfqSize,      (* entries of a thread's fetch queue                       *)
  Insts,        (* the decoded instructions that fetch() may deliver       *)
  PredPerfect,  (* pred_perfect: the branch predictor is an oracle         *)
  IncludeSpec,  (* include_spec: wrong-path instructions are renamed       *)
  InitMap       (* the rename tables addcontext() has set up               *)

INT  == "int"
FP   == "fp"
NONE == "none"
RegTypes == {INT, FP}

ArchRegs == 0 .. 2 * NumArch - 1
Phys     == 0 .. NumPhys - 1
NoReg    == -1

(* Architectural names 0 and NumArch are the two zero registers.           *)
ZeroRegs  == {0, NumArch}
TypeOf(a) == IF a < NumArch THEN INT ELSE FP

(***************************************************************************)
(* The operation classes that get_reg_set() and the instruction flags tell *)
(* apart: the type of the destination, and the flags F_MEM, F_STORE,       *)
(* F_CTRL and F_TRAP.                                                      *)
(***************************************************************************)
AllOps == {"alu", "falu", "load", "fload", "store", "store_c",
           "branch", "jump", "trap", "trap_rd", "mf_fpcr", "nop"}

DestOf(op) ==
  IF op \in {"alu", "load", "store_c", "jump", "trap_rd"} THEN INT
  ELSE IF op \in {"falu", "fload"} THEN FP ELSE NONE

IsMem(op)   == op \in {"load", "fload", "store", "store_c"}
IsStore(op) == op \in {"store", "store_c"}
IsCtrl(op)  == op \in {"branch", "jump"}
IsTrap(op)  == op \in {"trap", "trap_rd"}

(* The output register O1 of an operation: DNA is 0.                       *)
OutputsOf(op) ==
  {a \in ArchRegs : IF DestOf(op) # NONE THEN TypeOf(a) = DestOf(op)
                    ELSE IF op = "mf_fpcr" THEN TypeOf(a) = FP ELSE a = 0}

(***************************************************************************)
(* How the predicted next PC of an instruction compares with the computed  *)
(* one: right, wrong, or a direct jump predicted taken to a wrong target.  *)
(* A wait4 that must be tried again sets its next PC to the instruction    *)
(* before it, which no predictor expects.                                  *)
(***************************************************************************)
Predictions(op) == CASE IsCtrl(op)  -> {"right", "wrong", "misfetch"}
                     [] op = "trap" -> {"right", "wrong"}
                     [] OTHER       -> {"right"}

AllInsts == UNION {{[op |-> op, out1 |-> a, pred |-> p] :
                      a \in OutputsOf(op), p \in Predictions(op)} : op \in AllOps}

Entries == [op : AllOps, archreg : ArchRegs, physreg : Phys \cup {NoReg},
            old_physreg : Phys \cup {NoReg}, dest_format : RegTypes \cup {NONE},
            completed : BOOLEAN, lsq_completed : BOOLEAN,
            recover_inst : BOOLEAN, spec_mode : BOOLEAN]

ASSUME ConstantsAssumption ==
  /\ IsFiniteSet(Threads)
  /\ NumArch \in Nat \ {0}
  /\ NumPhys \in Nat
  /\ Limit \in Nat
  /\ RobSize \in Nat \ {0}
  /\ LsqSize \in Nat \ {0}
  /\ IfqSize \in Nat \ {0}
  /\ Insts \subseteq AllInsts
  /\ PredPerfect \in BOOLEAN
  /\ IncludeSpec \in BOOLEAN

(* addcontext() reserves a physical register for every architectural       *)
(* register of every context, no two of them the same.                     *)
ASSUME InitMapAssumption ==
  /\ InitMap \in [Threads -> [ArchRegs -> Phys]]
  /\ \A t, u \in Threads : \A a, b \in ArchRegs :
       TypeOf(a) = TypeOf(b) /\ InitMap[t][a] = InitMap[u][b]
         => t = u /\ a = b

VARIABLES
  ifq,          (* [Threads -> Seq(Insts)]: the fetch queues, decoded      *)
  rob,          (* [Threads -> Seq(Entries)]: the ROBs, oldest first       *)
  rename_table, (* [Threads -> [ArchRegs -> Phys]]                         *)
  reg_file,     (* [RegTypes -> [Phys -> state of the register]]           *)
  reg_counter,  (* [Threads -> Nat]: the capped counter                    *)
  dcra_rf,      (* [Threads -> [RegTypes -> Int]]: DCRA_int_rf, DCRA_fp_rf *)
  spec_mode     (* [Threads -> BOOLEAN]: renaming down a wrong path        *)

vars == <<ifq, rob, rename_table, reg_file, reg_counter, dcra_rf, spec_mode>>

-----------------------------------------------------------------------------
HasDest(e)    == e.physreg # NoReg

(* Seeded fault: every register that is not in flight counts as free.      *)
Free_NotInFlight(ty) == {p \in Phys : reg_file[ty][p] \in {"REG_FREE", "REG_ARCH"}}

Free(ty)      == {p \in Phys : reg_file[ty][p] = "REG_FREE"}
LsqNum(t)     == Cardinality({i \in DOMAIN rob[t] : IsMem(rob[t][i].op)})

(* Seeded fault: the counter is never given back.                          *)
Decref_Never(n, k) == n

(* reg_counter_decref_if_positive, k times *)
Decref(n, k) == IF n > k THEN n - k ELSE 0

Init ==
  /\ ifq = [t \in Threads |-> <<>>]
  /\ rob = [t \in Threads |-> <<>>]
  /\ rename_table = InitMap
  /\ reg_file = [ty \in RegTypes |-> [p \in Phys |->
       IF \E t \in Threads, a \in ArchRegs : TypeOf(a) = ty /\ InitMap[t][a] = p
       THEN "REG_ARCH" ELSE "REG_FREE"]]
  /\ reg_counter = [t \in Threads |-> 0]
  /\ dcra_rf = [t \in Threads |-> [ty \in RegTypes |-> 0]]
  /\ spec_mode = [t \in Threads |-> FALSE]

(* fetch() puts one more instruction into the fetch queue of t.            *)
Fetch(t) ==
  /\ Len(ifq[t]) < IfqSize
  /\ \E inst \in Insts : ifq' = [ifq EXCEPT ![t] = Append(@, inst)]
  /\ UNCHANGED <<rob, rename_table, reg_file, reg_counter, dcra_rf, spec_mode>>

-----------------------------------------------------------------------------
(***************************************************************************)
(* register_rename(), for the oldest instruction of the fetch queue of t.  *)
(***************************************************************************)

(* Each early `continue' of the loop before the instruction is decoded.    *)
(* The ones that only postpone a rename, the fetch-to-rename delay, the    *)
(* bound on instructions not yet dispatched and the wait of in-order issue *)
(* for the last operation, are part of the free choice of when a step is   *)
(* taken.                                                                  *)
MayRename(t) ==
  /\ IncludeSpec \/ ~spec_mode[t]
  /\ ifq[t] # <<>>
  /\ Len(rob[t]) < RobSize
  /\ LsqNum(t) < LsqSize

(* Seeded fault: no cap, the free list alone decides.                      *)
RegisterAvailable_NoCap(t, op) == DestOf(op) # NONE => Free(DestOf(op)) # {}

(* The register check, by the operation alone: it also stalls an operation *)
(* whose destination is a zero register and that will take no register.    *)
RegisterAvailable(t, op) ==
  DestOf(op) # NONE => reg_counter[t] < Limit /\ Free(DestOf(op)) # {}

TrapMayRename(t, op) == IsTrap(op) => rob[t] = <<>>

(* A perfect predictor patches a wrong prediction, a misfetch redirects    *)
(* fetch: either way what was fetched behind the instruction is drained.   *)
FetchRedirected(inst) ==
  \/ PredPerfect /\ inst.pred # "right"
  \/ inst.pred = "misfetch"

(* Seeded fault: a misprediction on the wrong path recovers too.           *)
StartsRecovery_Nested(t, inst) == ~PredPerfect /\ inst.pred # "right"

(* The first mispredicted instruction on the right path starts spec mode.  *)
StartsRecovery(t, inst) ==
  ~spec_mode[t] /\ ~PredPerfect /\ inst.pred # "right"

ConsumeFetched(t, inst) ==
  ifq' = [ifq EXCEPT ![t] = IF FetchRedirected(inst) THEN <<>> ELSE Tail(@)]

NewEntry(t, inst, p, old, ty) ==
  [op |-> inst.op, archreg |-> inst.out1, physreg |-> p, old_physreg |-> old,
   dest_format |-> ty, completed |-> FALSE, lsq_completed |-> ~IsMem(inst.op),
   recover_inst |-> StartsRecovery(t, inst), spec_mode |-> spec_mode[t]]

EnterRob(t, inst, e) ==
  /\ rob' = [rob EXCEPT ![t] = Append(@, e)]
  /\ spec_mode' = [spec_mode EXCEPT ![t] = @ \/ StartsRecovery(t, inst)]
  /\ ConsumeFetched(t, inst)

TakesRegister(inst) == DestOf(inst.op) # NONE /\ inst.out1 \notin ZeroRegs

RenameGuard(t, inst) ==
  /\ MayRename(t)
  /\ RegisterAvailable(t, inst.op)
  /\ TrapMayRename(t, inst.op)

(* alloc_physreg() saves the mapping that the new one replaces.            *)
OldMapping(t, a) == rename_table[t][a]

(* An instruction with a destination takes the first free register.        *)
RenameDest(t) ==
  LET inst == Head(ifq[t])
      ty   == DestOf(inst.op)
      a    == inst.out1
  IN /\ RenameGuard(t, inst)
     /\ TakesRegister(inst)
     /\ \E p \in Free(ty) :
          /\ \A q \in Free(ty) : p <= q
          /\ EnterRob(t, inst, NewEntry(t, inst, p, OldMapping(t, a), ty))
          /\ rename_table' = [rename_table EXCEPT ![t][a] = p]
          /\ reg_file' = [reg_file EXCEPT ![ty][p] = "REG_ALLOC"]
          /\ reg_counter' = [reg_counter EXCEPT ![t] = @ + 1]
          /\ dcra_rf' = [dcra_rf EXCEPT ![t][ty] = @ + 1]

(* An instruction that writes no register, or a zero register.             *)
RenameNoDest(t) ==
  LET inst == Head(ifq[t])
  IN /\ RenameGuard(t, inst)
     /\ ~TakesRegister(inst)
     /\ inst.op # "nop"
     /\ EnterRob(t, inst, NewEntry(t, inst, NoReg, NoReg, NONE))
     /\ UNCHANGED <<rename_table, reg_file, reg_counter, dcra_rf>>

(* A bogus instruction, decoded to MD_NOP_OP, ends here.                   *)
RenameNop(t) ==
  LET inst == Head(ifq[t])
  IN /\ RenameGuard(t, inst)
     /\ inst.op = "nop"
     /\ ConsumeFetched(t, inst)
     /\ UNCHANGED <<rob, rename_table, reg_file, reg_counter, dcra_rf, spec_mode>>

(* An execve raises interrupt 0x10000000: the system call takes no ROB     *)
(* entry, and the fetch queue, itself included, is drained.                *)
RenameAbort(t) ==
  LET inst == Head(ifq[t])
  IN /\ RenameGuard(t, inst)
     /\ inst.op = "trap"
     /\ ifq' = [ifq EXCEPT ![t] = <<>>]
     /\ UNCHANGED <<rob, rename_table, reg_file, reg_counter, dcra_rf, spec_mode>>

Rename(t) ==
  RenameDest(t) \/ RenameNoDest(t) \/ RenameNop(t) \/ RenameAbort(t)

-----------------------------------------------------------------------------
(***************************************************************************)
(* writeback() and the completion of stores in selection().                *)
(***************************************************************************)

(* Seeded fault: the address computation of a load marks its register.     *)
WritesBack_Address(e) == HasDest(e)

(* The ROB part of a memory operation computes an address and writes no    *)
(* register; the LSQ part, completed below, does.                          *)
WritesBack(e) == HasDest(e) /\ ~IsMem(e.op)

Written(e) == [reg_file EXCEPT ![e.dest_format][e.physreg] = "REG_WB"]

(* Entry i of the ROB of t finishes and reveals no misprediction.          *)
Writeback(t, i) ==
  /\ i \in DOMAIN rob[t]
  /\ ~rob[t][i].completed
  /\ ~rob[t][i].recover_inst
  /\ rob' = [rob EXCEPT ![t][i].completed = TRUE]
  /\ reg_file' = IF WritesBack(rob[t][i]) THEN Written(rob[t][i]) ELSE reg_file
  /\ UNCHANGED <<ifq, rename_table, reg_counter, dcra_rf, spec_mode>>

(* The LSQ part of entry i of t finishes: a load in writeback(), a store   *)
(* in selection().                                                         *)
LsqWriteback(t, i) ==
  /\ i \in DOMAIN rob[t]
  /\ IsMem(rob[t][i].op)
  /\ ~rob[t][i].lsq_completed
  /\ rob' = [rob EXCEPT ![t][i].lsq_completed = TRUE]
  /\ reg_file' = IF HasDest(rob[t][i]) THEN Written(rob[t][i]) ELSE reg_file
  /\ UNCHANGED <<ifq, rename_table, reg_counter, dcra_rf, spec_mode>>

(***************************************************************************)
(* rollbackTo(), called by writeback(): the entries younger than i leave   *)
(* the ROB youngest first, each giving its register back and restoring the *)
(* mapping it replaced.  What remains of a register's mapping is the one   *)
(* the oldest squashed writer replaced.                                    *)
(***************************************************************************)

Squashed(t, i) == {j \in DOMAIN rob[t] : j > i /\ HasDest(rob[t][j])}

SquashedRegs(t, i) == {<<rob[t][j].dest_format, rob[t][j].physreg>> :
                         j \in Squashed(t, i)}

(* Seeded fault: the rollback walks the ROB oldest first.                  *)
IsOldestWriter_Youngest(t, i, j, a) ==
  /\ j \in Squashed(t, i)
  /\ rob[t][j].archreg = a
  /\ \A k \in Squashed(t, i) : rob[t][k].archreg = a => k <= j

IsOldestWriter(t, i, j, a) ==
  /\ j \in Squashed(t, i)
  /\ rob[t][j].archreg = a
  /\ \A k \in Squashed(t, i) : rob[t][k].archreg = a => j <= k

RestoredMap(t, i) ==
  [a \in ArchRegs |->
     IF \E j \in Squashed(t, i) : rob[t][j].archreg = a
     THEN rob[t][CHOOSE j \in DOMAIN rob[t] : IsOldestWriter(t, i, j, a)].old_physreg
     ELSE rename_table[t][a]]

Rollback(t, i) ==
  /\ rename_table' = [rename_table EXCEPT ![t] = RestoredMap(t, i)]
  /\ reg_counter' = [reg_counter EXCEPT
       ![t] = Decref(@, Cardinality(SquashedRegs(t, i)))]
  /\ dcra_rf' = [dcra_rf EXCEPT ![t] = [ty \in RegTypes |->
       dcra_rf[t][ty] - Cardinality({r \in SquashedRegs(t, i) : r[1] = ty})]]
  /\ ifq' = [ifq EXCEPT ![t] = <<>>]
  /\ spec_mode' = [spec_mode EXCEPT ![t] = FALSE]

(* The mispredicted instruction i of t finishes: its own register is       *)
(* written first, then everything younger is rolled back.                  *)
WritebackRecover(t, i) ==
  /\ i \in DOMAIN rob[t]
  /\ ~rob[t][i].completed
  /\ rob[t][i].recover_inst
  /\ rob' = [rob EXCEPT ![t] =
               [SubSeq(@, 1, i) EXCEPT ![i].completed = TRUE]]
  /\ reg_file' = [ty \in RegTypes |-> [p \in Phys |->
       IF <<ty, p>> \in SquashedRegs(t, i) THEN "REG_FREE"
       ELSE IF /\ WritesBack(rob[t][i])
               /\ <<ty, p>> = <<rob[t][i].dest_format, rob[t][i].physreg>>
            THEN "REG_WB"
            ELSE reg_file[ty][p]]]
  /\ Rollback(t, i)

-----------------------------------------------------------------------------
(* commit(), for the head of the ROB of t.                                 *)
MayCommit(t) ==
  /\ rob[t] # <<>>
  /\ Head(rob[t]).completed
  /\ Head(rob[t]).lsq_completed

(* Seeded fault: the retired register is freed in place of the replaced.   *)
Retired_Swapped(e)  == [reg_file EXCEPT ![e.dest_format][e.physreg] = "REG_FREE"]

(* The replaced register is freed and the new one becomes architectural.   *)
Retired(e) ==
  [reg_file EXCEPT ![e.dest_format] = [@ EXCEPT ![e.old_physreg] = "REG_FREE",
                                                ![e.physreg] = "REG_ARCH"]]

CommitDest(t) ==
  /\ MayCommit(t)
  /\ LET e  == Head(rob[t])
         ty == e.dest_format
     IN /\ HasDest(e)
        /\ reg_file' = Retired(e)
        /\ reg_counter' = [reg_counter EXCEPT ![t] = Decref(@, 1)]
        /\ dcra_rf' = [dcra_rf EXCEPT ![t][ty] = @ - 1]
  /\ rob' = [rob EXCEPT ![t] = Tail(@)]
  /\ UNCHANGED <<ifq, rename_table, spec_mode>>

CommitNoDest(t) ==
  /\ MayCommit(t)
  /\ ~HasDest(Head(rob[t]))
  /\ rob' = [rob EXCEPT ![t] = Tail(@)]
  /\ UNCHANGED <<ifq, rename_table, reg_file, reg_counter, dcra_rf, spec_mode>>

Commit(t) == CommitDest(t) \/ CommitNoDest(t)

-----------------------------------------------------------------------------
Next == \E t \in Threads :
          \/ Fetch(t)
          \/ RenameDest(t)
          \/ RenameNoDest(t)
          \/ RenameNop(t)
          \/ RenameAbort(t)
          \/ CommitDest(t)
          \/ CommitNoDest(t)
          \/ \E i \in 1 .. RobSize :
               \/ Writeback(t, i)
               \/ LsqWriteback(t, i)
               \/ WritebackRecover(t, i)

Spec == Init /\ [][Next]_vars

(***************************************************************************)
(* sim_main() runs every stage of the core in every cycle, rename and      *)
(* commit start with another thread each cycle, and every operation has a  *)
(* finite latency.                                                         *)
(***************************************************************************)
Complete(t, i) ==
  Writeback(t, i) \/ LsqWriteback(t, i) \/ WritebackRecover(t, i)

Fairness == \A t \in Threads :
              /\ WF_vars(Rename(t))
              /\ WF_vars(Commit(t))
              /\ \A i \in 1 .. RobSize : WF_vars(Complete(t, i))

FairSpec == Spec /\ Fairness

-----------------------------------------------------------------------------
(***************************************************************************)
(* Properties                                                              *)
(***************************************************************************)
Writers(t) == {i \in DOMAIN rob[t] : HasDest(rob[t][i])}

(* A register is its type and number: the one an architectural register is *)
(* mapped to, the one entry i of the ROB took, and the one it replaced.    *)
Mapped(t, a)   == <<TypeOf(a), rename_table[t][a]>>
Taken(t, i)    == <<rob[t][i].dest_format, rob[t][i].physreg>>
Replaced(t, i) == <<rob[t][i].dest_format, rob[t][i].old_physreg>>
StateOf(r)     == reg_file[r[1]][r[2]]

InFlight(t)       == {Taken(t, i) : i \in Writers(t)}
InFlightOf(t, ty) == {r \in InFlight(t) : r[1] = ty}

(* The part of a writer that writes its register has finished.             *)
Done(e) == IF IsMem(e.op) THEN e.lsq_completed ELSE e.completed

(* The type invariant: every variable of the core has the shape its        *)
(* declaration in context, reg_file_t and ROB_entry gives it.              *)
TypeOK ==
  /\ ifq \in [Threads -> Seq(Insts)]
  /\ rob \in [Threads -> Seq(Entries)]
  /\ rename_table \in [Threads -> [ArchRegs -> Phys]]
  /\ reg_file \in [RegTypes ->
                     [Phys -> {"REG_FREE", "REG_ALLOC", "REG_WB", "REG_ARCH"}]]
  /\ reg_counter \in [Threads -> Nat]
  /\ dcra_rf \in [Threads -> [RegTypes -> Int]]
  /\ spec_mode \in [Threads -> BOOLEAN]

(* A physical register is needed for one of two reasons: it is the current *)
(* mapping of an architectural register, or it is the mapping that an      *)
(* instruction still in the ROB has replaced.  No register is shared:      *)
(* whatever renames, commits and rollbacks of the threads interleave, a    *)
(* register is never needed for two reasons, and one that is needed is     *)
(* never on the free list.                                                 *)
NoRegisterShared ==
  \A t, u \in Threads :
    /\ \A a \in ArchRegs :
         /\ StateOf(Mapped(t, a)) # "REG_FREE"
         /\ \A b \in ArchRegs : Mapped(t, a) = Mapped(u, b) => t = u /\ a = b
         /\ \A j \in Writers(u) : Mapped(t, a) # Replaced(u, j)
    /\ \A i \in Writers(t) :
         /\ StateOf(Replaced(t, i)) # "REG_FREE"
         /\ \A j \in Writers(u) : Replaced(t, i) = Replaced(u, j) => t = u /\ i = j

(* No register is lost: one that is not free is needed by some thread, so  *)
(* commit() and rollbackTo() between them give back all that rename took.  *)
NoRegisterLeak ==
  \A ty \in RegTypes, p \in Phys :
    reg_file[ty][p] # "REG_FREE" =>
      \E t \in Threads : \/ \E a \in ArchRegs : Mapped(t, a) = <<ty, p>>
                         \/ \E i \in Writers(t) : Replaced(t, i) = <<ty, p>>

(* The asserts of commit() and writeback() on register states: when an     *)
(* instruction with a destination reaches the ROB head, the register it    *)
(* replaced is REG_ARCH; when it may commit its own is REG_WB; and one     *)
(* that has not finished still has its register in REG_ALLOC.              *)
StateAssertionsHold ==
  \A t \in Threads : \A i \in Writers(t) :
    /\ i = 1 => StateOf(Replaced(t, i)) = "REG_ARCH"
    /\ StateOf(Taken(t, i)) = IF Done(rob[t][i]) THEN "REG_WB" ELSE "REG_ALLOC"

(* The counter that the cap tests, and the two DCRA counters, count        *)
(* exactly the registers the thread's in-flight instructions hold: neither *)
(* commit nor rollback ever lets them drift, so the guards against going   *)
(* below zero never act and the unsigned DCRA counters never wrap.         *)
CountersExact ==
  \A t \in Threads :
    /\ reg_counter[t] = Cardinality(InFlight(t))
    /\ \A ty \in RegTypes : dcra_rf[t][ty] = Cardinality(InFlightOf(t, ty))

(* The cap: no thread holds more than RENAME_REG_LIMIT registers for       *)
(* instructions in flight.                                                 *)
CapRespected == \A t \in Threads : Cardinality(InFlight(t)) <= Limit

(* The rename table of a thread maps each register to what its youngest    *)
(* writer in the ROB took, and each writer remembers what the writer       *)
(* before it took: this is what makes the walk of rollbackTo() restore     *)
(* the map as it was when the branch was renamed.                          *)
RenameMapChain ==
  \A t \in Threads : \A i \in Writers(t) :
    LET later == {j \in Writers(t) : j > i /\ rob[t][j].archreg = rob[t][i].archreg}
    IN /\ later = {} => Mapped(t, rob[t][i].archreg) = Taken(t, i)
       /\ \A j \in later :
            (\A k \in later : j <= k) => Replaced(t, j) = Taken(t, i)

(***************************************************************************)
(* The inductive invariant behind the register properties.  A register in  *)
(* flight is held by one entry and its state follows that entry; the       *)
(* mapping of a as an instruction at position n of the ROB sees it is what *)
(* the youngest older writer of a took, or architectural when there is     *)
(* none.                                                                   *)
(***************************************************************************)
EntriesOK ==
  \A t \in Threads : \A i \in Writers(t) :
    /\ rob[t][i].dest_format = TypeOf(rob[t][i].archreg)
    /\ rob[t][i].old_physreg \in Phys
    /\ StateOf(Taken(t, i)) = IF Done(rob[t][i]) THEN "REG_WB" ELSE "REG_ALLOC"

TakenOnce ==
  \A t, u \in Threads : \A i \in Writers(t), j \in Writers(u) :
    Taken(t, i) = Taken(u, j) => t = u /\ i = j

WritersBefore(t, a, n) == {i \in Writers(t) : i < n /\ rob[t][i].archreg = a}

SeenAt(t, a, n, p) ==
  IF WritersBefore(t, a, n) = {}
  THEN reg_file[TypeOf(a)][p] = "REG_ARCH"
  ELSE \E i \in WritersBefore(t, a, n) :
         /\ \A j \in WritersBefore(t, a, n) : j <= i
         /\ rob[t][i].physreg = p

MapHistory ==
  \A t \in Threads :
    /\ \A i \in Writers(t) :
         SeenAt(t, rob[t][i].archreg, i, rob[t][i].old_physreg)
    /\ \A a \in ArchRegs : SeenAt(t, a, Len(rob[t]) + 1, rename_table[t][a])

RegisterInv ==
  /\ TypeOK
  /\ EntriesOK
  /\ TakenOnce
  /\ MapHistory
  /\ NoRegisterShared
  /\ NoRegisterLeak
  /\ CountersExact

(* A thread is in spec mode exactly while one unfinished mispredicted      *)
(* instruction is in its ROB, and the wrong-path entries are exactly the   *)
(* ones younger than it: no second recovery can start, and the recovery    *)
(* squashes everything that was renamed on the wrong path and nothing else.*)
RecoveryOwner ==
  \A t \in Threads :
    LET recovering == {i \in DOMAIN rob[t] : rob[t][i].recover_inst
                                             /\ ~rob[t][i].completed}
    IN /\ Cardinality(recovering) = IF spec_mode[t] THEN 1 ELSE 0
       /\ \A j \in DOMAIN rob[t] :
            rob[t][j].spec_mode <=> \E i \in recovering : i < j

(* A trap enters an empty ROB and stays at its head: a system call never   *)
(* runs on a wrong path and is never squashed.                             *)
TrapAtHead ==
  \A t \in Threads : \A i \in DOMAIN rob[t] :
    IsTrap(rob[t][i].op) => i = 1 /\ ~rob[t][i].spec_mode

(* Speculation has one owner, ends with it, and never reaches the system.  *)
SpeculationInv == RecoveryOwner /\ TrapAtHead

(* What the cap buys: however the other threads behave, a thread is only   *)
(* refused a register of a type while it already holds its share, what the *)
(* register file has left when every other thread is at its cap.           *)
Share == NumPhys - Cardinality(Threads) * NumArch - (Cardinality(Threads) - 1) * Limit

FairShare ==
  \A t \in Threads, ty \in RegTypes :
    Free(ty) = {} => Cardinality(InFlightOf(t, ty)) >= Share

(* A thread that has reached the cap gets below it again: its in-flight    *)
(* instructions commit or are squashed, and each gives its count back.     *)
CapStallEnds ==
  \A t \in Threads : reg_counter[t] >= Limit ~> reg_counter[t] < Limit

(* A fetched instruction does not wait for ever: with a share of at least  *)
(* one register the cap keeps the other threads from starving this one.    *)
FetchedIsRenamed ==
  \A t \in Threads : Len(ifq[t]) = IfqSize ~> Len(ifq[t]) < IfqSize

=============================================================================
