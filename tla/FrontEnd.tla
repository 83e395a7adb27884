------------------------------- MODULE FrontEnd -------------------------------
(***************************************************************************)
(* One thread from fetch to commit, as far as control flow goes: fetch()   *)
(* follows the predictor into the fetch queue, register_rename() executes  *)
(* what it takes from there and notices that the path was wrong,           *)
(* writeback() recovers.  The predictor is updated at rename, writeback or *)
(* commit, an option.  Instructions come from a small program; where a     *)
(* conditional branch, an indirect jump or a return goes is free, what     *)
(* they do to registers and memory is not.                                 *)
(***************************************************************************)
EXTENDS Predictor, FetchRing, Execution, Functions

CONSTANTS
  Entry,         (* the first instruction of a program                     *)
  Options        (* the predictor, the stage that updates it, the size of  *)
                 (* the ROB, and the program: <<[op, targets, does]>>,     *)
                 (* where each instruction may go and what it does         *)

ASSUME ProgramAssumption ==
  /\ Options # {}
  /\ \A o \in Options :
       /\ o.kind \in Kinds /\ o.spec_update \in {"spec_ID", "spec_WB", "spec_CT"}
       /\ o.rob_size \in Nat \ {0}
       /\ o.program \in Seq([op : STRING, targets : SUBSET Nat, does : Effects])
       /\ Entry \in DOMAIN o.program
       /\ \A pc \in DOMAIN o.program : o.program[pc].targets \subseteq DOMAIN o.program

VARIABLES
  option,              (* the predictor, its stage, the ROB, the program   *)
  pred,                (* the predictor                                    *)
  ifq,                 (* the fetch queue                                  *)
  fetch_pred_PC,       (* where fetch goes on                              *)
  rob,                 (* renamed instructions, oldest first               *)
  spec_mode,           (* renaming down a wrong path                       *)
  machine,             (* the registers and the memory of the thread       *)
  right_PC,            (* history: where the right path goes on            *)
  right_tos,           (* history: the stack top that it alone produces    *)
  right_machine        (* history: the state that it alone produces        *)

history == <<right_PC, right_tos, right_machine>>
vars == <<option, pred, ifq, fetch_pred_PC, rob, spec_mode, machine, history>>

kind        == option.kind
spec_update == option.spec_update
RobSize     == option.rob_size
Program     == option.program

(* Outside the text fetch() sends nops, and goes on to send them.          *)
InText(pc) == pc \in DOMAIN Program
OpAt(pc)   == IF InText(pc) THEN Program[pc].op ELSE "op"
Next4(pc)  == IF InText(pc) THEN pc + 1 ELSE pc
DoesAt(pc) == IF InText(pc) THEN Program[pc].does ELSE Nothing
Addresses  == DOMAIN Program \cup {Len(Program) + 1, Unknown}

(* Where the instruction goes when register_rename() executes it.          *)
Outcomes(pc) ==
  CASE ~IsCtrl(OpAt(pc)) -> {Next4(pc)}
    [] IsCond(OpAt(pc))  -> Program[pc].targets \cup {Next4(pc)}
    [] OTHER             -> Program[pc].targets

Init ==
  /\ option \in Options
  /\ pred = NewPredictor(kind)
  /\ ifq = NewRing
  /\ fetch_pred_PC = Entry
  /\ rob = <<>>
  /\ spec_mode = FALSE
  /\ machine = Fresh
  /\ right_PC = Entry
  /\ right_tos = TOS(NewPredictor(kind).ras)
  /\ right_machine = Fresh

-----------------------------------------------------------------------------
(* fetch(), for one instruction.                                           *)
Fetch ==
  LET pc     == fetch_pred_PC
      op     == OpAt(pc)
      upd    == DirUpdate(kind, pred, pc, op)
      target == Predicted(kind, pred, pc, op, upd.dir)
      goes   == IF target = NotTaken THEN Next4(pc) ELSE target
  IN /\ ~Full(ifq)
     /\ pred' = LookedUp(kind, pred, pc, op)
     /\ fetch_pred_PC' = goes
     /\ ifq' = Enqueued(ifq, [pc |-> pc, pred_PC |-> goes, dir_update |-> upd,
                              stack_recover_idx |-> RecoverIndex(pred, op)])
     /\ UNCHANGED <<option, rob, spec_mode, machine, history>>

-----------------------------------------------------------------------------
(* register_rename(), for the oldest instruction of the queue.             *)

(* A direct jump that was predicted taken to a wrong target redirects      *)
(* fetch at once.                                                          *)
Redirected(inst, npc) ==
  /\ IsDirect(OpAt(inst.pc))
  /\ inst.pred_PC # Next4(inst.pc)
  /\ inst.pred_PC \notin Program[inst.pc].targets

(* Seeded fault: a wrong prediction counts only for conditional branches.  *)
Mispredicted_Cond(inst, npc) == inst.pred_PC # npc /\ IsCond(OpAt(inst.pc))

Mispredicted(inst, npc) == inst.pred_PC # npc

(* Seeded fault: only conditional branches are marked to recover.          *)
RecoverInst_Cond(inst, npc) == ~spec_mode /\ Mispredicted(inst, npc) /\ IsCond(OpAt(inst.pc))

(* The first mispredicted branch starts the wrong path, and ends it.       *)
RecoverInst(inst, npc) == ~spec_mode /\ Mispredicted(inst, npc)

(* What the right path alone does to the stack.  A call or return that was *)
(* mispredicted is taken back with the rest.                               *)
RightTos(inst, npc) ==
  LET op == OpAt(inst.pc)
  IN IF ~HasStack(pred) \/ inst.pred_PC # npc THEN right_tos
     ELSE CASE IsReturn(op) -> (right_tos + RasSize - 1) % RasSize
            [] IsCall(op)   -> (right_tos + 1) % RasSize
            [] OTHER        -> right_tos

UpdatesAt(stage, op) == spec_update = stage /\ IsCtrl(op)

UpdatedBy(p, e) == Updated(kind, p, e.pc, OpAt(e.pc), e.next_PC, e.pred_PC, e.dir_update)

Renamed(inst, npc) ==
  [pc |-> inst.pc, pred_PC |-> inst.pred_PC, next_PC |-> npc,
   dir_update |-> inst.dir_update, stack_recover_idx |-> inst.stack_recover_idx,
   recover_inst |-> RecoverInst(inst, npc), completed |-> FALSE,
   kept |-> Saved(machine, DoesAt(inst.pc))]

MayRename(inst) ==
  /\ ifq.num > 0
  /\ Len(rob) < RobSize
  /\ OpAt(inst.pc) = "trap" => rob = <<>>

Rename ==
  LET inst == Oldest(ifq)
  IN /\ ifq.num > 0
     /\ MayRename(inst)
     /\ \E npc \in Outcomes(inst.pc) :
          LET e == Renamed(inst, npc)
          IN /\ rob' = Append(rob, e)
             /\ ifq' = IF Redirected(inst, npc) THEN Drained(ifq) ELSE Dequeued(ifq)
             /\ fetch_pred_PC' = IF Redirected(inst, npc) THEN npc ELSE fetch_pred_PC
             /\ pred' = IF ~spec_mode /\ UpdatesAt("spec_ID", OpAt(e.pc))
                        THEN UpdatedBy(pred, e) ELSE pred
             /\ spec_mode' = (spec_mode \/ Mispredicted(inst, npc))
             /\ right_PC' = IF spec_mode THEN right_PC ELSE npc
             /\ right_tos' = IF spec_mode THEN right_tos ELSE RightTos(inst, npc)
     /\ machine' = Executed(machine, DoesAt(inst.pc))
     /\ right_machine' = IF spec_mode THEN right_machine
                         ELSE Executed(right_machine, DoesAt(inst.pc))
     /\ UNCHANGED option

(* A trap that is an execve: the return stack is cleared, the fetch queue  *)
(* drained, and fetch starts in the new program with new registers and     *)
(* memory.                                                                 *)
Execve ==
  LET inst == Oldest(ifq)
  IN /\ ifq.num > 0
     /\ MayRename(inst)
     /\ OpAt(inst.pc) = "trap"
     /\ pred' = [pred EXCEPT !.ras = Cleared(@)]
     /\ ifq' = Drained(ifq)
     /\ fetch_pred_PC' = Entry
     /\ right_PC' = Entry
     /\ right_tos' = 0
     /\ machine' = Fresh
     /\ right_machine' = Fresh
     /\ UNCHANGED <<option, rob, spec_mode>>

-----------------------------------------------------------------------------
(* rollbackTo(), as writeback() calls it: what is younger than entry i and *)
(* what was fetched is dropped, what the dropped entries did is undone,    *)
(* the return stack goes back to the index that the instruction recorded,  *)
(* and fetch to its true successor.                                        *)
Rollback(i) ==
  /\ rob' = [SubSeq(rob, 1, i) EXCEPT ![i].completed = TRUE]
  /\ ifq' = Drained(ifq)
  /\ fetch_pred_PC' = rob[i].next_PC
  /\ spec_mode' = FALSE
  /\ LET younger == SubSeq(rob, i + 1, Len(rob))
     IN machine' = AllUndone(machine, [k \in DOMAIN younger |-> younger[k].kept])

Finish(i) ==
  /\ rob' = [rob EXCEPT ![i].completed = TRUE]
  /\ UNCHANGED <<ifq, fetch_pred_PC, spec_mode, machine>>

Recovers(p, e) ==
  IF e.recover_inst THEN [p EXCEPT !.ras = Recovered(@, e.stack_recover_idx)] ELSE p

(* writeback(), for entry i.  Any entry may finish next, also one of the   *)
(* wrong path, and then updates the predictor under spec_WB.               *)
Writeback(i) ==
  /\ i \in DOMAIN rob
  /\ ~rob[i].completed
  /\ IF rob[i].recover_inst THEN Rollback(i) ELSE Finish(i)
  /\ LET p == Recovers(pred, rob[i])
     IN pred' = IF UpdatesAt("spec_WB", OpAt(rob[i].pc)) THEN UpdatedBy(p, rob[i]) ELSE p
  /\ UNCHANGED <<option, history>>

(* commit(), for the oldest entry.                                         *)
Commit ==
  /\ rob # <<>>
  /\ Head(rob).completed
  /\ rob' = Tail(rob)
  /\ pred' = IF UpdatesAt("spec_CT", OpAt(Head(rob).pc)) THEN UpdatedBy(pred, Head(rob))
             ELSE pred
  /\ UNCHANGED <<option, ifq, fetch_pred_PC, spec_mode, machine, history>>

-----------------------------------------------------------------------------
Next ==
  \/ Fetch
  \/ Rename
  \/ Execve
  \/ \E i \in DOMAIN rob : Writeback(i)
  \/ Commit

Spec == Init /\ [][Next]_vars

(* Every stage runs in every cycle, and every operation finishes.          *)
MaxRob == CHOOSE n \in {o.rob_size : o \in Options} : \A o \in Options : o.rob_size <= n
Fairness == /\ WF_vars(Fetch) /\ WF_vars(Rename) /\ WF_vars(Commit)
            /\ \A i \in 1 .. MaxRob : WF_vars(Writeback(i))

FairSpec == Spec /\ Fairness

-----------------------------------------------------------------------------
(***************************************************************************)
(* Properties                                                              *)
(***************************************************************************)

(* The type invariant.                                                     *)
FrontEndTypeOK ==
  /\ fetch_pred_PC \in Addresses
  /\ ifq.num \in 0 .. IfqSize /\ Len(rob) <= RobSize
  /\ machine \in Machines
  /\ pred.ras \in Stacks(pred.ras.size, Addresses \cup {0})
  /\ \A table \in {pred.tables.bimod, pred.tables.meta, pred.tables.l2} :
       Range(table) \subseteq 0 .. 3

(* While the thread is not known to be on a wrong path, the instruction    *)
(* that is renamed next is the one where the last one went: queue,         *)
(* redirect, drain and recovery together keep fetch on the program.        *)
(* Source: register_rename() and rollbackTo().                             *)
PathIsProgram ==
  ~spec_mode => right_PC = IF ifq.num = 0 THEN fetch_pred_PC ELSE Oldest(ifq).pc

(* The same for the return stack: the index with which an instruction of   *)
(* the right path would recover, and the top once nothing is in flight, is *)
(* what the right path alone has pushed and popped, whatever wrong paths   *)
(* did to the stack in between.                                            *)
(* Source: the comment of retstack_t::recover().                           *)
StackFollowsRightPath ==
  ~spec_mode =>
    right_tos = IF ifq.num = 0 THEN TOS(pred.ras) ELSE Oldest(ifq).stack_recover_idx

(* Registers and memory, too, are what the right path alone makes of them, *)
(* whatever instructions of wrong paths have stored where, to the same     *)
(* registers and addresses, before the recovery put everything back.       *)
(* Source: the copies that register_rename() keeps "for rollback".         *)
StateFollowsRightPath == ~spec_mode => Zeroed(machine) = Zeroed(right_machine)

(* Recovery is exact: a wrong path leaves nothing behind, in the return    *)
(* stack, the registers or the memory.                                     *)
RecoveryIsExact == StackFollowsRightPath /\ StateFollowsRightPath

(* A trap that may be renamed is not on a wrong path: the panic of the     *)
(* SYSCALL macro, which is kept away by draining the ROB alone.            *)
NoSpeculativeSyscall ==
  ifq.num > 0 /\ OpAt(Oldest(ifq).pc) = "trap" /\ MayRename(Oldest(ifq)) => ~spec_mode

(* The asserts of btb_t::update_pbtb(), whichever branch is updated next;  *)
(* and prev and next stay inverse to each other.                           *)
BtbWellFormed ==
  /\ \A pc \in DOMAIN Program : WalkAsserts(pred.btb, pc)
  /\ \A s \in DOMAIN pred.btb : \A v, w \in Ways :
       pred.btb[s][v].next = w <=> pred.btb[s][w].prev = v

(* The buffer never learns a target that its branch does not have, also    *)
(* when branches of wrong paths are updated, in any order, after others    *)
(* have taken their entries.  Source: btb_t::update().                     *)
BtbTargetsReal ==
  \A s \in DOMAIN pred.btb : \A w \in Ways :
    LET e == pred.btb[s][w]
    IN e.addr # 0 => IsCtrl(OpAt(e.addr)) /\ e.target \in Program[e.addr].targets

(* The tables of the predictor and the BTB keep their form, and only true  *)
(* targets, whatever wrong paths do; and no wrong path calls the system.   *)
FrontEndInv == /\ FrontEndTypeOK /\ BtbWellFormed /\ BtbTargetsReal
               /\ NoSpeculativeSyscall

(* The ring with its head, tail and count is a queue that loses, repeats   *)
(* and reorders nothing until it is drained.                               *)
(* Source: fetch() and the ends of register_rename().                      *)
Queue == INSTANCE Fifo WITH queue <- Contents(ifq), Capacity <- IfqSize

RingIsQueue == Queue!Spec

(* A wrong path ends.  Source: recover_inst, writeback().                  *)
WrongPathEnds == spec_mode ~> ~spec_mode

=============================================================================
