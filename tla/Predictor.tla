------------------------------ MODULE Predictor ------------------------------
(***************************************************************************)
(* bpred_lookup() and bpred_update() of the predictors in bpred_*.c: the   *)
(* return stack, the target buffer and the direction tables together.  A   *)
(* predictor is a record of the three.  Statistics are left out.           *)
(***************************************************************************)
EXTENDS ReturnStack, TargetBuffer, DirectionTables

CONSTANT RasSize

ASSUME RasAssumption == RasSize \in {0} \cup PowersOfTwo

Kinds == Dynamic \cup {"taken", "nottaken"}

(* Classes of instructions, by the flags that the predictors test.         *)
IsCtrl(op)     == op \in {"cond", "jump", "call", "icall", "ijump", "ret"}
IsCond(op)     == op = "cond"
IsDirect(op)   == op \in {"cond", "jump", "call"}       (* F_DIRJMP       *)
IsIndirect(op) == op \in {"icall", "ijump", "ret"}      (* MD_IS_INDIR    *)
IsCall(op)     == op \in {"call", "icall"}
IsReturn(op)   == op = "ret"

(* No prediction, and the address that stands for a taken branch of        *)
(* unknown target.                                                         *)
NotTaken == 0
Unknown  == 0 - 1

NewPredictor(kind) ==
  [tables |-> NewTables, btb |-> NewBtb,
   ras |-> NewStack(IF kind \in Dynamic THEN RasSize ELSE 0)]

HasStack(p) == p.ras.size # 0

UsesStack(kind, p, op) == kind \in Dynamic /\ IsReturn(op) /\ HasStack(p)

(* Seeded fault: a call looks up the stack after its push.                 *)
RecoverIndex_AfterPush(p, op) ==
  IF IsCall(op) /\ HasStack(p) THEN (TOS(p.ras) + 1) % RasSize ELSE TOS(p.ras)

(* *stack_recover_idx: the top before the instruction's own push or pop.   *)
RecoverIndex(p, op) == TOS(p.ras)

(* What bpred_lookup() returns: an address, NotTaken or Unknown.           *)
Target(p, pc) == IF Found(p.btb, pc) = {} THEN Unknown
                 ELSE CHOOSE a \in Found(p.btb, pc) : TRUE

Predicted(kind, p, pc, op, dir) ==
  CASE ~IsCtrl(op)           -> NotTaken
    [] kind = "taken"        -> NotTaken        (* fetch() passes target 0 *)
    [] kind = "nottaken"     -> IF IsCond(op) THEN pc + 1 ELSE NotTaken
    [] UsesStack(kind, p, op) -> Top(p.ras)
    [] IsCond(op) /\ kind \in Dynamic /\ ~UsesStack(kind, p, op) ->
         IF PredictsTaken(p.tables, dir) THEN Target(p, pc) ELSE NotTaken
    [] OTHER                 -> Target(p, pc)

DirUpdate(kind, p, pc, op) ==
  [dir |-> IF kind \in Dynamic /\ IsCond(op) THEN Direction(kind, p.tables, pc)
           ELSE NoDirection,
   ras |-> UsesStack(kind, p, op)]

(* The lookup itself moves the return stack, on whatever path it is.       *)
LookedUp(kind, p, pc, op) ==
  IF kind \notin Dynamic \/ ~HasStack(p) THEN p
  ELSE CASE IsReturn(op) -> [p EXCEPT !.ras = Popped(@)]
         [] IsCall(op)   -> [p EXCEPT !.ras = Pushed(@, pc + 1)]
         [] OTHER        -> p

(* bpred_update() of a branch that went to next where pred was predicted.  *)
(* An indirect jump that took its target from the stack teaches nothing.   *)
Updated(kind, p, pc, op, next, pred, upd) ==
  LET taken == next # pc + 1
  IN IF \/ ~IsCtrl(op)
        \/ kind \notin Dynamic
        \/ IsIndirect(op) /\ upd.ras
     THEN p
     ELSE [p EXCEPT !.tables = Learned(kind, @, pc, IsCond(op), upd.dir, taken),
                    !.btb    = Entered(@, pc, taken, pred = next, next)]

=============================================================================
