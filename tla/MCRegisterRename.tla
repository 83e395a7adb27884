-------------------------- MODULE MCRegisterRename --------------------------
(* Finite instances of RegisterRename: the rename tables that addcontext() *)
(* sets up, thread t owning the t-th block of NumArch registers, and the   *)
(* instructions of each run.                                               *)
EXTENDS ArchRefinement

MCInitMap == [t \in Threads |-> [a \in ArchRegs |-> t * NumArch + (a % NumArch)]]

I(op, a, p) == [op |-> op, out1 |-> a, pred |-> p]

(* With two registers of each type, 1 is an integer register, 3 a floating *)
(* point one, 0 and 2 are the zero registers.                              *)
MCWindowInsts == {I("alu", 1, "right"), I("fload", 3, "right"),
                  I("store", 0, "right"), I("store_c", 1, "right"),
                  I("jump", 1, "wrong"), I("jump", 1, "misfetch"),
                  I("trap", 0, "wrong"), I("nop", 0, "right")}

MCSharedInsts == {I("alu", 1, "right"), I("jump", 1, "wrong")}

=============================================================================
