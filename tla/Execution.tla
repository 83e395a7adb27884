------------------------------ MODULE Execution ------------------------------
(***************************************************************************)
(* Functional execution at rename, also down a wrong path: what an         *)
(* instruction does to the registers and the memory of its thread, what    *)
(* its ROB entry keeps from before, and how that is put back.  One file    *)
(* stands for the integer and the floating point registers; a value is     *)
(* also an address.                                                        *)
(***************************************************************************)
EXTENDS Naturals, Sequences

CONSTANTS Regs, Zero, Size      (* registers, the one that reads 0, values *)

(* No register: the index that a zero register's destination has.          *)
NoIndex == "no index"

ASSUME RegsAssumption == Zero \in Regs /\ NoIndex \notin Regs /\ Size \in Nat \ {0}

Values   == 0 .. Size - 1
Machines == [reg : [Regs -> Values], mem : [Values -> Values]]
Fresh    == [reg |-> [r \in Regs |-> 0], mem |-> [a \in Values |-> 0]]

(* What an instruction does: nothing to the state, to := from + 1,         *)
(* to := mem[from], or mem[to] := from.                                    *)
Effect(do, to, from) == [do |-> do, to |-> to, from |-> from]
Nothing  == Effect("nothing", Zero, Zero)
Effects  == [do : {"nothing", "add", "load", "store"}, to : Regs, from : Regs]

(* $r31 is set to zero before each instruction, not kept from being        *)
(* written.                                                                *)
Zeroed(m) == [m EXCEPT !.reg[Zero] = 0]

Executed(m, does) ==
  LET z == Zeroed(m)
      value == z.reg[does.from]
  IN CASE does.do = "add"   -> [z EXCEPT !.reg[does.to] = (value + 1) % Size]
       [] does.do = "load"  -> [z EXCEPT !.reg[does.to] = z.mem[value]]
       [] does.do = "store" -> [z EXCEPT !.mem[z.reg[does.to]] = value]
       [] OTHER             -> z

(* The destination is kept by its index, no index for the zero register;   *)
(* for a store, the data at its address.                                   *)
Kept(m, does) ==
  [regs_index   |-> IF does.do \in {"add", "load"} /\ does.to # Zero THEN does.to ELSE NoIndex,
   regs_R       |-> m.reg[does.to],
   is_store     |-> does.do = "store",
   addr         |-> m.reg[does.to],
   previous_mem |-> m.mem[m.reg[does.to]]]

Saved(m, does) == Kept(Zeroed(m), does)

(* One entry undone, and all of a sequence, youngest first.                *)
Undone(kept, m) ==
  [reg |-> IF kept.regs_index = NoIndex THEN m.reg
           ELSE [m.reg EXCEPT ![kept.regs_index] = kept.regs_R],
   mem |-> IF kept.is_store THEN [m.mem EXCEPT ![kept.addr] = kept.previous_mem] ELSE m.mem]

AllUndone(m, keeps) ==
  LET undone[n \in 0 .. Len(keeps)] ==     \* the n youngest
        IF n = 0 THEN m ELSE Undone(keeps[Len(keeps) - n + 1], undone[n - 1])
  IN undone[Len(keeps)]
=============================================================================
