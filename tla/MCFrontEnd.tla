----------------------------- MODULE MCFrontEnd -----------------------------
(* Small programs for FrontEnd: a loop over a conditional branch, a call   *)
(* through a register to one of two functions, and their returns; and a    *)
(* loop whose wrong path writes registers and memory.                      *)
EXTENDS FrontEnd

Inst(op, targets)   == [op |-> op, targets |-> targets, does |-> Nothing]
Does(do, to, from)  == [op |-> "op", targets |-> {}, does |-> Effect(do, to, from)]

Calls == << Inst("cond", {3}), Inst("icall", {4, 5}), Inst("jump", {1}),
            Inst("ret", {3}), Inst("trap", {}), Inst("ret", {3}) >>

Stores == << Inst("cond", {5}), Does("add", "r31", "r1"), Does("store", "r0", "r1"),
             Does("load", "r0", "r1"), Does("store", "r1", "r31"), Does("add", "r1", "r1"),
             Does("add", "r0", "r31"), [Inst("trap", {}) EXCEPT !.does = Effect("add", "r0", "r0")],
             Inst("jump", {1}) >>

(* Every stage that can update the bimodal predictor, and every predictor. *)
With(predictor, stage, size, code) ==
  [kind |-> predictor, spec_update |-> stage, rob_size |-> size, program |-> code]
MCOptions ==
  {With("bimod", stage, 2, Calls) : stage \in {"spec_ID", "spec_WB", "spec_CT"}}
  \cup {With(predictor, "spec_ID", 2, Calls) : predictor \in {"2lev", "comb", "taken", "nottaken"}}
  \cup {With("nottaken", "spec_ID", 4, Stores)}

=============================================================================
