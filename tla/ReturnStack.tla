----------------------------- MODULE ReturnStack -----------------------------
(***************************************************************************)
(* The return address stack of a predictor, retstack.c: a ring of targets  *)
(* that overwrites its oldest entry when it is full.  A predictor without  *)
(* a stack has size 0.                                                     *)
(***************************************************************************)
EXTENDS Naturals

Stacks(size, targets) ==
  [size : {size}, tos : 0 .. size, stack : [0 .. size - 1 -> targets]]

(* Without a stack tos is size - 1 of an unsigned number, and never used.  *)
NewStack(size) ==
  [size |-> size, tos |-> IF size = 0 THEN 0 ELSE size - 1,
   stack |-> [i \in 0 .. size - 1 |-> 0]]

TOS(s) == IF s.size = 0 THEN 0 ELSE s.tos

Recovered(s, idx) == [s EXCEPT !.tos = idx]

Cleared(s) == [s EXCEPT !.tos = 0, !.stack = [i \in 0 .. s.size - 1 |-> 0]]

(* What a return is predicted to return to.                                *)
Top(s) == s.stack[s.tos]

Popped(s) == [s EXCEPT !.tos = (@ + s.size - 1) % s.size]

Pushed(s, return) ==
  LET top == (s.tos + 1) % s.size
  IN [s EXCEPT !.tos = top, !.stack[top] = return]

=============================================================================
