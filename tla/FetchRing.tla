------------------------------ MODULE FetchRing ------------------------------
(***************************************************************************)
(* The queue between fetch() and register_rename(): an array with head,    *)
(* tail and number, advanced by & (size - 1).  The size is the product of  *)
(* two options, of which sim_check_options() tests only one for a power of *)
(* two; IfqAssumption is what the ring needs of the product.               *)
(***************************************************************************)
EXTENDS Naturals, Sequences

CONSTANT IfqSize

ASSUME IfqAssumption == IfqSize \in {1, 2, 4, 8, 16, 32, 64}

Vacant  == "vacant"

NewRing == [slots |-> [i \in 0 .. IfqSize - 1 |-> Vacant], head |-> 0, tail |-> 0, num |-> 0]

Full(r)  == r.num = IfqSize

Oldest(r) == r.slots[r.head]

(* i & (size - 1), for a power of two.                                     *)
Wrap(i) == i % IfqSize

(* Seeded fault: the tail stays.                                           *)
Enqueued_TailStays(r, x) ==
  [r EXCEPT !.slots[r.tail] = x, !.tail = IF r.num = IfqSize - 1 THEN @ ELSE Wrap(@ + 1),
            !.num = @ + 1]

Enqueued(r, x) ==
  [r EXCEPT !.slots[r.tail] = x, !.tail = Wrap(@ + 1), !.num = @ + 1]

(* The code leaves what a slot held; nothing reads it before it is         *)
(* written again, so it is forgotten here.                                 *)
Dequeued(r) ==
  [r EXCEPT !.slots[r.head] = Vacant, !.head = Wrap(@ + 1), !.num = @ - 1]

(* The loops that drain the queue slot by slot leave the head at the tail. *)
Drained(r) ==
  [r EXCEPT !.slots = [i \in DOMAIN @ |-> Vacant], !.head = Wrap(@ + r.num), !.num = 0]

(* The contents, from head on.                                             *)
Contents(r) == [i \in 1 .. r.num |-> r.slots[Wrap(r.head + i - 1)]]

=============================================================================
