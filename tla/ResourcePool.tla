---------------------------- MODULE ResourcePool ----------------------------
(***************************************************************************)
(* The functional units of a core, resource.c: busy is a sequence of the   *)
(* cycles each unit is still taken, in the order of the table.             *)
(***************************************************************************)
EXTENDS Naturals, Sequences

CONSTANTS
  Units,         (* a sequence: the classes of operations of each unit     *)
  IssueLat       (* issuelat                                               *)

ASSUME UnitsAssumption == Len(Units) > 0 /\ IssueLat \in Nat \ {0}

NewPool == [u \in DOMAIN Units |-> 0]

Candidates(busy, rclass) == {u \in DOMAIN Units : rclass \in Units[u] /\ busy[u] = 0}

(* res_get(): the first unit of the class that is not busy, or 0.          *)
res_get(busy, rclass) ==
  IF Candidates(busy, rclass) = {} THEN 0
  ELSE CHOOSE u \in Candidates(busy, rclass) : \A v \in Candidates(busy, rclass) : u <= v

Reserved(busy, u) == [busy EXCEPT ![u] = IssueLat]

(* update_fu()                                                             *)
Released(busy) == [u \in DOMAIN busy |-> IF busy[u] > 0 THEN busy[u] - 1 ELSE 0]

=============================================================================
