---------------------------- MODULE TargetBuffer ----------------------------
(***************************************************************************)
(* The branch target buffer, btb.c, as it is built: each set keeps its     *)
(* ways on a doubly linked list from the most to the least recently used.  *)
(* A way is a record; prev and next are ways of the same set or NoWay.     *)
(***************************************************************************)
EXTENDS Integers, FiniteSets

CONSTANTS BtbSets, BtbAssoc

ASSUME BtbAssumption == /\ BtbSets \in {1, 2, 4, 8, 16}
                        /\ BtbAssoc \in {1, 2, 4, 8, 16}

Ways  == 0 .. BtbAssoc - 1
NoWay == BtbAssoc
SetOf(pc) == pc % BtbSets

(* The list that the constructor builds: way 0 first.                      *)
NewBtb ==
  [s \in 0 .. BtbSets - 1 |->
     [w \in Ways |-> [addr |-> 0, target |-> 0,
                      prev |-> IF w = 0 THEN NoWay ELSE w - 1,
                      next |-> IF w = BtbAssoc - 1 THEN NoWay ELSE w + 1]]]

Hits(btb, pc) == {w \in Ways : btb[SetOf(pc)][w].addr = pc}

(* find_pbtb(): the target of pc, or none.                                 *)
Found(btb, pc) == {btb[SetOf(pc)][w].target : w \in Hits(btb, pc)}

(* The ends of the list of a set.                                          *)
Heads(set) == {w \in Ways : set[w].prev = NoWay}
Tails(set) == {w \in Ways : set[w].next = NoWay}

(* The asserts that the walk over a set makes.                             *)
WalkAsserts(btb, pc) ==
  LET set == btb[SetOf(pc)]
  IN BtbAssoc > 1 => /\ Cardinality(Hits(btb, pc)) <= 1
                     /\ \A w \in Ways : set[w].prev # set[w].next
                     /\ Cardinality(Heads(set)) = 1
                     /\ Cardinality(Tails(set)) = 1

(* Seeded fault: the spliced way keeps its old predecessor.                *)
MovedToFront_KeepsPrev(set, w) ==
  LET head == CHOOSE h \in Ways : h \in Heads(set)
  IN IF w = head THEN set
     ELSE [v \in Ways |->
             [set[v] EXCEPT
                !.next = IF v = w THEN head ELSE IF v = set[w].prev THEN set[w].next ELSE @,
                !.prev = IF v = head THEN w ELSE IF v = set[w].next THEN set[w].prev ELSE @]]

(* The way that was used becomes the head: it is spliced out, and put      *)
(* before the head.                                                        *)
MovedToFront(set, w) ==
  LET head == CHOOSE h \in Ways : h \in Heads(set)
  IN IF w = head THEN set
     ELSE [v \in Ways |->
             [set[v] EXCEPT
                !.next = IF v = w THEN head ELSE IF v = set[w].prev THEN set[w].next ELSE @,
                !.prev = IF v = w THEN NoWay
                         ELSE IF v = head THEN w
                         ELSE IF v = set[w].next THEN set[w].prev ELSE @]]

(* update_pbtb(): the matching way, else the least recently used.          *)
Victim(btb, pc) ==
  IF BtbAssoc = 1 THEN 0
  ELSE IF Hits(btb, pc) # {} THEN CHOOSE w \in Ways : w \in Hits(btb, pc)
  ELSE CHOOSE w \in Ways : w \in Tails(btb[SetOf(pc)])

Allocates(taken) == taken

(* update_pbtb() and update(), for a branch that went to target.           *)
Entered(btb, pc, taken, correct, target) ==
  LET w    == Victim(btb, pc)
      set  == MovedToFront(btb[SetOf(pc)], w)
      keep == set[w].addr = pc /\ correct
  IN IF ~Allocates(taken) THEN btb
     ELSE [btb EXCEPT ![SetOf(pc)] =
             IF keep THEN set
             ELSE [set EXCEPT ![w].addr = pc, ![w].target = target]]

=============================================================================
