------------------------------- MODULE WayList -------------------------------
(***************************************************************************)
(* The ordered way chain of a cache set, cache.c: a doubly linked list of  *)
(* its blocks from way_head to way_tail, the next victim.                  *)
(***************************************************************************)
EXTENDS Integers, FiniteSets, SequencesExt

NULL == -1

(* The constructor puts each block before the head.                        *)
NewLinks(assoc) ==
  [head |-> assoc - 1, tail |-> 0,
   next |-> [w \in 0 .. assoc - 1 |-> w - 1],
   prev |-> [w \in 0 .. assoc - 1 |-> IF w = assoc - 1 THEN NULL ELSE w + 1]]

LinkOf(f, w, to) == IF w = NULL THEN f ELSE [f EXCEPT ![w] = to]

(* Seeded fault: a block from the middle leaves its successor behind.      *)
Unlinked_OneSided(l, w) ==
  [l EXCEPT !.head = IF l.prev[w] = NULL THEN l.next[w] ELSE @,
            !.tail = IF l.next[w] = NULL THEN l.prev[w] ELSE @,
            !.next = LinkOf(@, l.prev[w], l.next[w])]

Unlinked(l, w) ==
  [l EXCEPT !.head = IF l.prev[w] = NULL THEN l.next[w] ELSE @,
            !.tail = IF l.next[w] = NULL THEN l.prev[w] ELSE @,
            !.next = LinkOf(@, l.prev[w], l.next[w]),
            !.prev = LinkOf(@, l.next[w], l.prev[w])]

AtHead(l, w) ==
  [l EXCEPT !.next[w] = l.head, !.prev = [LinkOf(@, l.head, w) EXCEPT ![w] = NULL],
            !.head = w]

AtTail(l, w) ==
  [l EXCEPT !.prev[w] = l.tail, !.next = [LinkOf(@, l.tail, w) EXCEPT ![w] = NULL],
            !.tail = w]

(* update_way_list(); nothing moves what is where it should be, nor the    *)
(* only block of a direct-mapped cache.                                    *)
UpdateWayList(l, w, where) ==
  CASE where = "Head" /\ l.head = w -> l
    [] where = "Tail" /\ l.tail = w -> l
    [] where = "Head" /\ l.head # w -> AtHead(Unlinked(l, w), w)
    [] where = "Tail" /\ l.tail # w -> AtTail(Unlinked(l, w), w)

-----------------------------------------------------------------------------
(* What the list stands for: the order of the ways.                        *)

Linking(order) ==
  LET at(w) == CHOOSE i \in DOMAIN order : order[i] = w
      nth(i) == IF i \in DOMAIN order THEN order[i] ELSE NULL
  IN [head |-> order[1], tail |-> order[Len(order)],
      next |-> [w \in ToSet(order) |-> nth(at(w) + 1)],
      prev |-> [w \in ToSet(order) |-> nth(at(w) - 1)]]

Reordered(order, w, where) ==
  LET rest == RemoveAt(order, CHOOSE i \in DOMAIN order : order[i] = w)
  IN IF where = "Head" THEN <<w>> \o rest ELSE Append(rest, w)

(* The first n blocks of the list, NULL from where it ends.                *)
Chain(l, n) ==
  LET nth[i \in 1 .. n] ==
        IF i = 1 THEN l.head ELSE IF nth[i - 1] = NULL THEN NULL ELSE l.next[nth[i - 1]]
  IN nth

(* A list is an order of its blocks, and update_way_list() moves a block   *)
(* to one end of it.                                                       *)
ListIsOrder(l) ==
  LET order == Chain(l, Cardinality(DOMAIN l.next))
  IN /\ ToSet(order) = DOMAIN l.next
     /\ l = Linking(order)
     /\ \A w \in DOMAIN l.next, where \in {"Head", "Tail"} :
          UpdateWayList(l, w, where) = Linking(Reordered(order, w, where))

=============================================================================
