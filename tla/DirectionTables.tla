--------------------------- MODULE DirectionTables ---------------------------
(***************************************************************************)
(* The tables of two-bit counters behind the dynamic predictors, and the   *)
(* pointers into them that an instruction carries from its lookup to its   *)
(* update.  A bimodal predictor uses one table; a two-level predictor      *)
(* finds its counter through a table of histories; the combining one has   *)
(* both and a third table that chooses.                                    *)
(***************************************************************************)
EXTENDS Integers

CONSTANTS
  BimodSize, MetaSize,       (* two-bit tables, a power of two            *)
  L1Size, L2Size, ShiftWidth,
  XorAddress                 (* the history is combined with the address  *)

PowersOfTwo == {1, 2, 4, 8, 16, 32}

ASSUME TablesAssumption ==
  /\ {BimodSize, MetaSize, L1Size, L2Size} \subseteq PowersOfTwo
  /\ ShiftWidth \in 1 .. 30
  /\ XorAddress \in BOOLEAN

Dynamic == {"bimod", "2lev", "comb"}

(* Counters start weakly taken or not taken, in turn.                      *)
FlipFlop(size) == [i \in 0 .. size - 1 |-> IF i % 2 = 0 THEN 1 ELSE 2]

NewTables == [bimod |-> FlipFlop(BimodSize), meta |-> FlipFlop(MetaSize),
              l2 |-> FlipFlop(L2Size), shiftregs |-> [i \in 0 .. L1Size - 1 |-> 0]]

(* Addresses count instructions and are small: the bits from 19 up, which  *)
(* the bimodal index folds in, are zero.                                   *)
BimodIndex(size, pc) == pc % size
L1Index(pc)          == pc % L1Size

(* l2index ^ baddr, as far as it is kept: ShiftWidth bits.                 *)
Bit(n, k) == (n \div (2 ^ k)) % 2
Xored(a, b) ==
  CHOOSE n \in 0 .. (2 ^ ShiftWidth) - 1 :
    \A k \in 0 .. ShiftWidth - 1 : Bit(n, k) = (Bit(a, k) + Bit(b, k)) % 2

L2Index(tables, pc) ==
  LET history == tables.shiftregs[L1Index(pc)]
      low     == IF XorAddress THEN Xored(history, pc) ELSE history
  IN (low + pc * (2 ^ ShiftWidth)) % L2Size

(* A pointer to a counter, or none.                                        *)
Ptr(table, i) == [table |-> table, i |-> i]
NULL          == Ptr("none", 0)

At(tables, p) == CASE p.table = "bimod" -> tables.bimod[p.i]
                   [] p.table = "meta"  -> tables.meta[p.i]
                   [] p.table = "l2"    -> tables.l2[p.i]

(* dir_update of an instruction that needs no direction.                   *)
NoDirection == [pdir1 |-> NULL, pdir2 |-> NULL, pmeta |-> NULL,
                bimod |-> FALSE, twolev |-> FALSE]

(* What bpred_lookup() notes of a conditional branch.                      *)
Direction(kind, tables, pc) ==
  LET bimod  == Ptr("bimod", BimodIndex(BimodSize, pc))
      meta   == Ptr("meta", BimodIndex(MetaSize, pc))
      twolev == Ptr("l2", L2Index(tables, pc))
      chosen == At(tables, meta) >= 2
  IN CASE kind = "bimod" -> [NoDirection EXCEPT !.pdir1 = bimod]
       [] kind = "2lev"  -> [NoDirection EXCEPT !.pdir1 = twolev]
       [] kind = "comb"  -> [pdir1  |-> IF chosen THEN twolev ELSE bimod,
                             pdir2  |-> IF chosen THEN bimod ELSE twolev,
                             pmeta  |-> meta,
                             bimod  |-> At(tables, bimod) >= 2,
                             twolev |-> At(tables, twolev) >= 2]

PredictsTaken(tables, dir) == At(tables, dir.pdir1) >= 2

(* Two-bit counters saturate.                                              *)
Counted(n, up) == IF up THEN IF n < 3 THEN n + 1 ELSE n
                  ELSE IF n > 0 THEN n - 1 ELSE n

(* update_state(), for a pointer that may be NULL.                         *)
Trained(tables, p, up) ==
  CASE p.table = "bimod" -> [tables EXCEPT !.bimod[p.i] = Counted(@, up)]
    [] p.table = "meta"  -> [tables EXCEPT !.meta[p.i] = Counted(@, up)]
    [] p.table = "l2"    -> [tables EXCEPT !.l2[p.i] = Counted(@, up)]
    [] OTHER             -> tables

(* update_table(): the history is shifted, before the counters are trained *)
(* but after their pointers were taken.                                    *)
Shifted(tables, pc, taken) ==
  [tables EXCEPT !.shiftregs[L1Index(pc)] =
     (2 * @ + (IF taken THEN 1 ELSE 0)) % (2 ^ ShiftWidth)]

(* The combining predictor shifts the history for jumps too.               *)
ShiftsHistory(kind, cond) == kind = "comb" \/ (kind = "2lev" /\ cond)

(* The chooser moves only when the two predictions differed.               *)
MetaTrained(tables, dir, taken) ==
  IF dir.pmeta # NULL /\ dir.bimod # dir.twolev
  THEN Trained(tables, dir.pmeta, dir.twolev = taken) ELSE tables

Learned(kind, tables, pc, cond, dir, taken) ==
  LET shifted == IF ShiftsHistory(kind, cond) THEN Shifted(tables, pc, taken) ELSE tables
      first   == Trained(shifted, dir.pdir1, taken)
  IN MetaTrained(Trained(first, dir.pdir2, taken), dir, taken)

=============================================================================
