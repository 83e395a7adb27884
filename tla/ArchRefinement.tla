--------------------------- MODULE ArchRefinement ---------------------------
(***************************************************************************)
(* The renamer implements ArchState.  The architectural map is nowhere in  *)
(* its state: it is what the rename table would be if the whole ROB were   *)
(* rolled back.  Integer and floating point registers are different files, *)
(* so a register of ArchState is a type and a number.                      *)
(***************************************************************************)
EXTENDS RegisterRename

Names     == ArchRegs
Registers == RegTypes \X Phys
Nothing   == <<NONE, NoReg>>
Typed(a, p) == <<TypeOf(a), p>>

ArchOf(t) == [a \in ArchRegs |-> Typed(a, RestoredMap(t, 0)[a])]

Logged(e) ==
  [name |-> e.archreg,
   reg  |-> IF HasDest(e) THEN Typed(e.archreg, e.physreg) ELSE Nothing]

LogOf(t) == [i \in DOMAIN rob[t] |-> Logged(rob[t][i])]

Start == [t \in Threads |-> [a \in ArchRegs |-> Typed(a, InitMap[t][a])]]

Arch == INSTANCE ArchState WITH arch <- [t \in Threads |-> ArchOf(t)],
                                log  <- [t \in Threads |-> LogOf(t)]

(* Whatever is renamed, retired and rolled back by all threads, the        *)
(* architectural registers of a thread change only by its oldest write,    *)
(* and a new write never takes a register that any thread still needs.     *)
(* Source: register_rename(), commit() and rollbackTo() together.          *)
ImplementsArch == Arch!Spec

=============================================================================
