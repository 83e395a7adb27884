------------------------------ MODULE ArchState ------------------------------
(***************************************************************************)
(* What register renaming promises.  Each thread has one register for each *)
(* of its names (arch), and a log of its instructions that are still       *)
(* speculative (log), oldest first.  An instruction that writes a register *)
(* is issued with one that nothing uses; the oldest instruction retires,   *)
(* and its write with it, into arch; the newest ones may be squashed.      *)
(* There is no rename table, free list, old mapping or counter: those are  *)
(* how the renamer implements this.                                        *)
(***************************************************************************)
EXTENDS Naturals, Sequences

CONSTANTS Threads, Names, Registers, Start,
          Nothing    (* what an instruction takes that writes no register  *)

VARIABLES
  arch,   (* [Threads -> [Names -> Registers]]                             *)
  log     (* [Threads -> Seq([name : Names, reg : Registers and Nothing])] *)

InUse == (UNION {{arch[t][n] : n \in Names} : t \in Threads})
           \cup (UNION {{log[t][i].reg : i \in DOMAIN log[t]} : t \in Threads})

Init ==
  /\ arch = Start
  /\ log = [t \in Threads |-> <<>>]

Issue(t) ==
  /\ \E n \in Names, r \in (Registers \ InUse) \cup {Nothing} :
       log' = [log EXCEPT ![t] = Append(@, [name |-> n, reg |-> r])]
  /\ UNCHANGED arch

Retire(t) ==
  /\ log[t] # <<>>
  /\ arch' = IF Head(log[t]).reg = Nothing THEN arch
             ELSE [arch EXCEPT ![t][Head(log[t]).name] = Head(log[t]).reg]
  /\ log' = [log EXCEPT ![t] = Tail(@)]

Squash(t) ==
  /\ \E n \in 0 .. Len(log[t]) : log' = [log EXCEPT ![t] = SubSeq(@, 1, n)]
  /\ UNCHANGED arch

Next == \E t \in Threads : Issue(t) \/ Retire(t) \/ Squash(t)

Spec == Init /\ [][Next]_<<arch, log>>

=============================================================================
