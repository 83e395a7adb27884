--------------------------- MODULE ProcessControl ---------------------------
(***************************************************************************)
(* Processes and the contexts that run them: the process table             *)
(* (pid_handler_t), the system calls fork, exit, kill, wait4 and select,   *)
(* which execute inside register_rename(), and the walk of                 *)
(* register_rename() over the contexts of a core, which also ends pending  *)
(* waits.                                                                  *)
(*                                                                         *)
(* The simulator serves the cores one after the other.  A core's turn is   *)
(* StartTurn (the copy of its list of contexts, after commit), one         *)
(* iteration of the rename loop per step, and EndTurn (fetch).  Contexts   *)
(* and positions are numbered from 1; current_context, `cur', from 0.      *)
(***************************************************************************)
EXTENDS Integers, Sequences, SequencesExt, FiniteSetsExt

CONSTANTS
  NumCores,     (* cores                                                   *)
  MaxPerCore,   (* max_contexts_per_core                                   *)
  NumInit,      (* programs loaded at the start                            *)
  MaxContexts,  (* bound: forks stop when there are this many contexts     *)
  Width,        (* decode_width                                            *)
  Period,       (* sim_cycle is kept modulo Period                         *)
  SelectDelay,  (* visits until a pending select is tried again (200000)   *)
  Calls         (* the system calls that the programs make                 *)

Cores   == 1 .. NumCores
NoPid   == 0
ANY     == -1          (* wait4(-1): any child                             *)
AllPids == 1 .. MaxContexts

ASSUME ProcessAssumption ==
  /\ NumCores \in Nat \ {0}
  /\ MaxPerCore \in Nat \ {0}
  /\ NumInit \in 1 .. (NumCores * MaxPerCore)
  /\ MaxContexts \in Nat /\ MaxContexts >= NumInit
  /\ Width \in Nat \ {0}
  /\ SelectDelay \in Nat \ {0}
  /\ Calls \subseteq {"fork", "exit", "wait", "select", "kill", "thread_kill"}

(* Lists of contexts only get shorter than MaxPerCore, so `sim_cycle %     *)
(* size' is the same modulo Period.                                        *)
ASSUME PeriodAssumption ==
  /\ Period \in Nat \ {0}
  /\ \A n \in 1 .. MaxPerCore : Period % n = 0

VARIABLES
  procs,      (* Seq of processes: p_list, indexed by pid                  *)
  contexts,   (* Seq of contexts                                           *)
  core_ids,   (* [Cores -> Seq of contexts]: cores[].context_ids           *)
  core,       (* the core whose turn it is                                 *)
  stage,      (* "commit" before its rename loop, "rename" in it           *)
  left,       (* contexts_left                                             *)
  cur,        (* current_context                                           *)
  renamed,    (* n_renamed                                                 *)
  sim_cycle,
  reports     (* history: how often wait4 has returned each process        *)

vars == <<procs, contexts, core_ids, core, stage, left, cur, renamed,
          sim_cycle, reports>>

-----------------------------------------------------------------------------
(***************************************************************************)
(* The process table.                                                      *)
(***************************************************************************)
NewProc == [alive |-> TRUE, parent |-> NoPid, children |-> <<>>]

(* Seeded fault: the process is not marked dead.                           *)
Killed_NotMarked(ps, p) == ps

(* kill_pid: a pid that is in no entry changes nothing.                    *)
Killed(ps, p) == IF p \in DOMAIN ps THEN [ps EXCEPT ![p].alive = FALSE] ELSE ps

AddChild(ps, p, c) ==
  IF p \in DOMAIN ps /\ c \in DOMAIN ps
  THEN [ps EXCEPT ![p].children = Append(@, c), ![c].parent = p]
  ELSE ps

DeadChildren(p) == {i \in DOMAIN procs[p].children :
                      ~procs[procs[p].children[i]].alive}

(* get_retval: what a wait4 of p for w returns, the set being empty when   *)
(* it has to wait: a dead child, or ANY (ECHILD) when p has no children.   *)
Answer(p, w) ==
  IF p \notin DOMAIN procs THEN {}
  ELSE IF w # ANY
  THEN {c \in {w} : /\ procs[c].parent = p
                    /\ ~procs[c].alive
                    /\ \E i \in DOMAIN procs[p].children : procs[p].children[i] = c}
  ELSE IF DeadChildren(p) # {} THEN {procs[p].children[Min(DeadChildren(p))]}
  ELSE IF procs[p].children = <<>> THEN {ANY}
  ELSE {}

(* Seeded fault: a child that was reported stays on the list.              *)
Reaped_Kept(p, c) == procs

(* get_retval takes the child it reports off the list of p.                *)
Reaped(p, c) == [procs EXCEPT ![p].children = RemoveFirst(@, c)]

(* Seeded fault: any dead process will do.                                 *)
IsRetvalAvail_AnyDead(p, w) ==
  p \in DOMAIN procs /\ IF w # ANY THEN ~procs[w].alive
                        ELSE procs[p].children = <<>> \/ DeadChildren(p) # {}

IsRetvalAvail(p, w) ==
  /\ p \in DOMAIN procs
  /\ IF w # ANY THEN procs[w].parent = p /\ ~procs[w].alive
     ELSE procs[p].children = <<>> \/ DeadChildren(p) # {}

-----------------------------------------------------------------------------
(* fetched: the fetch queue holds instructions of the right path; rob: the *)
(* ROB is not empty; again: the wait4 that the context is to execute again *)
(* because its PC was set back.                                            *)
NewContext(p) == [pid |-> p, wait |-> FALSE, waiting_for |-> NoPid,
                  select |-> FALSE, next_check |-> 0, again |-> NoPid,
                  fetched |-> FALSE, rob |-> FALSE]

(* sim_load_prog() deals the programs out to the cores: core c gets c,     *)
(* c + NumCores and so on.                                                 *)
Dealt(c) == [i \in 1 .. (NumInit + NumCores - c) \div NumCores |-> c + (i - 1) * NumCores]

Init ==
  /\ procs = [p \in 1 .. NumInit |-> NewProc]
  /\ contexts = [t \in 1 .. NumInit |-> NewContext(t)]
  /\ core_ids = [c \in Cores |-> Dealt(c)]
  /\ core = 1
  /\ stage = "commit"
  /\ left = <<>>
  /\ cur = 0
  /\ renamed = 0
  /\ sim_cycle = 0
  /\ reports = [p \in AllPids |-> 0]

(* sim_main() returns when every core is empty.                            *)
Running == \E c \in Cores : core_ids[c] # <<>>

NextCore ==
  /\ core' = (core % NumCores) + 1
  /\ sim_cycle' = IF core = NumCores THEN (sim_cycle + 1) % Period ELSE sim_cycle

SkipCore ==
  /\ stage = "commit"
  /\ Running
  /\ core_ids[core] = <<>>
  /\ NextCore
  /\ UNCHANGED <<procs, contexts, core_ids, stage, left, cur, renamed, reports>>

(* Seeded fault: the round robin always starts with the first context.     *)
FirstContext_Zero(c) == 0

FirstContext(c) == sim_cycle % Len(core_ids[c])

(* commit() may empty the ROBs of some contexts; then register_rename()    *)
(* copies the list of contexts.                                            *)
StartTurn ==
  /\ stage = "commit"
  /\ core_ids[core] # <<>>
  /\ \E drained \in SUBSET Range(core_ids[core]) :
       contexts' = [t \in DOMAIN contexts |->
                      [contexts[t] EXCEPT !.rob = @ /\ t \notin drained]]
  /\ stage' = "rename"
  /\ left' = core_ids[core]
  /\ cur' = FirstContext(core)
  /\ renamed' = 0
  /\ UNCHANGED <<procs, core_ids, core, sim_cycle, reports>>

MayFetch(c) == c.pid # NoPid /\ ~c.wait /\ ~c.select

EndTurn ==
  /\ stage = "rename"
  /\ renamed = Width \/ left = <<>>
  /\ \E filled \in SUBSET {t \in Range(core_ids[core]) : MayFetch(contexts[t])} :
       contexts' = [t \in DOMAIN contexts |->
                      [contexts[t] EXCEPT !.fetched = @ \/ t \in filled]]
  /\ stage' = "commit"
  /\ left' = <<>>
  /\ cur' = 0
  /\ renamed' = 0
  /\ NextCore
  /\ UNCHANGED <<procs, core_ids, reports>>

-----------------------------------------------------------------------------
(***************************************************************************)
(* An iteration of the rename loop is for the context at position Pos of   *)
(* `left'.  The pending interrupts that it tests and ends are the ones of  *)
(* contexts[current_context]: context number Pos, which need not be the    *)
(* same.                                                                   *)
(***************************************************************************)
Pos == (cur % Len(left)) + 1

StillWaits(c)   == c.wait /\ ~IsRetvalAvail(c.pid, c.waiting_for)
StillSelects(c) == c.select /\ c.next_check > 1
Blocked(c)      == StillWaits(c) \/ StillSelects(c)

Polled(c) ==
  IF StillWaits(c) THEN c
  ELSE [c EXCEPT !.wait        = FALSE,
                 !.waiting_for = IF c.wait THEN NoPid ELSE @,
                 !.select      = StillSelects(c),
                 !.next_check  = IF c.select THEN @ - 1 ELSE @]

AfterPoll == [contexts EXCEPT ![Pos] = Polled(@)]

InLoop == stage = "rename" /\ renamed < Width /\ left # <<>>

(* The context is served, and stays the current one.                       *)
Serves(t) ==
  /\ InLoop
  /\ ~Blocked(contexts[Pos])
  /\ t = left[Pos]
  /\ contexts[t].fetched
  /\ cur' = Pos - 1
  /\ renamed' = renamed + 1
  /\ UNCHANGED <<core, stage, left, sim_cycle>>

(* A pending interrupt, or a stall of its own, takes the context off the   *)
(* list for this cycle.                                                    *)
Stall ==
  /\ InLoop
  /\ contexts' = AfterPoll
  /\ left' = RemoveAt(left, Pos)
  /\ cur' = Pos - 1
  /\ UNCHANGED <<procs, core_ids, core, stage, renamed, sim_cycle, reports>>

(* The served instruction has entered the ROB; `more' says whether the     *)
(* fetch queue still has instructions of the right path.                   *)
Entered(c, more) == [c EXCEPT !.rob = TRUE, !.fetched = more]

RenameOther(t) ==
  /\ Serves(t)
  /\ \E more \in BOOLEAN : contexts' = [AfterPoll EXCEPT ![t] = Entered(@, more)]
  /\ UNCHANGED <<procs, core_ids, reports>>

(* Seeded fault: a system call does not wait for the ROB to drain.         *)
MayCall_Eager(t, call) ==
  /\ Serves(t)
  /\ call \in Calls
  /\ contexts[t].again = NoPid

(* A system call waits for the ROB to drain; a wait4 to be executed again  *)
(* comes before any other call.                                            *)
MayCall(t, call) ==
  /\ Serves(t)
  /\ ~contexts[t].rob
  /\ call \in Calls
  /\ contexts[t].again = NoPid

(* flushcontext() and ejectcontext(), and the loss of the pid.             *)
Flushed(c) == [c EXCEPT !.pid = NoPid, !.rob = FALSE, !.fetched = FALSE]
Ejected(u) == [c \in Cores |-> RemoveFirst(core_ids[c], u)]

(* The loop goes on with the flushed context: its exit enters the ROB, and *)
(* its fetch queue, emptied by the flush, is decremented once more.        *)
Exit(t) ==
  /\ MayCall(t, "exit")
  /\ procs' = Killed(procs, contexts[t].pid)
  /\ core_ids' = Ejected(t)
  /\ \E more \in BOOLEAN :
       contexts' = [AfterPoll EXCEPT ![t] = Entered(Flushed(@), more)]
  /\ UNCHANGED reports

CoresWithRoom == {c \in Cores : Len(core_ids[c]) < MaxPerCore}

(* The first core with room takes the new context.                         *)
Placed(u) == [core_ids EXCEPT ![Min(CoresWithRoom)] = Append(@, u)]

Fork(t) ==
  LET child == Len(procs) + 1
      u     == Len(contexts) + 1
  IN /\ MayCall(t, "fork")
     /\ Len(contexts) < MaxContexts
     /\ CoresWithRoom # {}
     /\ procs' = AddChild(Append(procs, NewProc), contexts[t].pid, child)
     /\ core_ids' = Placed(u)
     /\ \E more \in BOOLEAN :
          contexts' = Append([AfterPoll EXCEPT ![t] = Entered(@, more)],
                             [AfterPoll[t] EXCEPT !.pid = child, !.fetched = FALSE])
     /\ UNCHANGED reports

ForkFails(t) ==
  /\ MayCall(t, "fork")
  /\ CoresWithRoom = {}
  /\ \E more \in BOOLEAN : contexts' = [AfterPoll EXCEPT ![t] = Entered(@, more)]
  /\ UNCHANGED <<procs, core_ids, reports>>

(* A wait4, new or again.  Waiting for a pid that is not in the table      *)
(* indexes p_list with -1 and is left out.                                 *)
CallsWait(t, w) ==
  \/ MayCall(t, "wait") /\ w \in DOMAIN procs \cup {ANY}
  \/ /\ Serves(t)
     /\ ~contexts[t].rob
     /\ contexts[t].again # NoPid
     /\ w = contexts[t].again

WaitAnswered(t, w) ==
  LET p == contexts[t].pid
  IN /\ CallsWait(t, w)
     /\ \E a \in Answer(p, w) :
          /\ procs' = IF a = ANY THEN procs ELSE Reaped(p, a)
          /\ reports' = IF a = ANY THEN reports ELSE [reports EXCEPT ![a] = @ + 1]
     /\ \E more \in BOOLEAN :
          contexts' = [AfterPoll EXCEPT ![t] = [Entered(@, more) EXCEPT !.again = NoPid]]
     /\ UNCHANGED core_ids

(* The PC is set back, so what was fetched behind the call is wrong.       *)
WaitPends(t, w) ==
  /\ CallsWait(t, w)
  /\ Answer(contexts[t].pid, w) = {}
  /\ contexts' = [AfterPoll EXCEPT ![t] =
       [Entered(@, FALSE) EXCEPT !.wait = TRUE, !.waiting_for = w, !.again = w]]
  /\ UNCHANGED <<procs, core_ids, reports>>

(* A select that found nothing.                                            *)
SelectPends(t) ==
  /\ MayCall(t, "select")
  /\ contexts' = [AfterPoll EXCEPT ![t] =
       [Entered(@, FALSE) EXCEPT !.select = TRUE, !.next_check = SelectDelay]]
  /\ UNCHANGED <<procs, core_ids, reports>>

(* kill and thread_kill of process `who'.  The table is told to kill the   *)
(* first argument of the call, which is `who' for a kill with a positive   *)
(* pid and an address for thread_kill.                                     *)
Kill(t, call, who) ==
  LET u == CHOOSE i \in DOMAIN contexts : contexts[i].pid = who
  IN /\ MayCall(t, call)
     /\ \E i \in DOMAIN contexts : contexts[i].pid = who
     /\ procs' = Killed(procs, IF call = "kill" THEN who ELSE NoPid)
     /\ core_ids' = Ejected(u)
     /\ \E more \in BOOLEAN :
          contexts' = [[AfterPoll EXCEPT ![u] = Flushed(@)]
                         EXCEPT ![t] = Entered(@, more)]
     /\ UNCHANGED reports

Next ==
  \/ SkipCore
  \/ StartTurn
  \/ Stall
  \/ EndTurn
  \/ \E t \in DOMAIN contexts :
       \/ RenameOther(t)
       \/ Exit(t)
       \/ Fork(t)
       \/ ForkFails(t)
       \/ SelectPends(t)
       \/ \E w \in DOMAIN procs \cup {ANY} : WaitAnswered(t, w) \/ WaitPends(t, w)
       \/ \E call \in {"kill", "thread_kill"}, who \in DOMAIN procs : Kill(t, call, who)

Spec == Init /\ [][Next]_vars

(* sim_main() never stops taking steps by itself.                          *)
FairSpec == Spec /\ WF_vars(Next)

-----------------------------------------------------------------------------
(***************************************************************************)
(* Properties                                                              *)
(***************************************************************************)
Contexts == [pid : AllPids \cup {NoPid}, wait : BOOLEAN,
             waiting_for : AllPids \cup {NoPid, ANY}, select : BOOLEAN,
             next_check : 0 .. SelectDelay, again : AllPids \cup {NoPid, ANY},
             fetched : BOOLEAN, rob : BOOLEAN]

(* The type invariant; a countdown of a select never goes below zero, and  *)
(* there is a context for each process that ever was.                      *)
ProcTypeOK ==
  /\ procs \in Seq([alive : BOOLEAN, parent : AllPids \cup {NoPid},
                    children : Seq(AllPids)])
  /\ contexts \in Seq(Contexts)
  /\ Len(procs) = Len(contexts) /\ Len(procs) <= MaxContexts
  /\ core_ids \in [Cores -> Seq(DOMAIN contexts)]
  /\ \A c \in Cores : Len(core_ids[c]) <= MaxPerCore
  /\ core \in Cores
  /\ stage \in {"commit", "rename"}
  /\ left \in Seq(DOMAIN contexts) /\ Len(left) <= MaxPerCore
  /\ cur \in 0 .. MaxPerCore - 1
  /\ renamed \in 0 .. Width
  /\ sim_cycle \in 0 .. Period - 1
  /\ reports \in [AllPids -> Nat]

OnChildren(p, c) == \E i \in DOMAIN procs[p].children : procs[p].children[i] = c

(* The two records of a family agree: a process is on the list of children *)
(* of its parent, once, exactly until wait4 has returned it.               *)
FamilyConsistent ==
  \A p \in DOMAIN procs :
    /\ IsInjective(procs[p].children)
    /\ \A c \in AllPids :
         OnChildren(p, c) <=> c \in DOMAIN procs /\ procs[c].parent = p /\ reports[c] = 0

(* A death is reported at most once, and only a death is.                  *)
ReportedOnce ==
  \A p \in DOMAIN procs :
    reports[p] <= 1 /\ (reports[p] = 1 => ~procs[p].alive)

(* A death is on record until it is reported, and is reported once.        *)
DeathsReported == FamilyConsistent /\ ReportedOnce

OnCore(t) == \E c \in Cores : \E i \in DOMAIN core_ids[c] : core_ids[c][i] = t

(* A context that runs a process is on the list of exactly one core, and   *)
(* one that does not is on none; no two contexts run the same process.     *)
PlacedOnce ==
  /\ \A c, d \in Cores : \A i \in DOMAIN core_ids[c], j \in DOMAIN core_ids[d] :
       core_ids[c][i] = core_ids[d][j] => c = d /\ i = j
  /\ \A t \in DOMAIN contexts : OnCore(t) <=> contexts[t].pid # NoPid
  /\ \A t, u \in DOMAIN contexts :
       contexts[t].pid = contexts[u].pid /\ contexts[t].pid # NoPid => t = u

(* The table and the contexts agree on who is alive: a process that was    *)
(* killed or has exited is dead in the table, so that its parent's wait4   *)
(* can return.                                                             *)
AliveHasContext ==
  \A p \in DOMAIN procs :
    procs[p].alive <=> \E t \in DOMAIN contexts : contexts[t].pid = p

(* The assert of register_rename(): a context with a pending wait has      *)
(* something to wait for.                                                  *)
WaitHasTarget == \A t \in DOMAIN contexts :
                   contexts[t].wait => contexts[t].waiting_for # NoPid

(* The shape of the state, and the agreement of the table of processes, the*)
(* contexts that run them and the lists of the cores.                      *)
ProcessInv == ProcTypeOK /\ PlacedOnce /\ AliveHasContext /\ WaitHasTarget

(* The two functions that walk the children agree: when is_retval_avail()  *)
(* ends a wait, the wait4 that is executed again gets its answer, unless   *)
(* the child it names was already reported.                                *)
AnswerIsDelivered ==
  \A p \in DOMAIN procs : \A w \in DOMAIN procs \cup {ANY} :
    IsRetvalAvail(p, w) <=> \/ Answer(p, w) # {}
                            \/ w # ANY /\ procs[w].parent = p /\ reports[w] = 1

(* After an exit or a kill in the middle of the loop the list `left' still *)
(* holds the dead context: it makes no system call.                        *)
NoCallFromTheDead ==
  [][procs' # procs \/ core_ids' # core_ids => contexts[left[Pos]].pid # NoPid]_vars

Due(t) ==
  /\ t \in DOMAIN contexts
  /\ contexts[t].pid # NoPid
  /\ \/ contexts[t].wait /\ ~StillWaits(contexts[t])
     \/ contexts[t].select

InPlace(t) == \E c \in Cores : t \in DOMAIN core_ids[c] /\ core_ids[c][t] = t

(* A pending wait whose answer is there, or a pending select, ends, as     *)
(* long as the context's position in the list of its core is its number.   *)
InPlaceResumes == \A t \in AllPids : []<>~(Due(t) /\ InPlace(t))

(* A context whose wait has its answer resumes ("Syscall Wait - check wait *)
(* parameter").                                                            *)
WaiterResumes == \A t \in AllPids : []<>~Due(t)

=============================================================================
