----------------------------- MODULE Scheduler -----------------------------
(***************************************************************************)
(* Instruction scheduling in one core: commit(), writeback(),              *)
(* lsq_refresh(), wakeup(), selection(), execute(), dispatch() and the     *)
(* entry of instructions by register_rename(), in the order in which       *)
(* sim_main() calls them, one stage per step and cycle after cycle.        *)
(*                                                                         *)
(* An instruction that depends on a load is issued for the time at which a *)
(* hit would deliver the data.  On a miss it reaches execute() too early,  *)
(* and execute() replays: every instruction of the thread that is issued   *)
(* but not executing waits again.                                          *)
(*                                                                         *)
(* A memory operation has two parts: the address computation, its ROB      *)
(* entry, and the access, its LSQ entry.  Every other instruction has only *)
(* the first.  Times are relative to sim_cycle: 0 is now, Past before now. *)
(***************************************************************************)
EXTENDS Integers, Sequences, SequencesExt, FiniteSetsExt

CONSTANTS
  Threads,     (* the contexts of the core                                 *)
  Regs,        (* physical registers                                       *)
  RobSize,     (* entries of a ROB (the LSQ is as large)                   *)
  IqSize,      (* entries of the issue queue                               *)
  RenameWidth, (* decode_width in register_rename()                        *)
  Width,       (* decode_width in dispatch(), issue_width                  *)
  Delay,       (* ISSUE_EXEC_DELAY                                         *)
  HitLat,      (* cache_dl1_lat                                            *)
  LoadLats,    (* the latencies of an access to the caches                 *)
  AluLats,     (* the latencies of the functional units                    *)
  Addrs,       (* addresses                                                *)
  Classes,     (* the classes of instruction in the program                *)
  Recovery,    (* recovery models: "squash", "perfect"                     *)
  UnitsFree    (* TRUE: there is a functional unit for every instruction   *)

NoReg  == -1
NoSlot == 0
NoAddr == 0
Past   == -1

MemClasses == {"load", "store", "store_cond"}
StoreClasses == {"store", "store_cond"}

ASSUME SchedulerAssumption ==
  /\ Threads # {}
  /\ Regs \subseteq Nat
  /\ IsFiniteSet(LoadLats \cup AluLats)
  /\ {RobSize, IqSize, RenameWidth, Width, HitLat} \subseteq Nat \ {0}
  /\ Delay \in Nat
  /\ LoadLats \subseteq Nat \ {0} /\ HitLat \in LoadLats
  /\ AluLats \subseteq Nat \ {0} /\ 1 \in AluLats
  /\ Addrs \subseteq Nat \ {0}
  /\ Classes \subseteq MemClasses \cup {"alu", "branch"}
  /\ Recovery # {} /\ Recovery \subseteq {"squash", "perfect"}
  /\ UnitsFree \in BOOLEAN

MaxTime == Max(LoadLats \cup AluLats) + Delay
Never   == MaxTime + 1                                  (* INF             *)

VARIABLES
  rob,     (* [Threads -> Seq of entries], the oldest first                *)
  reg,     (* [Regs -> [spec_ready, ready]]                                *)
  iq,      (* [1 .. IqSize -> BOOLEAN]: used                               *)
  stage,   (* the stage that sim_main() calls next                         *)
  n,       (* instructions that this stage has handled in this cycle       *)
  recovery_model_v   (* the core's recovery model, an option              *)

vars == <<rob, reg, iq, stage, n, recovery_model_v>>

-----------------------------------------------------------------------------
(***************************************************************************)
(* A part of an instruction is on some of the lists of the core: the       *)
(* waiting_queue, the ready_queue, the issue_exec_queue and the            *)
(* event_queue.  `when' is its time in one of the last two.                *)
(***************************************************************************)
(* Seeded fault: a new entry keeps the flag of the last user of its place. *)
NewPart_Queued == [queued |-> TRUE, issued |-> FALSE, completed |-> FALSE,
                   lists |-> {}, when |-> Past, exec_lat |-> 0]

NewPart == [queued |-> FALSE, issued |-> FALSE, completed |-> FALSE,
            lists |-> {}, when |-> Past, exec_lat |-> 0]

(* src[1] is the value that is stored, src[2] the base of the address.     *)
NewEntry(class, dest, src, addr) ==
  [class |-> class, dest |-> dest, src |-> src, addr |-> addr,
   dispatched |-> FALSE, slot |-> NoSlot, op |-> NewPart, mem |-> NewPart]

IsMem(e)   == e.class \in MemClasses
IsStore(e) == e.class \in StoreClasses
Parts(e)   == IF IsMem(e) THEN {"op", "mem"} ELSE {"op"}

(* The operands that a part needs: the address computation only the base.  *)
SrcsOf(e, p) == (IF IsMem(e) /\ (p = "op" \/ e.class = "load")
                 THEN {e.src[2]} ELSE {e.src[1], e.src[2]}) \ {NoReg}

(* The part that produces the result.                                      *)
Produces(e, p) == e.dest # NoReg /\ (IsMem(e) => p = "mem")

OperandsSpecReady(e, p) == \A r \in SrcsOf(e, p) : reg[r].spec_ready <= 0
OperandsReady(e, p)     == \A r \in SrcsOf(e, p) : reg[r].ready <= 0

(* The parts in the pipeline, as <<thread, position, part>>.               *)
At(u)     == rob[u[1]][u[2]]
PartOf(u) == At(u)[u[3]]
Units     == {u \in Threads \X (1 .. RobSize) \X {"op", "mem"} :
                u[2] \in DOMAIN rob[u[1]] /\ u[3] \in Parts(At(u))}
On(list)  == {u \in Units : list \in PartOf(u).lists}

(* The sequence number: by instruction, the address computation first.     *)
OlderThan(u, v) == /\ u[1] = v[1]
                   /\ u[2] < v[2] \/ (u[2] = v[2] /\ u[3] = "op" /\ v[3] = "mem")

(* The ROBs after each part in the domain of the function parts has become *)
(* what parts gives for it.                                                *)
NewPartOf(parts, u, q) == IF u \in DOMAIN parts THEN parts[u] ELSE q

Changed(robs, parts) ==
  [t \in Threads |-> [i \in DOMAIN robs[t] |->
     [robs[t][i] EXCEPT !.op  = NewPartOf(parts, <<t, i, "op">>, @),
                        !.mem = NewPartOf(parts, <<t, i, "mem">>, @)]]]

Enqueued(u) == [PartOf(u) EXCEPT !.lists = (@ \ {"waiting"}) \cup {"ready"},
                                 !.queued = TRUE]

Squash == recovery_model_v = "squash"

Goes(next) == stage' = next /\ n' = 0

-----------------------------------------------------------------------------
Init ==
  /\ rob = [t \in Threads |-> <<>>]
  /\ reg = [r \in Regs |-> [spec_ready |-> Past, ready |-> Past]]
  /\ iq = [s \in 1 .. IqSize |-> FALSE]
  /\ stage = "commit"
  /\ n = 0
  /\ recovery_model_v \in Recovery

Done(e) == e.op.completed /\ (IsMem(e) => e.mem.completed)

(* The head of a ROB retires.                                              *)
Commit(t) ==
  /\ stage = "commit"
  /\ rob[t] # <<>>
  /\ Done(Head(rob[t]))
  /\ rob' = [rob EXCEPT ![t] = Tail(@)]
  /\ UNCHANGED <<reg, iq, stage, n>>

(* Commit also ends for want of a store port or of commit bandwidth.       *)
EndCommit == stage = "commit" /\ Goes("writeback") /\ UNCHANGED <<rob, reg, iq>>

Finished == {u \in On("event") : PartOf(u).when <= 0}

Writeback ==
  /\ stage = "writeback"
  /\ rob' = Changed(rob, [u \in Finished |->
              [PartOf(u) EXCEPT !.completed = TRUE, !.lists = @ \ {"event"}, !.when = Past]])
  /\ Goes("lsq_refresh")
  /\ UNCHANGED <<reg, iq>>

(* Seeded fault: the search skips a store whose address is unknown, where  *)
(* it has to stop.                                                         *)
MayLoad_Skips(t, i) ==
  LET known == {j \in 1 .. i - 1 : /\ IsStore(rob[t][j])
                                  /\ OperandsSpecReady(rob[t][j], "op")}
      same  == {j \in known : rob[t][j].addr = rob[t][i].addr}
  IN same # {} => OperandsSpecReady(rob[t][Max(same)], "mem")

(* A load passes the older stores when all their addresses are known, and  *)
(* the youngest of them to its own address has its operands.               *)
MayLoad(t, i) ==
  LET older == {j \in 1 .. i - 1 : IsStore(rob[t][j])}
      same  == {j \in older : rob[t][j].addr = rob[t][i].addr}
  IN /\ \A j \in older : OperandsSpecReady(rob[t][j], "op")
     /\ same # {} => OperandsSpecReady(rob[t][Max(same)], "mem")

LoadsToQueue ==
  {u \in Units :
     /\ u[3] = "mem" /\ At(u).class = "load" /\ At(u).dispatched
     /\ ~PartOf(u).queued /\ ~PartOf(u).issued /\ ~PartOf(u).completed
     /\ OperandsSpecReady(At(u), "mem")
     /\ MayLoad(u[1], u[2])}

LsqRefresh ==
  /\ stage = "lsq_refresh"
  /\ rob' = Changed(rob, [u \in LoadsToQueue |-> Enqueued(u)])
  /\ Goes("wakeup")
  /\ UNCHANGED <<reg, iq>>

Woken == {u \in On("waiting") : OperandsSpecReady(At(u), u[3])}

Wakeup ==
  /\ stage = "wakeup"
  /\ rob' = Changed(rob, [u \in Woken |-> Enqueued(u)])
  /\ Goes("selection")
  /\ UNCHANGED <<reg, iq>>

-----------------------------------------------------------------------------
(***************************************************************************)
(* selection(): the oldest instructions of the ready queue that find a     *)
(* functional unit.                                                        *)
(***************************************************************************)
IsStoreAccess(u) == u[3] = "mem" /\ IsStore(At(u))
IsLoadAccess(u)  == u[3] = "mem" /\ At(u).class = "load"

(* The value comes from an older store in the LSQ, whether or not that     *)
(* store has its operands.                                                 *)
Forwarded(u) == \E j \in 1 .. u[2] - 1 :
                  IsStore(rob[u[1]][j]) /\ rob[u[1]][j].addr = At(u).addr

(* A store conditional takes the latency that an earlier user of its LSQ   *)
(* entry has left there.                                                   *)
Latencies(u) ==
  CASE IsLoadAccess(u) -> IF Forwarded(u) THEN {1} ELSE LoadLats
    [] At(u).class = "store_cond" /\ u[3] = "mem" -> LoadLats \cup {0}
    [] ~IsMem(At(u)) -> AluLats
    [] OTHER -> {1}

(* When the dependents of u may issue; hit is the prediction.              *)
SpecReady(u, lat, hit) ==
  IF IsLoadAccess(u) /\ Squash THEN IF hit THEN HitLat ELSE lat + Delay
  ELSE lat

ReadyTime(lat) == lat + Delay

Issued(u, lat) ==
  IF IsStoreAccess(u)
  THEN [PartOf(u) EXCEPT !.queued = FALSE, !.issued = TRUE, !.completed = TRUE,
                         !.lists = @ \ {"ready"}]
  ELSE [PartOf(u) EXCEPT !.queued = FALSE, !.issued = TRUE, !.exec_lat = lat,
                         !.lists = (@ \ {"ready"}) \cup {"issue_exec"}, !.when = Delay]

(* What is issued: without contention for the units, the oldest.           *)
Selectable(I) ==
  /\ Cardinality(I) <= Width
  /\ UnitsFree => /\ Cardinality(I) = Min({Width, Cardinality(On("ready"))})
                  /\ \A u \in On("ready") \ I : ~ \E v \in I : OlderThan(u, v)

(* The one of the issued instructions that announces its result in r, and  *)
(* when it says that the result will be ready.                             *)
IssuesTo(I, r) == {u \in I : Produces(At(u), u[3]) /\ At(u).dest = r}

AfterIssue(I, lat, hit) ==
  [r \in Regs |->
     IF IssuesTo(I, r) = {} THEN reg[r]
     ELSE LET u == CHOOSE v \in IssuesTo(I, r) : TRUE
          IN [spec_ready |-> SpecReady(u, lat[u], IsLoadAccess(u) /\ hit[u]),
              ready |-> ReadyTime(lat[u])]]

Selection ==
  /\ stage = "selection"
  /\ \E I \in SUBSET On("ready") :
       /\ Selectable(I)
       /\ \E lat \in [I -> LoadLats \cup AluLats \cup {0, 1}],
             hit \in [{u \in I : IsLoadAccess(u)} -> BOOLEAN] :
            /\ \A u \in I : lat[u] \in Latencies(u)
            /\ rob' = Changed(rob, [u \in I |-> Issued(u, lat[u])])
            /\ reg' = AfterIssue(I, lat, hit)
  /\ Goes("execute")
  /\ UNCHANGED iq

-----------------------------------------------------------------------------
(***************************************************************************)
(* execute().                                                              *)
(***************************************************************************)
Due == {u \in On("issue_exec") : PartOf(u).when <= 0}

(* The instructions that reach execution without their operands; the       *)
(* oldest of a thread starts its replay.                                   *)
TooEarly(t) == {u \in Due : u[1] = t /\ ~OperandsReady(At(u), u[3])}
Culprit(t)  == CHOOSE u \in TooEarly(t) : \A v \in TooEarly(t) : v = u \/ OlderThan(u, v)

Replays(t)  == TooEarly(t) # {}

Executed == {u \in Due : Replays(u[1]) => OlderThan(u, Culprit(u[1]))}

Replayed == {u \in On("issue_exec") \ Executed : Replays(u[1])}

(* Seeded fault: the replay forgets the ready queue.                       *)
Flushed_None == {}

Flushed == {u \in On("ready") : Replays(u[1])}

(* Seeded fault: all accesses are left to lsq_refresh().                   *)
BackTo_NotStores(u) == IF u[3] = "mem" THEN {} ELSE {"waiting"}

(* A load is found again by lsq_refresh().                                 *)
BackTo(u) == IF IsLoadAccess(u) THEN {} ELSE {"waiting"}

Restarted(u) == [PartOf(u) EXCEPT !.queued = FALSE, !.issued = FALSE,
                                  !.lists = (@ \ {"ready", "issue_exec"}) \cup BackTo(u),
                                  !.when = Past, !.exec_lat = 0]

(* The operands of a culprit get their true time, the stored value of an   *)
(* address computation too; but only in registers numbered above 0.        *)
Adjusted(r) == \E t \in Threads : Replays(t) /\ r \in Range(At(Culprit(t)).src) /\ r > 0

(* Seeded fault: what a replayed instruction has announced stays.          *)
Withdrawn_Not(r) == FALSE

Withdrawn(r) == \E u \in Replayed : Produces(At(u), u[3]) /\ At(u).dest = r

TrueTime(time) == IF time = Never THEN Never ELSE Max({time - Delay, Past})

Started(u) == [PartOf(u) EXCEPT !.lists = (@ \ {"issue_exec"}) \cup {"event"},
                                !.when = @ + PartOf(u).exec_lat, !.exec_lat = 0]

(* Execution begins for some, a replay for others.                         *)
AfterExecute == [u \in Executed \cup Replayed \cup Flushed |->
                   IF u \in Executed THEN Started(u) ELSE Restarted(u)]

(* An instruction that begins to execute leaves the issue queue.           *)
SlotsLeft(robs) ==
  [t \in Threads |-> [i \in DOMAIN robs[t] |->
     [robs[t][i] EXCEPT !.slot = IF <<t, i, "op">> \in Executed THEN NoSlot ELSE @]]]

Execute ==
  /\ stage = "execute"
  /\ rob' = SlotsLeft(Changed(rob, AfterExecute))
  /\ iq' = [s \in 1 .. IqSize |->
              iq[s] /\ ~ \E u \in Executed : u[3] = "op" /\ At(u).slot = s]
  /\ reg' = [r \in Regs |->
       IF Withdrawn(r) THEN [spec_ready |-> Never, ready |-> Never]
       ELSE IF Adjusted(r) THEN [reg[r] EXCEPT !.spec_ready = TrueTime(reg[r].ready)]
       ELSE reg[r]]
  /\ Goes("dispatch")

-----------------------------------------------------------------------------
(***************************************************************************)
(* dispatch() and register_rename().                                       *)
(***************************************************************************)
Undispatched(t) == {i \in DOMAIN rob[t] : ~rob[t][i].dispatched}

(* Seeded fault: find_iq_entry() takes any entry.                          *)
FreeSlots_Any == 1 .. IqSize

FreeSlots == {s \in 1 .. IqSize : ~iq[s]}

CanDispatch(t) == Undispatched(t) # {} /\ n < Width /\ FreeSlots # {}

Placed(e, p) ==
  IF OperandsSpecReady(e, p) THEN [e[p] EXCEPT !.lists = {"ready"}, !.queued = TRUE]
  ELSE [e[p] EXCEPT !.lists = {"waiting"}]

Dispatch(t) ==
  LET i == Min(Undispatched(t))
      e == rob[t][i]
      s == Min(FreeSlots)
  IN /\ stage = "dispatch"
     /\ CanDispatch(t)
     /\ rob' = [rob EXCEPT ![t][i] =
          [e EXCEPT !.dispatched = TRUE, !.slot = s, !.op = Placed(e, "op"),
                    !.mem = IF IsStore(e) THEN Placed(e, "mem") ELSE @]]
     /\ iq' = [iq EXCEPT ![s] = TRUE]
     /\ n' = n + 1
     /\ UNCHANGED <<reg, stage>>

EndDispatch ==
  /\ stage = "dispatch"
  /\ \A t \in Threads : ~CanDispatch(t)
  /\ Goes("register_rename")
  /\ UNCHANGED <<rob, reg, iq>>

Dests(t) == {rob[t][i].dest : i \in DOMAIN rob[t]} \ {NoReg}
InUse    == UNION {Dests(t) \cup UNION {Range(rob[t][i].src) : i \in DOMAIN rob[t]} :
                     t \in Threads}

(* What an instruction of thread t may read: a result in flight, or a      *)
(* committed one that is not yet on the bypass.  All others are as good as *)
(* no operand.                                                             *)
Readable(t) == {NoReg} \cup Dests(t) \cup
               {r \in Regs : /\ reg[r].ready > Past
                             /\ r \notin UNION {Dests(u) : u \in Threads}}

Entries(t) ==
  {NewEntry(c, NoReg, <<s1, s2>>, a) :
     c \in Classes, s1 \in Readable(t), s2 \in Readable(t), a \in Addrs \cup {NoAddr}}

WellFormed(e) ==
  /\ e.addr = NoAddr <=> ~IsMem(e)
  /\ e.class = "load" => e.src[1] = NoReg
  /\ ~IsMem(e) => e.src[1] <= e.src[2]      (* their order does not matter *)

CanRename(t) == n < RenameWidth /\ Len(rob[t]) < RobSize

(* find_free_physreg() takes the first register that is free.              *)
Rename(t) ==
  /\ stage = "register_rename"
  /\ CanRename(t)
  /\ \E e \in Entries(t) :
       LET free == Regs \ (InUse \cup Range(e.src))
       IN /\ WellFormed(e)
          /\ \/ /\ e.class \notin {"store", "branch"}
                /\ free # {}
                /\ rob' = [rob EXCEPT ![t] = Append(@, [e EXCEPT !.dest = Min(free)])]
                /\ reg' = [reg EXCEPT ![Min(free)] = [spec_ready |-> Never, ready |-> Never]]
             \/ /\ e.class \in {"store", "branch"}
                /\ rob' = [rob EXCEPT ![t] = Append(@, e)]
                /\ UNCHANGED reg
  /\ n' = n + 1
  /\ UNCHANGED <<iq, stage>>

Later(time) == IF time = Never THEN Never ELSE Max({time - 1, Past})

(* The end of the cycle: sim_cycle++.                                      *)
EndCycle ==
  /\ stage = "register_rename"
  /\ rob' = Changed(rob, [u \in Units |-> [PartOf(u) EXCEPT !.when = Later(@)]])
  /\ reg' = [r \in Regs |-> [spec_ready |-> Later(reg[r].spec_ready),
                             ready      |-> Later(reg[r].ready)]]
  /\ Goes("commit")
  /\ UNCHANGED iq

Next ==
  /\ \/ \E t \in Threads : Commit(t) \/ Dispatch(t) \/ Rename(t)
     \/ EndCommit \/ Writeback \/ LsqRefresh \/ Wakeup \/ Selection \/ Execute
     \/ EndDispatch \/ EndCycle
  /\ UNCHANGED recovery_model_v

Spec     == Init /\ [][Next]_vars
FairSpec == Spec /\ WF_vars(Next)

-----------------------------------------------------------------------------
(***************************************************************************)
(* Properties                                                              *)
(***************************************************************************)
Times     == Past .. MaxTime \cup {Never}
PartTypes == [queued : BOOLEAN, issued : BOOLEAN, completed : BOOLEAN,
              lists : SUBSET {"waiting", "ready", "issue_exec", "event"},
              when : Times, exec_lat : 0 .. MaxTime]

(* The type invariant.                                                     *)
SchedTypeOK ==
  /\ \A t \in Threads : /\ Len(rob[t]) <= RobSize
                        /\ \A i \in DOMAIN rob[t] : LET e == rob[t][i] IN
                             /\ e.class \in Classes /\ e.dest \in Regs \cup {NoReg}
                             /\ e.slot \in 0 .. IqSize /\ e.dispatched \in BOOLEAN
                             /\ {e.op, e.mem} \subseteq PartTypes
  /\ reg \in [Regs -> [spec_ready : Times, ready : Times]]
  /\ iq \in [1 .. IqSize -> BOOLEAN]
  /\ n \in 0 .. Max({Width, RenameWidth})
  /\ recovery_model_v \in Recovery

(* The assert of writeback() "ready != sim_cycle": a result arrives in     *)
(* exactly the cycle that was announced when its instruction was issued.   *)
ResultOnTime ==
  stage = "writeback" =>
    \A u \in Finished : Produces(At(u), u[3]) => reg[At(u).dest].ready = 0

(* The panic of writeback() and the asserts of selection(), readyq_enqueue *)
(* and execute() on the flags of an instruction: each is on the one list   *)
(* that its flags say, and on none once it is completed.                   *)
OnOneList ==
  \A u \in Units : LET q == PartOf(u) IN
    /\ "ready" \in q.lists <=> q.queued
    /\ "issue_exec" \in q.lists \/ "event" \in q.lists <=> q.issued /\ ~q.completed
    /\ \A a, b \in q.lists : a = b
    /\ q.completed => q.lists = {} /\ ~q.queued
    /\ At(u).dispatched /\ ~q.completed /\ q.lists = {} => IsLoadAccess(u)

(* Every instruction is where its flags say, in the shape it should have.  *)
QueuesInv == SchedTypeOK /\ OnOneList

(* What is in the ready queue when selection() comes still has its         *)
(* operands, although replays withdraw results ("issued inst not spec      *)
(* ready").                                                                *)
ReadyStaysReady ==
  stage = "selection" => \A u \in On("ready") : OperandsSpecReady(At(u), u[3])

(* What is announced is kept: results arrive in their cycle, and who was   *)
(* told to issue may.                                                      *)
AssertionsHold == ResultOnTime /\ ReadyStaysReady

(* Every entry of the issue queue in use belongs to one instruction that   *)
(* has not begun to execute, and every such instruction has one: a replay  *)
(* neither frees an entry nor loses it.                                    *)
UsesSlot(e, s) == /\ e.slot = s /\ e.dispatched
                  /\ ~e.op.completed /\ "event" \notin e.op.lists

IqExact ==
  \A s \in 1 .. IqSize :
    Cardinality({v \in Threads \X (1 .. RobSize) :
                   v[2] \in DOMAIN rob[v[1]] /\ UsesSlot(At(v), s)})
      = IF iq[s] THEN 1 ELSE 0

Begun(u) == PartOf(u).completed \/ "event" \in PartOf(u).lists

(* No instruction begins to execute before the instructions it reads from  *)
(* have delivered, however often they were replayed.                       *)
DataFlow ==
  \A u \in Units : \A j \in 1 .. u[2] - 1 :
    LET e == rob[u[1]][j] IN
      /\ Begun(u) /\ ~IsStoreAccess(u)
      /\ e.dest \in SrcsOf(At(u), u[3]) /\ e.class # "store_cond"
      => IF IsMem(e) THEN e.mem.completed ELSE e.op.completed

(* The recovery model "perfect" never replays (assert(FALSE)).             *)
PerfectNeverReplays ==
  stage = "execute" /\ ~Squash => \A t \in Threads : ~Replays(t)

(* A replay harms nothing but time, and happens only where it may.         *)
ReplayInv == IqExact /\ PerfectNeverReplays

(* A load executes after the addresses of all older stores are known, not  *)
(* only predicted to be: "no later load could be resolved in its           *)
(* presence", the presence of an unresolved store.                         *)
LoadsFollowStores ==
  \A u \in Units : IsLoadAccess(u) /\ Begun(u) =>
    \A j \in 1 .. u[2] - 1 : IsStore(rob[u[1]][j]) =>
      \A r \in SrcsOf(rob[u[1]][j], "op") : reg[r].ready <= 0

(* The oldest instruction of a thread completes: replays come to an end    *)
(* (the timeout of commit(): no instructions have committed in a long      *)
(* time).                                                                  *)
HeadCompletes == \A t \in Threads : []<>(rob[t] = <<>> \/ Done(Head(rob[t])))

=============================================================================
