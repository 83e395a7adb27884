--------------------------- MODULE MemoryHierarchy ---------------------------
(***************************************************************************)
(* The data side of a core: stores that commit, loads that issue, the      *)
(* memory ports and the write buffer they need, and the two data caches    *)
(* below.  A cycle is commit(), update_fu(), selection().                  *)
(***************************************************************************)
EXTENDS Cache, ResourcePool

CONSTANTS
  Machines,              (* the geometries of dl1 and dl2, and work: the   *)
                         (* contexts that run, and the blocks each uses    *)
  MemLat,                (* main memory                                    *)
  TlbLats,               (* latencies of the data TLB                      *)
  CommitWidth, LoadWidth,
  WriteBufSize,
  MaxBacklog,            (* bound: loads wait while the bus of the first   *)
                         (* level is taken for longer, as a full LSQ would *)
                         (* make them                                      *)
  MaxWait

ASSUME HierarchyAssumption ==
  /\ \A m \in Machines :
       /\ {m.dl1, m.dl2} \subseteq Geometries(Nat \ {0}, Nat \ {0}, {"LRU", "FIFO"}, Nat)
       /\ DOMAIN m.work # {} /\ DOMAIN m.work \subseteq Nat /\ IsFiniteSet(DOMAIN m.work)
       /\ \A t \in DOMAIN m.work : m.work[t] \subseteq Nat
  /\ {CommitWidth, WriteBufSize} \subseteq Nat \ {0}
  /\ {MemLat, LoadWidth, MaxBacklog, MaxWait} \subseteq Nat
  /\ TlbLats \subseteq Nat \ {0}

VARIABLES
  work,          (* the workload                                           *)
  dl1, dl2,
  busy,          (* the functional units                                   *)
  write_buf,     (* [past, pending]: finishing times before now, and       *)
                 (* the others from now on                                 *)
  age,           (* per context, the cycles a store at its ROB head waits, *)
                 (* counted to MaxWait + 1                                 *)
  turn,          (* sim_cycle modulo the number of contexts                *)
  left,          (* contexts_left of commit(), or Issuing                  *)
  slots,         (* instructions committed, or loads issued, this cycle    *)
  modified       (* history: <<context, block>>s newer than main memory    *)

caches == <<dl1, dl2, modified>>
vars == <<work, caches, busy, write_buf, age, turn, left, slots>>

Issuing == <<-1>>

running == DOMAIN work

Waited(n) == IF n > MaxWait THEN n ELSE n + 1

(* The contexts from the one whose turn it is on.                          *)
RoundRobin(n) ==
  LET ids == SetToSortSeq(running, <)
  IN [i \in 1 .. Len(ids) |-> ids[((n + i - 1) % Len(ids)) + 1]]

Init ==
  /\ \E m \in Machines :
       work = m.work /\ dl1 = NewCache(m.dl1) /\ dl2 = NewCache(m.dl2)
  /\ busy = NewPool
  /\ write_buf = [past |-> 0, pending |-> {}]
  /\ age = [t \in running |-> 0]
  /\ turn = 0
  /\ left = RoundRobin(0)
  /\ slots = 0
  /\ modified = {}

-----------------------------------------------------------------------------
(* The miss handlers.  The latency of a write is not waited for.           *)

(* dl2_access_fn(), without a third level: main memory.                    *)
Dl2Below(m, cmd, b, t, at) ==
  IF cmd = "Write" THEN [lower |-> m \ {<<t, b>>}, lat |-> 0]
  ELSE [lower |-> m, lat |-> MemLat]

(* dl1_access_fn(), for a level below that is a record of dl2 and memory.  *)
Dl1Below(below, cmd, b, t, at) ==
  LET r == CacheAccess(below.dl2, cmd, b, t, at, below.memory, Dl2Below)
  IN [lower |-> [dl2 |-> r.cache, memory |-> r.lower],
      lat   |-> IF cmd = "Read" THEN r.lat ELSE 0]

Dl1Access(cmd, b, t) ==
  CacheAccess(dl1, cmd, b, t, 0, [dl2 |-> dl2, memory |-> modified], Dl1Below)

AccessDl1(cmd, b, t) ==
  LET r == Dl1Access(cmd, b, t)
  IN /\ dl1' = r.cache
     /\ dl2' = r.lower.dl2
     /\ modified' = IF cmd = "Write" THEN r.lower.memory \cup {<<t, b>>} ELSE r.lower.memory

-----------------------------------------------------------------------------
(* commit()                                                                *)

Committing == left # Issuing /\ left # <<>> /\ slots < CommitWidth

Size(wb) == wb.past + Cardinality(wb.pending)

(* Seeded fault: entries are never taken out.                              *)
Purged_Never(wb) == wb

(* Only a full buffer is looked through for writes that have finished.     *)
Purged(wb) == IF Size(wb) = WriteBufSize THEN [wb EXCEPT !.past = 0] ELSE wb

StorePort == res_get(busy, "WrPort")

NoEntry(wb) == Size(Purged(wb)) = WriteBufSize

(* write_buf is a std::set: a time that is there already takes no entry.   *)
CommitStore(t, b) ==
  /\ Committing
  /\ t = Head(left) /\ age[t] > 0
  /\ StorePort # 0 /\ ~NoEntry(write_buf)
  /\ AccessDl1("Write", b, t)
  /\ busy' = Reserved(busy, StorePort)
  /\ \E tlb \in TlbLats :
       write_buf' = [Purged(write_buf) EXCEPT !.pending =
                       @ \cup {Larger(Dl1Access("Write", b, t).lat, tlb)}]
  /\ \E next \in {0, 1} : age' = [age EXCEPT ![t] = next]
  /\ slots' = slots + 1
  /\ UNCHANGED <<work, turn, left>>

(* The store at the head finds no port or no entry.                        *)
CommitStalls(t) ==
  /\ Committing
  /\ t = Head(left) /\ age[t] > 0
  /\ StorePort = 0 \/ NoEntry(write_buf)
  /\ write_buf' = Purged(write_buf)
  /\ age' = [age EXCEPT ![t] = Waited(@)]
  /\ left' = Tail(left)
  /\ UNCHANGED <<work, caches, busy, turn, slots>>

(* Another instruction retires, or none can.                               *)
CommitOther(t) ==
  /\ Committing
  /\ t = Head(left) /\ age[t] = 0
  /\ \/ slots' = slots + 1 /\ UNCHANGED left
     \/ left' = Tail(left) /\ UNCHANGED slots
  /\ UNCHANGED <<work, caches, busy, write_buf, age, turn>>

(* A store that got no visit in this cycle has waited as well.             *)
NotVisited(t) == t \in ToSet(left)

(* The end of commit(), and update_fu().                                   *)
EndCommit ==
  /\ left # Issuing
  /\ ~Committing
  /\ left' = Issuing
  /\ slots' = 0
  /\ busy' = Released(busy)
  /\ age' = [t \in running |-> IF age[t] > 0 /\ NotVisited(t) THEN Waited(age[t]) ELSE age[t]]
  /\ UNCHANGED <<work, caches, write_buf, turn>>

(* selection() issues a load that no store in the LSQ serves.              *)
IssueLoad(t, b) ==
  /\ left = Issuing
  /\ slots < LoadWidth /\ dl1.bus_free <= MaxBacklog
  /\ res_get(busy, "RdPort") # 0
  /\ AccessDl1("Read", b, t)
  /\ busy' = Reserved(busy, res_get(busy, "RdPort"))
  /\ slots' = slots + 1
  /\ UNCHANGED <<work, write_buf, age, turn, left>>

NextTurn == (turn + 1) % Cardinality(running)

(* sim_cycle++.  By then any store may have come to the head of its ROB.   *)
EndCycle ==
  /\ left = Issuing
  /\ dl1' = Elapsed(dl1) /\ dl2' = Elapsed(dl2)
  /\ write_buf' = [past    |-> write_buf.past + (IF 0 \in write_buf.pending THEN 1 ELSE 0),
                   pending |-> {n - 1 : n \in write_buf.pending \ {0}}]
  /\ \E arrived \in SUBSET {t \in running : age[t] = 0} :
       age' = [t \in running |-> IF t \in arrived THEN 1 ELSE age[t]]
  /\ turn' = NextTurn
  /\ left' = RoundRobin(NextTurn)
  /\ slots' = 0
  /\ UNCHANGED <<work, busy, modified>>

-----------------------------------------------------------------------------
Next ==
  \/ \E t \in running : \/ \E b \in work[t] : CommitStore(t, b) \/ IssueLoad(t, b)
                        \/ CommitStalls(t) \/ CommitOther(t)
  \/ EndCommit
  \/ EndCycle

Spec == Init /\ [][Next]_vars

-----------------------------------------------------------------------------
(***************************************************************************)
(* Properties                                                              *)
(***************************************************************************)

(* The type invariant, with the bound of the write buffer.                 *)
MemTypeOK ==
  /\ Size(write_buf) <= WriteBufSize
  /\ \A u \in DOMAIN busy : busy[u] \in 0 .. IssueLat
  /\ slots \in 0 .. Larger(CommitWidth, LoadWidth)

(* The pointers of every set are those of an order of its blocks, and      *)
(* another move of any block will change that order as it should, whichever*)
(* of its four cases update_way_list() takes.                              *)
(* Source: its asserts on way_head, way_tail, way_next and way_prev.       *)
WayListIsOrder ==
  \A c \in {dl1, dl2} : \A s \in DOMAIN c.sets : ListIsOrder(c.sets[s].links)

(* No cache has two copies of a block of a context, however the contexts   *)
(* replace one another's.  Source: cache_access() stops at the first match.*)
OneCopy ==
  \A c \in {dl1, dl2} : \A s \in DOMAIN c.sets :
    LET blks == c.sets[s].blks
    IN \A w, x \in DOMAIN blks :
         /\ blks[w].valid /\ blks[x].valid
         /\ blks[w].addr = blks[x].addr /\ blks[w].context_id = blks[x].context_id
         => w = x

(* Each set is a list of different blocks, hand-linked in one order.       *)
CachesInv == MemTypeOK /\ OneCopy /\ WayListIsOrder

Dirty(t, b) ==
  \E c \in {dl1, dl2} : \E blk \in Valid(c) :
    blk.addr = b /\ blk.context_id = t /\ blk.dirty

(* What a context has stored is in main memory or in a dirty block that is *)
(* its own.  Source: "dirty block, must be written back before eviction"   *)
(* and "context_id of the owner of the data in the block" in cache.h.      *)
DirtyBlockHasOwner == \A m \in modified : Dirty(m[1], m[2])

(* That holds when a context has the caches to itself.                     *)
NothingLostAlone == Cardinality(running) = 1 => DirtyBlockHasOwner

(* A block is never in the first level before it can be in the second: no  *)
(* access is answered from a fill that is still under way below.           *)
(* Source: ready, and the latencies that the miss handlers return.         *)
FillOrder ==
  Cardinality(running) = 1 =>
    \A hi \in Valid(dl1), lo \in Valid(dl2) :
      hi.addr = lo.addr => hi.ready >= lo.ready

(* To a context that has them to itself the two levels are one memory.     *)
AloneCoherent == NothingLostAlone /\ FillOrder

(* Of the contexts with a store at the head of the ROB one always gets it  *)
(* out soon, whatever the write buffer holds and the loads do to the ports *)
(* (the same one may be late time and again).  Source: commit(), where     *)
(* only a full buffer is purged, and "no store ports left, cannot continue *)
(* to commit insts".                                                       *)
StoresGetThrough == \E t \in running : age[t] <= MaxWait

=============================================================================
