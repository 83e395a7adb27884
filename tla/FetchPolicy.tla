----------------------------- MODULE FetchPolicy -----------------------------
(***************************************************************************)
(* The threads of a core compete for fetch: icount_fetch(), RR_fetch() or  *)
(* dcra_fetch() orders them, and fetch() serves the order under its limits *)
(* (two contexts, half of the width, one basic block, a full queue, an     *)
(* instruction cache miss).  An instruction is only where it is: waiting   *)
(* in the fetch queue, renamed, in the issue queue, or executed.  Programs *)
(* are integer programs, whose DCRA_activity_fp has run out.               *)
(***************************************************************************)
EXTENDS Integers, SequencesExt

CONSTANTS
  N,                   (* contexts of the core, 0 .. N - 1 on context_ids  *)
  Width,               (* decode_width * fetch_speed                       *)
  IfqSize, RobSize,
  IqSize, RfSize,
  Delay,               (* FETCH_RENAME_DELAY                               *)
  MissLat,             (* a fetch takes 1 or MissLat cycles                *)
  L1Lat,               (* exec_lat of a load that missed                   *)
  Large, Loading,      (* contexts that miss in the instruction cache, and *)
                       (* in the data cache                                *)
  Policies

ASSUME FetchAssumption ==
  /\ {N, Width, IfqSize, RobSize, IqSize, RfSize, MissLat} \subseteq Nat \ {0}
  /\ {Delay, L1Lat} \subseteq Nat
  /\ Large \cup Loading \subseteq 0 .. N - 1
  /\ Policies # {} /\ Policies \subseteq {"icount", "round_robin", "dcra"}

Contexts == 0 .. N - 1

VARIABLES
  policy,
  cycle,               (* sim_cycle, modulo N                              *)
  ifq,                 (* per context, the cycles each must still wait     *)
  renamed, queued, executed,   (* its ROB entries by where they are        *)
  icount,
  fetch_issue_delay,
  DCRA_L1_misses,
  left,                (* contexts_left of fetch(), or Idle outside it     *)
  slot,                (* i of its loop                                    *)
  discontinuous,
  fetched,             (* instructions per context in this cycle           *)
  broke,               (* history: contexts cut at a taken branch          *)
  passed               (* history: cycles an idle context was passed over  *)

pipeline == <<ifq, renamed, queued, executed, icount, DCRA_L1_misses>>
loop     == <<left, slot, discontinuous, fetched, broke>>
vars     == <<policy, cycle, fetch_issue_delay, pipeline, loop, passed>>

Idle == <<-1>>
Rob(t) == renamed[t] + queued[t] + executed[t]
None == [t \in Contexts |-> 0]

Init ==
  /\ policy \in Policies
  /\ cycle = 0
  /\ ifq = [t \in Contexts |-> <<>>]
  /\ renamed = None /\ queued = None /\ executed = None /\ icount = None
  /\ fetch_issue_delay = None /\ DCRA_L1_misses = None
  /\ left = Idle /\ slot = 0 /\ discontinuous = FALSE
  /\ fetched = None /\ broke = {} /\ passed = None

-----------------------------------------------------------------------------
(* What the other stages do to these counters, one instruction at a time.  *)

Outside == left = Idle /\ UNCHANGED <<policy, cycle, fetch_issue_delay, loop, passed>>

Ripe(t) == ifq[t] # <<>> /\ Head(ifq[t]) = 0

(* register_rename(): a no-op leaves at once, the rest get a ROB entry.    *)
Rename(t) ==
  /\ Outside
  /\ Ripe(t) /\ Rob(t) < RobSize
  /\ renamed' = [renamed EXCEPT ![t] = @ + 1]
  /\ ifq' = [ifq EXCEPT ![t] = Tail(@)]
  /\ UNCHANGED <<queued, executed, icount, DCRA_L1_misses>>

RenameNop(t) ==
  /\ Outside
  /\ Ripe(t) /\ Rob(t) < RobSize
  /\ icount' = [icount EXCEPT ![t] = @ - 1]
  /\ ifq' = [ifq EXCEPT ![t] = Tail(@)]
  /\ UNCHANGED <<renamed, queued, executed, DCRA_L1_misses>>

(* Seeded fault: the drained instructions stay in icount.                  *)
IcountDrained_Not(t) == icount[t]

IcountDrained(t) == icount[t] - Len(ifq[t])

(* A misfetch: the branch is renamed and what follows it is drained.       *)
RenameRedirected(t) ==
  /\ Outside
  /\ Ripe(t) /\ Rob(t) < RobSize
  /\ renamed' = [renamed EXCEPT ![t] = @ + 1]
  /\ ifq' = [ifq EXCEPT ![t] = <<>>]
  /\ icount' = [icount EXCEPT ![t] = IcountDrained(t) + 1]
  /\ UNCHANGED <<queued, executed, DCRA_L1_misses>>

(* dispatch(), with its count of entries of the issue queue.               *)
Dispatch(t) ==
  /\ Outside
  /\ renamed[t] > 0
  /\ FoldFunction(+, 0, queued) < IqSize
  /\ renamed' = [renamed EXCEPT ![t] = @ - 1]
  /\ queued' = [queued EXCEPT ![t] = @ + 1]
  /\ UNCHANGED <<ifq, executed, icount, DCRA_L1_misses>>

(* execute(); a load that misses has raised DCRA_L1_misses at its issue,   *)
(* which only dcra_fetch() reads and lowers.                               *)
Execute(t) ==
  /\ Outside
  /\ queued[t] > 0
  /\ queued' = [queued EXCEPT ![t] = @ - 1]
  /\ executed' = [executed EXCEPT ![t] = @ + 1]
  /\ icount' = [icount EXCEPT ![t] = @ - 1]
  /\ \E lat \in IF policy = "dcra" /\ t \in Loading THEN {0, L1Lat} ELSE {0} :
       DCRA_L1_misses' = [DCRA_L1_misses EXCEPT ![t] = IF lat > @ THEN lat ELSE @]
  /\ UNCHANGED <<ifq, renamed>>

Commit(t) ==
  /\ Outside
  /\ executed[t] > 0
  /\ executed' = [executed EXCEPT ![t] = @ - 1]
  /\ UNCHANGED <<ifq, renamed, queued, icount, DCRA_L1_misses>>

(* A branch executes and recovers, rollbackTo(): any younger part of the   *)
(* window is squashed, and all that was fetched.                           *)
Rollback(t) ==
  /\ Outside
  /\ queued[t] > 0
  /\ ifq' = [ifq EXCEPT ![t] = <<>>]
  /\ \E r \in 0 .. renamed[t], q \in 0 .. queued[t] - 1, e \in 0 .. executed[t] :
       /\ renamed' = [renamed EXCEPT ![t] = r]
       /\ queued' = [queued EXCEPT ![t] = q]
       /\ executed' = [executed EXCEPT ![t] = e + 1]
       /\ icount' = [icount EXCEPT ![t] =
                       IcountDrained(t) - (renamed[t] - r) - (queued[t] - q)]
  /\ UNCHANGED DCRA_L1_misses

-----------------------------------------------------------------------------
(* The order of the contexts.                                              *)

(* sort() by icount; the few equal counts keep their order on context_ids. *)
Before(a, b) == icount[a] < icount[b] \/ (icount[a] = icount[b] /\ a < b)

(* The sorted list of the contexts in ids, as the set of that one list.    *)
ByIcount(ids) == {s \in SetToSeqs(ids) : \A i, j \in DOMAIN s : i < j => Before(s[i], s[j])}

ContextIds == [i \in 1 .. N |-> i - 1]

(* Seeded fault: the order does not turn.                                  *)
RR_fetch_Fixed(ids) == ids

RR_fetch(ids) == [i \in 1 .. N |-> ids[((cycle + i - 1) % N) + 1]]

(* dcra_fetch() first lets the misses decay by a cycle.                    *)
Decayed(n) == IF n > 0 THEN n - 1 ELSE n

Fast(t) == Decayed(DCRA_L1_misses[t]) = 0

(* The share of each context: (1/num_contexts) is an integer division, and *)
(* num_fa is 0 without floating point.                                     *)
Share(size) == (size \div N) * (1 + (1 \div N) * 0)

(* Slow contexts that hold their share are left out.                       *)
Blocked(t) == /\ ~Fast(t)
              /\ \/ queued[t] >= Share(IqSize)
                 \/ Rob(t) >= Share(RfSize)

dcra_fetch == ByIcount({t \in Contexts : ~Blocked(t)})

Orders == CASE policy = "icount"      -> ByIcount(Contexts)
            [] policy = "round_robin" -> {RR_fetch(ContextIds)}
            [] policy = "dcra"        -> dcra_fetch

(* The fetcher is called, and the loop of fetch() starts.                  *)
StartFetch ==
  /\ left = Idle
  /\ left' \in Orders
  /\ DCRA_L1_misses' = IF policy # "dcra" THEN DCRA_L1_misses
                       ELSE [t \in Contexts |-> Decayed(DCRA_L1_misses[t])]
  /\ UNCHANGED <<policy, cycle, fetch_issue_delay, ifq, renamed, queued, executed, icount,
                 slot, discontinuous, fetched, broke, passed>>

-----------------------------------------------------------------------------
(* fetch()                                                                 *)

FetchedFrom == {t \in Contexts : fetched[t] > 0}

(* The turn of the first context ends without a fetch.                     *)
Cut(t) == \/ discontinuous
          \/ Len(ifq[t]) = IfqSize
          \/ fetch_issue_delay[t] > 0

Fetching == left \notin {Idle, <<>>} /\ slot < Width

Skip ==
  /\ Fetching
  /\ Cut(Head(left))
  /\ left' = Tail(left)
  /\ discontinuous' = FALSE
  /\ UNCHANGED <<policy, cycle, fetch_issue_delay, pipeline, slot, fetched, broke, passed>>

(* A third context is not fetched from, and fetch() ends there.            *)
ThirdContext == Cardinality(FetchedFrom) = 2 /\ Head(left) \notin FetchedFrom

(* The test follows the fetch and counts from 0: the half is Width / 2 + 1 *)
(* instructions.                                                           *)
HalfUsed == slot = Width \div 2

(* Seeded fault: the flag of the context that leaves stays up.             *)
FlagAfter_Kept(taken) == taken

(* The context that leaves at the half takes its flag with it.             *)
FlagAfter(taken) == taken /\ ~(HalfUsed /\ Len(left) > 1)

(* One instruction of the first context: it may miss, and it may be        *)
(* predicted taken.                                                        *)
FetchOne(t) ==
  /\ Fetching
  /\ t = Head(left)
  /\ ~Cut(t)
  /\ ~ThirdContext
  /\ \E lat \in {1} \cup {MissLat : c \in Large \cap {t}}, taken \in BOOLEAN :
       /\ ifq' = [ifq EXCEPT ![t] = Append(@, Delay + lat - 1)]
       /\ fetch_issue_delay' = [fetch_issue_delay EXCEPT ![t] = @ + lat - 1]
       /\ discontinuous' = FlagAfter(taken)
       /\ broke' = IF taken THEN broke \cup {t} ELSE broke
  /\ icount' = [icount EXCEPT ![t] = @ + 1]
  /\ fetched' = [fetched EXCEPT ![t] = @ + 1]
  /\ slot' = slot + 1
  /\ left' = IF HalfUsed /\ Len(left) > 1 THEN Tail(left) ELSE left
  /\ UNCHANGED <<policy, cycle, renamed, queued, executed, DCRA_L1_misses, passed>>

(* A context that could fetch, has nothing to do, and was not served.      *)
PassedOver(t) == /\ icount[t] = 0
                 /\ fetch_issue_delay[t] = 0
                 /\ policy = "dcra" => DCRA_L1_misses[t] = 0

(* The end of fetch() and of the cycle.                                    *)
EndFetch ==
  /\ left # Idle
  /\ Fetching => ~Cut(Head(left)) /\ ThirdContext
  /\ left' = Idle
  /\ cycle' = (cycle + 1) % N
  /\ fetch_issue_delay' = [t \in Contexts |-> Decayed(fetch_issue_delay[t])]
  /\ ifq' = [t \in Contexts |-> [k \in DOMAIN ifq[t] |-> Decayed(ifq[t][k])]]
  /\ passed' = [t \in Contexts |-> IF PassedOver(t) THEN passed[t] + 1 ELSE 0]
  /\ slot' = 0 /\ discontinuous' = FALSE
  /\ fetched' = None /\ broke' = {}
  /\ UNCHANGED <<policy, renamed, queued, executed, icount, DCRA_L1_misses>>

-----------------------------------------------------------------------------
Next ==
  \/ \E t \in Contexts : \/ Rename(t) \/ RenameNop(t) \/ RenameRedirected(t)
                         \/ Dispatch(t) \/ Execute(t) \/ Commit(t) \/ Rollback(t)
                         \/ FetchOne(t)
  \/ StartFetch
  \/ Skip
  \/ EndFetch

Spec == Init /\ [][Next]_vars

-----------------------------------------------------------------------------
(***************************************************************************)
(* Properties                                                              *)
(***************************************************************************)

(* The type invariant, with the asserts of the fetch policies.             *)
FetchTypeOK ==
  /\ policy \in Policies /\ cycle \in Contexts
  /\ ifq \in [Contexts -> Seq(0 .. Delay + MissLat - 1)]
  /\ renamed \in [Contexts -> Nat] /\ queued \in [Contexts -> Nat]
  /\ executed \in [Contexts -> Nat] /\ icount \in [Contexts -> 0 .. IfqSize + RobSize]
  /\ fetch_issue_delay \in [Contexts -> 0 .. MissLat - 1]
  /\ DCRA_L1_misses \in [Contexts -> 0 .. L1Lat]
  /\ left \in Seq(Contexts) \cup {Idle} /\ slot \in Nat /\ discontinuous \in BOOLEAN
  /\ fetched \in [Contexts -> Nat] /\ broke \subseteq Contexts
  /\ \A t \in Contexts : Len(ifq[t]) <= IfqSize /\ Rob(t) <= RobSize

(* icount, which is changed in six places, is the number of instructions   *)
(* that were fetched and have not been executed.  Source: sim-outorder.c   *)
(* 2373, 3367, 3636, 3707, 4113 and rollbackTo().                          *)
IcountExact == \A t \in Contexts : icount[t] = Len(ifq[t]) + renamed[t] + queued[t]

(* A cycle fetches at most Width instructions, of at most two contexts:    *)
(* two contexts account for every slot that was used.                      *)
(* Source: fetch(), whose i counts back when a context is taken off.       *)
FetchLimits ==
  /\ slot <= Width
  /\ \E a, b \in Contexts : /\ FetchedFrom \subseteq {a, b}
                            /\ slot = fetched[a] + IF a = b THEN 0 ELSE fetched[b]

(* The counts of fetched instructions agree with each other and the limits.*)
FetchInv == FetchTypeOK /\ IcountExact /\ FetchLimits

(* A context whose instruction was predicted taken fetches no more in the  *)
(* cycle, whatever happens to the list in between.                         *)
(* Source: "discontinuous fetch, so fetch from another context".           *)
OneBlockPerCycle ==
  [][\A t \in broke : ~EndFetch => fetched'[t] = fetched[t]]_vars

(* No slot is left empty by mistake: when fetch() ends early, everybody on *)
(* the list of the policy has fetched, or cannot, or is a third context.   *)
(* Source: fetch(), the flag discontinuous that outlives its context.      *)
WorkConserving ==
  [][EndFetch /\ slot < Width =>
       \A t \in Contexts : \/ fetched[t] > 0
                           \/ Len(ifq[t]) = IfqSize
                           \/ fetch_issue_delay[t] > 0
                           \/ policy = "dcra" /\ DCRA_L1_misses[t] > 0
                           \/ Cardinality(FetchedFrom) = 2]_vars

(* The slots of a cycle go to those who may have them, and to all of them. *)
SlotsWellSpent == OneBlockPerCycle /\ WorkConserving

(* No policy starves a context, although a cycle serves at most two: one   *)
(* that has nothing in flight is not passed over twice in a row.           *)
(* Source: icount_fetch(), RR_fetch(), dcra_fetch() with fetch().          *)
NotPassedTwice == \A t \in Contexts : passed[t] <= 1

=============================================================================
