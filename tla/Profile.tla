------------------------------ MODULE Profile ------------------------------
(***************************************************************************)
(* Statistics that are profiled by text address (-pcstat): which counters  *)
(* they may name, the sparse distribution of each, the samples that        *)
(* register_rename adds to it, and its lines in the final report.          *)
(*                                                                         *)
(* Only the counters that are profiled are kept.                           *)
(***************************************************************************)
EXTENDS Integers, Sequences, FiniteSets, SequencesExt, FiniteSetsExt, TLC

CONSTANTS
    HashOf,             \* the slot of the hash table for each text address
    Profilable,         \* the counters among the statistics
    MostRenamed,        \* instructions renamed in the timed simulation (a bound)
    MostCounted         \* how far the other counters go in it (a bound)

ASSUME ProfileAssumption == MostRenamed \in Nat /\ MostCounted \in Nat

VARIABLES
    counters,           \* the counters that are profiled
    profiles,           \* pcstat_stats, pcstat_lastvals and pcstat_sdists
    report,             \* what the simulator has printed
    happened,           \* history: what each counter counted in the timed simulation
    renamed,            \* history: the instructions renamed at each address
    aborted             \* history: an instruction flushed its own pipeline

profileVars == <<counters, profiles, report, happened, renamed, aborted>>

Addresses == DOMAIN HashOf
HashSlots == {HashOf[pc] : pc \in Addresses}

NoProfiles == counters = <<>> /\ profiles = <<>> /\ report = <<>>
              /\ happened = <<>> /\ renamed = [pc \in Addresses |-> 0] /\ aborted = FALSE

(***************************************************************************)
(* sim_reg_stats.  A distribution or a formula cannot be profiled.         *)
(***************************************************************************)
CanProfile(name) == name \in Profilable

\* The table is allocated but not cleared: any slot may hold a wild pointer.
NewProfile(name, wild) ==
    [stat |-> name, last |-> 0, wild |-> wild, chains |-> [h \in HashSlots |-> <<>>]]

Register(names) ==
    /\ \E wild \in SUBSET HashSlots :
           profiles' = [k \in DOMAIN names |-> NewProfile(names[k], wild)]
    /\ counters' = [name \in ToSet(names) |-> 0]
    /\ happened' = [name \in ToSet(names) |-> 0]
    /\ UNCHANGED <<report, renamed, aborted>>

(***************************************************************************)
(* stat_add_samples                                                        *)
(***************************************************************************)
Bucket(pc, n) == [index |-> pc, count |-> n]
Positions(chain, pc) == {k \in DOMAIN chain : chain[k].index = pc}
\* A new bucket becomes the first of its chain.
Added(chain, pc, n) ==
    IF Positions(chain, pc) = {} THEN <<Bucket(pc, n)>> \o chain
    ELSE [chain EXCEPT ![CHOOSE k \in Positions(chain, pc) : TRUE].count = @ + n]

(***************************************************************************)
(* The end of register_rename: what every profiled counter has counted     *)
(* since the last sample goes to the instruction just renamed.             *)
(***************************************************************************)
Delta(p, now) == now[p.stat] - p.last
Sampled(p, now, pc) ==
    IF Delta(p, now) = 0 THEN p
    ELSE [p EXCEPT !.chains[HashOf[pc]] = Added(@, pc, Delta(p, now)), !.last = now[p.stat]]
RunsWild(now, pc) == \E k \in DOMAIN profiles :
                         Delta(profiles[k], now) # 0 /\ HashOf[pc] \in profiles[k].wild

Counts(c, names) == [name \in DOMAIN c |-> IF name \in names THEN c[name] + 1 ELSE c[name]]
MayRename == SumFunction(renamed) < MostRenamed

\* register_rename, up to the samples or past them.
RenameAt(pc) ==
    LET now == Counts(counters, {"sim_num_insn"}) IN
    /\ MayRename /\ ~RunsWild(now, pc)
    /\ counters' = now
    /\ happened' = Counts(happened, {"sim_num_insn"})
    /\ profiles' = [k \in DOMAIN profiles |-> Sampled(profiles[k], now, pc)]
    /\ renamed' = [renamed EXCEPT ![pc] = @ + 1]
    /\ UNCHANGED <<report, aborted>>

\* An instruction that flushes its pipeline is counted, but goes on to the next
\* before the samples.  Once is enough.
RenameAborted ==
    /\ MayRename /\ ~aborted
    /\ counters' = Counts(counters, {"sim_num_insn"})
    /\ happened' = Counts(happened, {"sim_num_insn"})
    /\ aborted' = TRUE
    /\ UNCHANGED <<profiles, report, renamed>>

\* fetch looks up its predictor, and the cycle ends.
CountElsewhere(name) ==
    /\ name \in DOMAIN counters /\ happened[name] < MostCounted
    /\ counters' = Counts(counters, {name})
    /\ happened' = Counts(happened, {name})
    /\ UNCHANGED <<profiles, report, renamed, aborted>>

\* A look-up while fast-forwarding: the predictors are warmed up.
LookUpEarly ==
    /\ "lookups" \in DOMAIN counters /\ counters["lookups"] < 1
    /\ counters' = Counts(counters, {"lookups"})
    /\ UNCHANGED <<profiles, report, happened, renamed, aborted>>

\* Seeded fault: the predictors keep what they counted while fast-forwarding.
AfterReset_Kept(c) == c
\* bpred_t::reset
AfterReset(c) == [name \in DOMAIN c |-> IF name = "lookups" THEN 0 ELSE c[name]]

(***************************************************************************)
(* print_sdist: the buckets, slot by slot, sorted by address.              *)
(***************************************************************************)
Chains(p) == LET in == SetToSeq(HashSlots) IN [k \in DOMAIN in |-> p.chains[in[k]]]
Before(a, b) == a.index < b.index
Lines(p) == SortSeq(FlattenSeq(Chains(p)), Before)
TotalOf(lines) == SumFunction([k \in DOMAIN lines |-> lines[k].count])
Report == [k \in DOMAIN profiles |->
               [stat |-> profiles[k].stat, lines |-> Lines(profiles[k])]]
PrintCrashes == \E k \in DOMAIN profiles : profiles[k].wild # {}

(***************************************************************************)
(* Properties                                                              *)
(***************************************************************************)
\* A profile has every event that its counter counted in the timed simulation up
\* to the last sample, and none from before or twice: the resets of StartTiming,
\* the samples and the counters agree (sim_reg_stats, sim_main, register_rename).
NothingLostOrAdded(p) ==
    TotalOf(Lines(p)) + counters[p.stat] - p.last = happened[p.stat]

\* The profile of sim_num_insn says how often each address was renamed, unless an
\* instruction flushed its own pipeline: that one is charged to the next.
OwnAddress(p) ==
    (p.stat = "sim_num_insn" /\ ~aborted) =>
        \A pc \in Addresses :
            SumFunction([k \in DOMAIN Lines(p) |->
                            IF Lines(p)[k].index = pc THEN Lines(p)[k].count ELSE 0]) = renamed[pc]

\* A printed profile has one line for an address, in ascending order, whatever
\* order the hash table had them in (stat_add_samples, print_sdist).
Ascending(lines) == \A j, k \in DOMAIN lines : j < k => lines[j].index < lines[k].index
=============================================================================
