---------------------------- MODULE Configuration ----------------------------
(***************************************************************************)
(* The options of the simulator (sim_reg_options), the checks they must    *)
(* pass (sim_check_options), and the caches that are made from them: which *)
(* object each core uses at each level, and where a miss goes next.        *)
(***************************************************************************)
EXTENDS OptionProcessing

CONSTANT CacheConfigs       \* the words that sscanf takes for <name>:<nsets>:...

Global(text) == <<text, Alone>>
\* The options of a core carry its number, unless there is only one core.
PerCore(text, core, cores) == <<text, IF cores = 1 THEN Alone ELSE core>>

(***************************************************************************)
(* The options of main and sim_reg_options.                                *)
(***************************************************************************)
DriverOptions ==
    "-h" :> Hidden(RegFlag(0)) @@ "-v" :> Hidden(RegFlag(0)) @@ "-q" :> Hidden(RegFlag(0))
    @@ "-seed" :> RegInt(1) @@ "-nice" :> RegInt(0)
    @@ "-redir:sim" :> Hidden(RegString(Null)) @@ "-redir:prog" :> Hidden(RegString(Null))
    @@ "-redir:err" :> Hidden(RegString(Null))

MemoryOptions ==
    "-mem:config" :> RegString(Word("chunk:4:300:2")) @@ "-makeeio" :> RegString(Word("none"))
    @@ "-cache:dl3" :> RegString(Word("none")) @@ "-cache:dl3lat" :> RegInt(30)
    @@ "-cache:il3" :> RegString(Word("none")) @@ "-cache:il3lat" :> RegInt(30)

\* What decides how much is run: cores, contexts, instructions skipped.
RunOptions ==
    [t \in {"-fastfwd", "-num_cores", "-max_contexts_per_core"} |->
        IF t = "-fastfwd" THEN RegLongLong(1000000)
        ELSE IF t = "-num_cores" THEN RegUint(1) ELSE RegInt(-1)]

GlobalOptions ==
    "-max:inst" :> RegLongLong(1000000) @@ "-max:cycles" :> RegLongLong(-1)
    @@ "-pcstat" :> RegStringList(8, TRUE) @@ "-ptrace" :> Hidden(RegStringList(2, FALSE))
    @@ "-power:print_stats" :> RegFlag(0)
    @@ DriverOptions @@ MemoryOptions

PipelineOptions ==
    "-fetch:speed" :> RegInt(1) @@ "-decode:width" :> RegUint(8) @@ "-issue:width" :> RegUint(8)
    @@ "-issue:inorder" :> RegFlag(0) @@ "-issue:wrongpath" :> RegFlag(1)
    @@ "-commit:width" :> RegUint(8) @@ "-iq:issue_exec_delay" :> RegInt(1)
    @@ "-fetch_rename_delay" :> RegInt(4) @@ "-rename_dispatch_delay" :> RegInt(1)
    @@ "-lsq:size" :> RegUint(48) @@ "-rob:size" :> RegUint(128)
    @@ "-fetch:policy" :> RegString(Word("icount")) @@ "-recovery:model" :> RegString(Word("squash"))
    @@ "-iq:size" :> RegUint(32) @@ "-rf:size" :> RegUint(128)

UnitOptions ==
    "-res:ialu" :> RegUint(4) @@ "-res:imult" :> RegUint(1) @@ "-res:memport" :> RegUint(2)
    @@ "-res:fpalu" :> RegUint(4) @@ "-res:fpmult" :> RegUint(1) @@ "-write_buf:size" :> RegUint(16)

CacheOptions ==
    "-cache:dl1" :> RegString(Word("dl1:256:64:4:l")) @@ "-cache:dl1lat" :> RegInt(1)
    @@ "-cache:dl2" :> RegString(Word("ul2:512:64:16:l")) @@ "-cache:dl2lat" :> RegInt(10)
    @@ "-cache:il1" :> RegString(Word("il1:512:64:2:l")) @@ "-cache:il1lat" :> RegInt(1)
    @@ "-cache:il2" :> RegString(Word("dl2")) @@ "-cache:il2lat" :> RegInt(10)
    @@ "-tlb:itlb" :> RegString(Word("itlb:16:4096:4:l"))
    @@ "-tlb:dtlb" :> RegString(Word("dtlb:32:4096:4:l")) @@ "-tlb:lat" :> RegInt(30)

PredictorOptions ==
    "-bpred" :> RegString(Word("bimod")) @@ "-bpred:ras" :> RegInt(16)
    @@ "-bpred:spec_update" :> RegString(Null) @@ "-bpred:bimod" :> RegIntList(<<2048>>)
    @@ "-bpred:2lev" :> RegIntList(<<1, 1024, 8, 0>>) @@ "-bpred:comb" :> RegIntList(<<1024>>)
    @@ "-bpred:btb" :> RegIntList(<<512, 4>>) @@ "-bpred:penalty" :> RegUint(6)

LoadPredictorOptions ==
    "-cpred" :> RegString(Word("bimod")) @@ "-cpred:ras" :> RegInt(0)
    @@ "-cpred:bimod" :> RegIntList(<<2048>>) @@ "-cpred:2lev" :> RegIntList(<<1, 1024, 8, 0>>)
    @@ "-cpred:comb" :> RegIntList(<<1024>>) @@ "-cpred:btb" :> RegIntList(<<512, 4>>)

CoreOptions == PipelineOptions @@ UnitOptions @@ CacheOptions @@ PredictorOptions
               @@ LoadPredictorOptions

\* The names registered for a number of cores.
Names(cores) == {Global(t) : t \in DOMAIN RunOptions \cup DOMAIN GlobalOptions}
                \cup {PerCore(t, i, cores) : t \in DOMAIN CoreOptions, i \in 0..cores - 1}
DescriptorOf(name) ==
    IF name[1] \in DOMAIN RunOptions THEN RunOptions[name[1]]
    ELSE IF name[1] \in DOMAIN GlobalOptions
    THEN GlobalOptions[name[1]] ELSE CoreOptions[name[1]]

\* sim_reg_options registers every option that way.
ASSUME OptionAssumption == \A name \in DOMAIN Descriptor : Descriptor[name] = DescriptorOf(name)

\* The value of a variable; what no one sets is not kept in the database.
Values(name) == IF name \in DOMAIN database THEN database[name] ELSE Default(DescriptorOf(name))
Value(name) == Values(name).vals[1]
Text(name) == Value(name).text

(***************************************************************************)
(* sim_check_options: the numbers.                                         *)
(***************************************************************************)
NumCores == Value(Global("-num_cores"))
MaxUnits == 8                                       \* MAX_INSTS_PER_CLASS
IsPowerOfTwo(n) == \E k \in 0..16 : n = 2 ^ k

Positive == {"-fetch:speed", "-commit:width", "-cache:dl1lat", "-cache:dl2lat",
             "-cache:il1lat", "-cache:il2lat", "-tlb:lat"}
Widths == {"-decode:width", "-issue:width"}
QueueSizes == {"-rob:size", "-lsq:size", "-iq:size"}
Units == {"-res:ialu", "-res:imult", "-res:memport", "-res:fpalu", "-res:fpmult"}

\* max_contexts_per_core: -1 stands for as many as there are contexts.
ContextLimit(planned) ==
    LET given == Value(Global("-max_contexts_per_core")) IN
    IF given = -1 THEN planned ELSE given

GlobalsOK(scanned, planned) ==
    /\ NumCores >= 1 /\ scanned = NumCores
    /\ ContextLimit(planned) > 0
    /\ Value(Global("-fastfwd")) >= 0
    /\ Value(Global("-max:inst")) >= 0
    /\ Text(Global("-makeeio")) = "none" \/ Value(Global("-max:inst")) = 0
    /\ Value(Global("-cache:dl3lat")) >= 1 /\ Value(Global("-cache:il3lat")) >= 1

NumbersOK(cores, i, limit) ==
    LET Core(t) == PerCore(t, i, cores) IN
    /\ \A t \in Positive : Value(Core(t)) >= 1
    /\ \A t \in Widths : IsPowerOfTwo(Value(Core(t)))
    /\ \A t \in QueueSizes : Value(Core(t)) >= 2
    /\ \A t \in Units : Value(Core(t)) \in 1..MaxUnits
    /\ Value(Core("-rf:size")) >= 32 * (limit + 1)
    /\ Text(Core("-fetch:policy")) \in {"icount", "round_robin", "dcra"}

\* The tables a predictor of a type needs, each with all its numbers.
Tables(type) ==
    CASE type \in {"perfect", "taken", "nottaken"} -> {}
      [] type = "bimod" -> {"bimod", "btb"}
      [] type = "2lev"  -> {"2lev", "btb"}
      [] type = "comb"  -> {"2lev", "bimod", "comb", "btb"}
TableName(prefix, table) ==
    CASE table = "bimod" -> IF prefix = "-bpred" THEN "-bpred:bimod" ELSE "-cpred:bimod"
      [] table = "2lev"  -> IF prefix = "-bpred" THEN "-bpred:2lev" ELSE "-cpred:2lev"
      [] table = "comb"  -> IF prefix = "-bpred" THEN "-bpred:comb" ELSE "-cpred:comb"
      [] table = "btb"   -> IF prefix = "-bpred" THEN "-bpred:btb" ELSE "-cpred:btb"
TableSize(table) == CASE table = "btb" -> 2 [] table = "2lev" -> 4 [] OTHER -> 1
PredictorOK(cores, i, prefix) ==
    LET Core(t) == PerCore(t, i, cores)
        type == Text(Core(prefix))
    IN
    /\ type \in {"perfect", "taken", "nottaken", "bimod", "2lev", "comb"}
    /\ \A table \in Tables(type) :
           Values(Core(TableName(prefix, table))).nelt = TableSize(table)
PredictorsOK(cores, i) ==
    LET Core(t) == PerCore(t, i, cores) IN
    /\ PredictorOK(cores, i, "-bpred") /\ PredictorOK(cores, i, "-cpred")
    /\ Value(Core("-bpred:spec_update")) = Null \/ Text(Core("-bpred:spec_update")) \in {"ID", "WB"}

(***************************************************************************)
(* sim_check_options: the caches.  A cache is named by the option it was   *)
(* made for and its core; NoCache is a NULL pointer.                       *)
(***************************************************************************)
NoCache == <<"none", Alone>>
Dl3 == <<"dl3", Alone>>
Il3 == <<"il3", Alone>>
Own(level, core) == <<level, core>>

\* mystricmp ignores case, the strcmp of the second levels does not.
SaysNone(text) == text \in {"none", "None", "NONE"}
Describes(text) == text \in CacheConfigs

CacheDl3 == IF SaysNone(Text(Global("-cache:dl3"))) THEN NoCache ELSE Dl3
CacheIl3 == CASE SaysNone(Text(Global("-cache:il3"))) -> NoCache
              [] Text(Global("-cache:il3")) = "dl3"   -> CacheDl3
              [] OTHER                                -> Il3
SharedOK == /\ SaysNone(Text(Global("-cache:dl3"))) \/ Describes(Text(Global("-cache:dl3")))
            /\ \/ SaysNone(Text(Global("-cache:il3"))) \/ Describes(Text(Global("-cache:il3")))
               \/ Text(Global("-cache:il3")) = "dl3" /\ CacheDl3 # NoCache

DataCachesOK(dl1, dl2) ==
    IF SaysNone(dl1) THEN dl2 = "none"
    ELSE Describes(dl1) /\ (SaysNone(dl2) \/ Describes(dl2))
DataCaches(core, dl1, dl2) ==
    [dl1 |-> IF SaysNone(dl1) THEN CacheDl3 ELSE Own("dl1", core),
     dl2 |-> IF SaysNone(dl1) \/ SaysNone(dl2) THEN CacheDl3 ELSE Own("dl2", core)]

InstCachesOK(data, il1, il2) ==
    IF SaysNone(il1) \/ il1 \in {"dl1", "dl2"}
    THEN /\ il2 = "none"
         /\ il1 = "dl1" => data.dl1 # NoCache
         /\ il1 = "dl2" => data.dl2 # NoCache
    ELSE /\ Describes(il1)
         /\ SaysNone(il2) \/ Describes(il2) \/ (il2 = "dl2" /\ data.dl2 # NoCache)
\* Seeded fault: a unified second level is always the one of the first core.
InstCaches_FirstCore(core, data, il1, il2) ==
    [il1 |-> IF il1 = "dl1" THEN data.dl1 ELSE Own("il1", core),
     il2 |-> IF il2 = "dl2" THEN Own("dl2", 0) ELSE Own("il2", core)]
InstCaches(core, data, il1, il2) ==
    [il1 |-> CASE SaysNone(il1) -> CacheIl3
               [] il1 = "dl1"   -> data.dl1
               [] il1 = "dl2"   -> data.dl2
               [] OTHER         -> Own("il1", core),
     il2 |-> CASE SaysNone(il2) -> CacheIl3
               [] il2 = "dl2"   -> data.dl2
               [] OTHER         -> Own("il2", core)]

Wired(cores, core) ==
    LET Core(t) == PerCore(t, core, cores)
        data == DataCaches(core, Text(Core("-cache:dl1")), Text(Core("-cache:dl2")))
        inst == InstCaches(core, data, Text(Core("-cache:il1")), Text(Core("-cache:il2")))
    IN [dl1 |-> data.dl1, dl2 |-> data.dl2, il1 |-> inst.il1, il2 |-> inst.il2]

TlbOK(text) == SaysNone(text) \/ Describes(text)
CachesOK(cores, core) ==
    LET Core(t) == PerCore(t, core, cores)
        data == DataCaches(core, Text(Core("-cache:dl1")), Text(Core("-cache:dl2")))
    IN
    /\ DataCachesOK(Text(Core("-cache:dl1")), Text(Core("-cache:dl2")))
    /\ InstCachesOK(data, Text(Core("-cache:il1")), Text(Core("-cache:il2")))
    /\ TlbOK(Text(Core("-tlb:itlb"))) /\ TlbOK(Text(Core("-tlb:dtlb")))

Accepted(scanned, planned) ==
    /\ GlobalsOK(scanned, planned)
    /\ SharedOK
    /\ \A i \in 0..scanned - 1 : /\ NumbersOK(scanned, i, ContextLimit(planned))
                                 /\ PredictorsOK(scanned, i)
                                 /\ CachesOK(scanned, i)

Wiring(cores) == [i \in 0..cores - 1 |-> Wired(cores, i)]

(***************************************************************************)
(* The miss handlers: where a block comes from that a cache does not have, *)
(* for a context on a core.  The handler is the one the cache was made     *)
(* with; it asks for the second level of the context's core.               *)
(***************************************************************************)
NextLevel(wired, cache) ==
    CASE cache[1] = "dl1" -> wired.dl2
      [] cache[1] = "il1" -> wired.il2
      [] cache[1] = "dl2" -> CacheDl3
      [] cache[1] = "il2" -> CacheIl3
      [] OTHER            -> NoCache
MissPath(wired, cache) ==
    LET second == NextLevel(wired, cache)
        third == NextLevel(wired, second)
    IN <<cache, second, third, NextLevel(wired, third)>>
=============================================================================
