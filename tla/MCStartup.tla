----------------------------- MODULE MCStartup -----------------------------
(***************************************************************************)
(* Command lines and files for TLC: every wiring of one core, some of two, *)
(* files that name files, options used twice, and programs to skip.        *)
(***************************************************************************)
EXTENDS Startup

O(text) == Opt(text, Alone)
P == Word("p.arg")
Q == Word("q.arg")
MCPrograms == [x \in {"p.arg", "q.arg"} |->
                  IF x = "p.arg" THEN [skip |-> 2, enters |-> TRUE]
                  ELSE [skip |-> 1, enters |-> FALSE]]

MCCacheConfigs == {"dl1:256:64:4:l", "ul2:512:64:16:l", "il1:512:64:2:l", "ul3:1024:256:8:l",
                   "itlb:16:4096:4:l", "dtlb:32:4096:4:l"}

\* The options that the command lines and files use.
TrackedGlobals == <<"-fastfwd", "-pcstat", "-num_cores", "-max_contexts_per_core",
                    "-cache:dl3", "-cache:il3", "-h", "-q", "-ptrace">>
TrackedPerCore == <<"-issue:inorder", "-fetch:policy", "-cache:dl1", "-cache:dl2",
                    "-cache:il1", "-cache:il2", "-bpred:spec_update", "-bpred:btb">>
MCOrder == [k \in 1..33 |->
    IF k <= 9 THEN <<TrackedGlobals[k], Alone>>
    ELSE <<TrackedPerCore[((k - 10) % 8) + 1], (k - 10) \div 8 - 1>>]
MCNames == {MCOrder[k] : k \in 1..33}
MCDescriptor == [name \in MCNames |-> DescriptorOf(name)]

MCFiles ==
    [inner |-> <<<<O("-bpred:btb"), Number(64)>>, <<Number(2), O("-max_contexts_per_core"), Number(3)>>>>,
     outer |-> <<<<>>, <<O("-issue:inorder")>>, <<Word("off"), O("-config"), Word("inner")>>, <<>>,
                 <<O("-fetch:policy"), Word("dcra"), O("-bpred:btb"), Number(32), Number(1)>>,
                 <<O("-pcstat"), Word("sim_num_insn")>>>>,
     multi |-> <<<<O("-num_cores"), Number(2), Opt("-issue:inorder", 0), Word("off")>>, <<Opt("-cache:il1", 1), Word("dl1")>>,
                 <<Opt("-cache:il2", 1), Word("none"), Opt("-issue:inorder", 0)>>>>,
     stray |-> <<<<O("-issue:inorder"), Word("maybe")>>>>,
     many  |-> <<<<O("-config"), Word("multi")>>>>]

Skipped(n) == <<O("-fastfwd"), Number(n)>>
Cache(level, config) == <<O(level), Word(config)>>
Wirings ==
    {Cache("-cache:dl3", dl3) \o Cache("-cache:il3", il3) \o Cache("-cache:dl1", dl1)
     \o Cache("-cache:dl2", dl2) \o Cache("-cache:il1", il1) \o Cache("-cache:il2", il2)
     \o Skipped(0) \o <<P>> :
        dl3 \in {"none", "ul3:1024:256:8:l"}, il3 \in {"none", "dl3", "ul3:1024:256:8:l"},
        dl1 \in {"NONE", "dl1:256:64:4:l"}, dl2 \in {"none", "None", "ul2:512:64:16:l"},
        il1 \in {"none", "dl1", "dl2", "il1:512:64:2:l"}, il2 \in {"none", "dl2", "ul2:512:64:16:l"}}

\* Text addresses, two of which share a slot of the hash table.
MCHashOf == [pc \in 1..3 |-> IF pc = 3 THEN 1 ELSE 0]

\* Symbols and ranges: a few of each sort, and some that are no ranges.
Symbol(name, seg, addr) == [name |-> name, seg |-> seg, addr |-> addr]
MCSymbolsOf ==
    [x \in {"p.arg", "q.arg"} |->
        IF x = "p.arg"
        THEN <<Symbol(4, "text", 3), Symbol(2, "text", 2), Symbol(5, "other", 1), Symbol(1, "data", 7)>>
        ELSE <<Symbol(2, "text", 1), Symbol(5, "text", 3), Symbol(3, "text", 2)>>]
End_(sort, kind, v) == [sort |-> sort, kind |-> kind, v |-> v]
N(sort, n) == End_(sort, "number", n)
S(sort, name) == End_(sort, "symbol", name)
Blank == End_("", "blank", 0)
R(from, to) == [from |-> from, to |-> to]
MCRanges ==
    "@main:@exit" :> R(S("@", 2), S("@", 4)) @@ "@main:+0" :> R(S("@", 2), N("+", 0))
    @@ "#1:#2" :> R(N("#", 1), N("#", 2)) @@ "1:2" :> R(N("", 1), N("", 2)) @@ ":" :> R(Blank, Blank)
    @@ ":2" :> R(Blank, N("", 2)) @@ "@x:" :> R(S("@", 5), Blank) @@ "@2:#3" :> R(N("@", 2), N("#", 3))
    @@ "@2:1" :> R(N("@", 2), N("", 1)) @@ "#1:+main" :> R(N("#", 1), S("+", 2))
Traced(word) == <<O("-ptrace"), Word("t.trc"), Word(word)>> \o Skipped(0)
Traces == {Traced(word) \o <<P>> : word \in DOMAIN MCRanges \cup {"1000"}}
          \cup {Traced("@main:@exit") \o <<P, Q>>, Traced("@main:+0") \o <<Q, P>>,
                <<O("-ptrace"), Word("t.trc")>> \o Skipped(0) \o <<P>>}

Dump == <<O("-dumpconfig"), Word("dump")>>
MCCommandLines == Wirings \cup Traces \cup {
    \* programs to skip, on one core and on two
    Skipped(2) \o <<P, Q>>,
    Skipped(2) \o <<O("-max_contexts_per_core"), Number(3), P>>,
    Skipped(1) \o <<P, Q>>,
    <<O("-num_cores"), Number(2)>> \o Skipped(2) \o <<P, Q, P>>,
    \* files
    <<O("-config"), Word("outer")>> \o Dump \o Skipped(0) \o <<P>>,
    Dump \o <<O("-bpred:btb"), Number(16), Number(8), O("-config"), Word("inner"),
              O("-bpred:spec_update"), Word("ID")>> \o Skipped(0) \o <<P, Q>>,
    <<O("-config"), Word("multi"), Opt("-cache:il1", 0), Word("dl2"),
      Opt("-cache:il2", 0), Word("none")>> \o Dump \o Skipped(0) \o <<P, Q>>,
    <<O("-bpred:btb"), Number(16), Number(8), O("-bpred:btb"), Number(32),
      O("-issue:inorder"), O("-num_cores"), Number(1)>> \o Skipped(0) \o <<P>>,
    \* what is refused or runs into trouble
    <<O("-config"), Word("stray"), P>>, <<O("-config"), Word("many"), P>>,
    <<O("-config"), Word("absent"), P>>, <<O("-config")>>, <<O("-dumpconfig")>>,
    <<O("-max_contexts_per_core"), Number(1)>> \o Skipped(0) \o <<P, Q>>,
    <<O("-pcstat"), P>> \o Skipped(0) \o <<Q>>,
    <<O("-h"), P>>, <<O("-q")>> \o Dump \o Skipped(0) \o <<P>>,
    \* what is profiled
    <<O("-pcstat"), Word("sim_num_insn")>> \o Skipped(0) \o <<P>>,
    <<O("-pcstat"), Word("lookups")>> \o Skipped(2) \o <<P>>,
    <<O("-pcstat"), Word("sim_num_insn"), O("-pcstat"), Word("sim_cycle")>> \o Skipped(0) \o <<P>>,
    Skipped(0) \o <<Word("other"), P>>,
    Skipped(0),
    <<O("-fastfwd"), Number(-1), P>>,
    <<O("-num_cores"), Number(-1), P>> }
=============================================================================
