------------------------------ MODULE Startup ------------------------------
(***************************************************************************)
(* A run of the simulator from its command line to its report: main's scan *)
(* for programs and cores, the options, their checks, the loading of the   *)
(* programs, the fast-forward loop, and of the timed simulation what is    *)
(* profiled and traced.  A run that dumped its configuration may be followed by a     *)
(* second one that reads it.                                               *)
(***************************************************************************)
EXTENDS Configuration, FastForward, Profile, PipeTrace

CONSTANTS
    CommandLines,       \* what the simulator may be called with, without its own name
    Programs            \* the .arg files: what each says to skip, and its loader

ASSUME StartupAssumption ==
    /\ CommandLines \subseteq Seq(Tokens)
    /\ \A p \in DOMAIN Programs : Programs[p].skip \in Int /\ Programs[p].enters \in BOOLEAN
    /\ DOMAIN Programs \subseteq DOMAIN SymbolsOf
    /\ Addresses \subseteq 0..Endless

VARIABLES
    argv,               \* the command line
    runs,               \* the runs of the simulator started so far
    planned,            \* contexts_at_init_time
    scanned,            \* cores_at_init_time
    wiring,             \* the caches of each core
    limit,              \* max_contexts_per_core
    freed               \* the caches that sim_uninit has deleted

mainVars == <<argv, runs, planned, scanned, wiring, limit>>
vars == <<optionVars, ffVars, profileVars, traceVars, mainVars, freed>>

(***************************************************************************)
(* main: contexts are counted and cores are read before the options are.   *)
(***************************************************************************)
IsProgram(t) == t.kind = "word" /\ t.text \in DOMAIN Programs
Planned(args) == Cardinality({k \in DOMAIN args : IsProgram(args[k])})

\* The number after the first -num_cores of a vector; infile >> fails on others.
IsCores(t) == t = Opt("-num_cores", Alone)
CoresIn(toks, otherwise) ==
    LET uses == {k \in DOMAIN toks : IsCores(toks[k])} IN
    IF uses = {} THEN otherwise
    ELSE LET first == CHOOSE k \in uses : \A j \in uses : k <= j IN toks[first + 1].num
\* Of the options that give a number, the last on the command line wins.  The
\* files named in files are not looked at.
FileTokens(t) == IF t.text \in FileNames THEN FlattenSeq(LinesOf(t.text)) ELSE <<>>
Scanned(args) ==
    LET Tells(k) == \/ IsCores(args[k])
                    \/ IsConfig(args, k) /\ \E t \in ToSet(FileTokens(args[k + 1])) : IsCores(t)
        telling == {k \in 1..Len(args) - 1 : Tells(k)}
        final == CHOOSE k \in telling : \A j \in telling : j <= k
    IN IF telling = {} THEN 1
       ELSE IF IsCores(args[final]) THEN args[final + 1].num
       ELSE CoresIn(FileTokens(args[final + 1]), 1)

Tracked(cores) == {name \in Names(cores) : name \in DOMAIN Descriptor}
Scan ==
    /\ phase = "scan"
    /\ planned' = Planned(argv)
    /\ scanned' = Scanned(argv)
    /\ database' = [name \in Tracked(Scanned(argv)) |-> Default(Descriptor[name])]
    /\ frames' = <<ArgsFrame(argv, 0)>>
    /\ execIndex' = 0
    /\ phase' = "options"
    /\ UNCHANGED <<traceVars, dump, ffVars, profileVars, argv, runs, wiring, limit, freed>>

Options == /\ ProcessOptions
           /\ UNCHANGED <<traceVars, ffVars, profileVars, mainVars, freed>>

(***************************************************************************)
(* main wants a program and no -h; then sim_check_options.                 *)
(***************************************************************************)
Check ==
    /\ phase = "parsed"
    /\ IF Value(Global("-h")) = 0 /\ execIndex # 0 /\ Accepted(scanned, planned)
       THEN /\ phase' = "load"
            /\ limit' = ContextLimit(planned)
            /\ wiring' = Wiring(scanned)
            /\ room' = scanned * ContextLimit(planned)
            /\ UNCHANGED <<database, frames, execIndex, dump>>
       ELSE Refuse /\ UNCHANGED <<limit, wiring, room>>
    /\ contexts' = <<>> /\ left' = <<>> /\ known' = 0 /\ at' = 0
    /\ UNCHANGED <<traceVars, profileVars, argv, runs, planned, scanned, freed>>

(***************************************************************************)
(* The load loop of main, init_thread and sim_load_prog: the programs of   *)
(* the command line go to the cores in turn, each of which must have room. *)
(***************************************************************************)
MoreToLoad == Len(contexts) < planned /\ execIndex + Len(contexts) <= Len(argv)
NextProgram == argv[execIndex + Len(contexts)]
CoreOf(i) == (i - 1) % scanned
OnCore(core) == {i \in DOMAIN contexts : CoreOf(i) = core}

\* addcontext
HasRoom(core) == Cardinality(OnCore(core)) < limit

\* sim_load_prog, as init_thread calls it; the file of the trace is opened again
\* for each program, and the range read again.
Ptrace == Values(Global("-ptrace"))
LoadProgram(name) ==
    /\ contexts' = Append(contexts, NewContext(Programs[name].skip, Programs[name].enters))
    /\ room' = room - 1
    /\ IF Ptrace.nelt = 0 THEN UNCHANGED traceVars ELSE PtraceOpen(Ptrace.vals[2].text, name)
\* An option with one of its two strings is an assertion, a bad range or a file
\* that does not open an error.
MustRefuse(name) == \/ Ptrace.nelt = 1
                    \/ Ptrace.nelt = 2 /\ PtraceFails(Ptrace.vals[2].text, name)

Loads == /\ IsProgram(NextProgram) /\ HasRoom(CoreOf(Len(contexts) + 1))
         /\ ~MustRefuse(NextProgram.text)
Load ==
    /\ phase = "load" /\ MoreToLoad
    /\ \/ Loads /\ LoadProgram(NextProgram.text) /\ UNCHANGED phase
       \/ /\ ~Loads \/ Ptrace.nelt > 0
          /\ phase' = "refused" /\ UNCHANGED <<contexts, room, traceVars>>
    /\ UNCHANGED <<database, frames, execIndex, dump, known, left, at, profileVars, mainVars, freed>>

(***************************************************************************)
(* sim_reg_stats, and the end of a run that was only to be initialized.    *)
(***************************************************************************)
Pcstat == Values(Global("-pcstat"))
PcstatNames == [k \in 1..Pcstat.nelt |-> Pcstat.vals[k].text]
RegisterStats ==
    /\ phase = "load" /\ ~MoreToLoad
    /\ IF \A k \in DOMAIN PcstatNames : CanProfile(PcstatNames[k])
       THEN phase' = "registered" /\ Register(PcstatNames)
       ELSE phase' = "refused" /\ UNCHANGED profileVars
    /\ UNCHANGED <<traceVars, database, frames, execIndex, dump, ffVars, mainVars, freed>>

\* sim_aux_stats and sim_uninit put the caches of all cores into a set.
CachesMade ==
    ({CacheDl3, CacheIl3}
      \cup UNION {{wiring[i].dl1, wiring[i].dl2, wiring[i].il1, wiring[i].il2} : i \in DOMAIN wiring})
     \ {NoCache}

\* -q: exit_now, but nothing is running yet and no statistics are printed.
InitQuit == Value(Global("-q")) = 1
Quits ==
    /\ phase = "registered" /\ InitQuit
    /\ phase' = "exited"
    /\ freed' = CachesMade
    /\ UNCHANGED <<traceVars, database, frames, execIndex, dump, ffVars, profileVars, mainVars>>

\* A count of 1 leaves each program the one of its file.
Fastfwd == Value(Global("-fastfwd"))
Uniform == Fastfwd # 1
ToSkip(c) == IF Uniform THEN [c EXCEPT !.left = Fastfwd] ELSE c

\* sim_main looks at the memory of every context that main counted, and the
\* loop at the first-level instruction cache: neither need be there.
Crashes == \/ contexts = <<>> \/ Len(contexts) < planned
           \/ \E i \in DOMAIN contexts : wiring[CoreOf(i)].il1 = NoCache
           \/ \E i \in DOMAIN contexts : wiring[CoreOf(i)].dl1 = NoCache
StartSkip ==
    /\ phase = "registered" /\ ~InitQuit
    /\ phase' = IF Crashes THEN "crashed" ELSE "skip"
    /\ contexts' = [i \in DOMAIN contexts |-> ToSkip(contexts[i])]
    /\ left' = [i \in DOMAIN contexts |-> i]
    /\ known' = Len(contexts)
    /\ UNCHANGED <<traceVars, database, frames, execIndex, dump, at, room, profileVars, mainVars, freed>>

\* Some of the instructions that are skipped train the predictors.
Skip == /\ phase = "skip" /\ FFNext
        /\ LookUpEarly \/ UNCHANGED profileVars
        /\ UNCHANGED <<traceVars, optionVars, mainVars, freed>>

StartTiming ==
    /\ phase = "skip" /\ FFDone
    /\ phase' = "timed"
    /\ counters' = AfterReset(counters)
    /\ UNCHANGED <<traceVars, database, frames, execIndex, dump, ffVars, profiles, report, happened, renamed,
                   aborted, mainVars, freed>>

(***************************************************************************)
(* The timed simulation, as far as its profiles and its trace go.          *)
(***************************************************************************)
Timed ==
    /\ phase = "timed" /\ profiles # <<>>
    /\ \/ \E pc \in Addresses : RenameAt(pc)
       \/ RenameAborted
       \/ \E name \in {"lookups", "sim_cycle"} : CountElsewhere(name)
    /\ UNCHANGED <<traceVars, optionVars, ffVars, mainVars, freed>>

\* The same simulation, as far as its trace goes.
TimedTrace ==
    /\ phase = "timed"
    /\ \E pc \in Addresses, n \in Renames : TraceCycle(pc, n)
    /\ UNCHANGED <<optionVars, ffVars, profileVars, mainVars, freed>>

SampleCrashes ==
    /\ phase = "timed"
    /\ \E pc \in Addresses : RunsWild(Counts(counters, {"sim_num_insn"}), pc)
    /\ phase' = "crashed"
    /\ UNCHANGED <<traceVars, database, frames, execIndex, dump, ffVars, profileVars, mainVars, freed>>

\* sim_main returns after any cycle; exit_now prints, cleans up and exits.
Finish ==
    /\ phase = "timed"
    /\ IF PrintCrashes
       THEN phase' = "crashed" /\ UNCHANGED <<report, freed>>
       ELSE phase' = "exited" /\ report' = Report /\ freed' = CachesMade
    /\ UNCHANGED <<traceVars, database, frames, execIndex, dump, ffVars, counters, profiles,
                   happened, renamed, aborted, mainVars>>

(***************************************************************************)
(* The next run, with the configuration that this one dumped.              *)
(***************************************************************************)
NothingYet ==
    /\ contexts' = <<>> /\ known' = 0 /\ left' = <<>> /\ at' = 0 /\ room' = 0
    /\ counters' = <<>> /\ profiles' = <<>> /\ report' = <<>> /\ happened' = <<>>
    /\ renamed' = [pc \in Addresses |-> 0] /\ aborted' = FALSE
    /\ symbols' = NoSymbols /\ trace' = NoTrace /\ visited' = <<>> /\ traced' = {}
    /\ planned' = 0 /\ scanned' = 0 /\ wiring' = <<>> /\ limit' = 0 /\ freed' = {}
Again ==
    /\ phase \in {"exited", "crashed"} /\ runs = 1 /\ dump.lines # <<>>
    /\ argv' = <<Opt("-config", Alone), Word(DumpFile)>>
               \o SubSeq(argv, execIndex, Len(argv))
    /\ runs' = 2
    /\ phase' = "scan"
    /\ database' = <<>> /\ frames' = <<>> /\ execIndex' = 0
    /\ NothingYet
    /\ UNCHANGED dump

Init ==
    /\ argv \in CommandLines
    /\ runs = 1
    /\ phase = "scan"
    /\ database = <<>> /\ frames = <<>> /\ execIndex = 0
    /\ dump = [lines |-> <<>>, from |-> <<>>]
    /\ planned = 0 /\ scanned = 0 /\ wiring = <<>> /\ limit = 0 /\ freed = {}
    /\ NoProfiles
    /\ symbols = NoSymbols /\ trace = NoTrace /\ visited = <<>> /\ traced = {}
    /\ contexts = <<>> /\ known = 0 /\ left = <<>> /\ at = 0 /\ room = 0

Work == Options \/ Check \/ Load \/ RegisterStats \/ Quits \/ StartSkip \/ Skip \/ StartTiming
Next == Scan \/ Work \/ Timed \/ TimedTrace \/ SampleCrashes \/ Finish \/ Again

Spec == Init /\ [][Next]_vars /\ WF_vars(Work)

(***************************************************************************)
(* Type correctness of the state that the phases share, and of what each   *)
(* phase relies on: at most the counted programs are loaded, no core has   *)
(* more than its limit, and the round stays within the list (main,         *)
(* sim_load_prog, continue_fastfwd).                                       *)
(***************************************************************************)
Phases == {"scan", "options", "parsed", "load", "registered", "skip", "timed", "exited",
           "refused", "crashed"}
StartupTypeOK ==
    /\ phase \in Phases /\ runs \in 1..2
    /\ \A name \in DOMAIN database :
           /\ Len(database[name].vals) = Descriptor[name].nvars
           /\ database[name].nelt \in 0..Descriptor[name].nvars
    /\ \A k \in DOMAIN frames :
           frames[k].at - 1 \in 0..Len(IF frames[k].kind = "args" THEN frames[k].toks
                                      ELSE LinesOf(frames[k].name))
    /\ execIndex \in 0..Len(argv)
    /\ known <= Len(contexts) /\ at \in 0..Len(left) /\ room >= 0
    /\ \A k \in DOMAIN left : left[k] \in 1..known
    /\ phase \in {"load", "skip"} =>
           /\ Cardinality({i \in DOMAIN contexts : contexts[i].parent = 0}) <= planned
           /\ Cardinality({i \in DOMAIN contexts : contexts[i].alive}) <= scanned * limit

\* When the options have been processed, each that does not accrue (and is not a
\* list of strings, which may move away from their pointers) has what its
\* last use in the command line and the files in their places says, or its
\* default: processing the lines of a file over and over (process_file) and
\* the files they name again with them changes nothing.
ValuesAsWritten ==
    phase = "parsed" =>
        LET toks == Written(IF execIndex = 0 THEN argv ELSE SubSeq(argv, 1, execIndex - 1)) IN
        \A name \in DOMAIN database :
            LET d == Descriptor[name] IN
            (~d.accrue /\ (d.class = "string" => d.nvars = 1)) => Shown(d, database[name]) = Meant(name, toks)

\* A configuration that was accepted, dumped and read by another run is not
\* refused and gives every printed option the values it had when it was dumped
\* (dump_config, opt_print_option against process_file, process_option).
DumpReloads ==
    runs = 2 =>
        /\ phase \in {"options", "parsed"} => DOMAIN database = DOMAIN dump.from
        /\ phase # "refused"
        /\ phase = "parsed" => \A name \in DOMAIN database :
               LET d == Descriptor[name] IN
               d.print => Shown(d, database[name]) = Shown(d, dump.from[name])

\* On every core of an accepted configuration a miss in a first-level cache goes
\* through caches of that core, then shared ones, each at most once, and then to
\* memory; below the point where instructions and data meet they stay together
\* (sim_check_options and the six miss handlers).
Levels == [none |-> 4, dl1 |-> 1, il1 |-> 1, dl2 |-> 2, il2 |-> 2, dl3 |-> 3, il3 |-> 3]
Deeper(path) == \A k \in 1..3 : path[k] # NoCache => Levels[path[k + 1][1]] > Levels[path[k][1]]
Serves(path, core) == \A k \in 1..4 : path[k][2] \in {core, Alone}
MissesReachMemory ==
    phase \in {"load", "skip", "timed"} =>
        \A core \in DOMAIN wiring :
            LET data == MissPath(wiring[core], wiring[core].dl1)
                inst == MissPath(wiring[core], wiring[core].il1)
            IN /\ \A path \in {data, inst} :
                      Deeper(path) /\ Serves(path, core) /\ path[4] = NoCache
               /\ \A j, k \in 1..3 : data[j] = inst[k] => data[j + 1] = inst[k + 1]

\* With one count for all, and while no context has been asleep, the programs
\* that were loaded skip exactly that many instructions: none goes past the end
\* of its count, however they fork, wait, select and exit, and the timed
\* simulation starts with nothing left (the loop of sim_main; usleep_thread and
\* the counts of .arg files break it).
LoadedSkipExactly ==
    (phase \in {"skip", "timed"} /\ Uniform /\ \A i \in DOMAIN contexts : ~contexts[i].slept) =>
        \A i \in DOMAIN contexts :
            contexts[i].parent = 0 =>
                /\ contexts[i].left >= 0
                /\ phase = "timed" /\ contexts[i].alive => contexts[i].left = 0

\* What is profiled is right, up to the sample that is still to come, and so is
\* what is printed of it.
ProfileConserves == phase \in {"timed", "exited"} => \A k \in DOMAIN profiles : NothingLostOrAdded(profiles[k])
ProfileOwnAddress == phase = "timed" => \A k \in DOMAIN profiles : OwnAddress(profiles[k])
ProfilePrinted ==
    \A k \in DOMAIN report : /\ Ascending(report[k].lines)
                             /\ TotalOf(report[k].lines) = profiles[k].last

\* A profile is exact: no event is lost, added or charged to another address,
\* and the report says so.
ProfileExact == ProfileConserves /\ ProfileOwnAddress /\ ProfilePrinted

\* Every cache that a miss of some core can come to has its statistics printed
\* and is deleted at the end, also a shared one that no core has a pointer to
\* (sim_aux_stats, sim_uninit against the miss handlers).
NoCacheForgotten ==
    phase = "exited" =>
        \A core \in DOMAIN wiring :
            \A first \in {wiring[core].dl1, wiring[core].il1} :
                Range(MissPath(wiring[core], first)) \subseteq freed \cup {NoCache}

\* From the options to the end: every core is wired to memory through caches
\* that are all accounted for.
StartupInv == StartupTypeOK /\ MissesReachMemory /\ NoCacheForgotten

\* The trace is of the first visit to the range that was asked for, whichever
\* program is first and however many there are.
TraceIsFirstVisit ==
    (phase = "timed" /\ trace.open) =>
        FirstVisit(Ranges[Ptrace.vals[2].text], argv[execIndex].text)

\* A start comes to an end: the simulator gives up, or every program it loaded
\* gets through the instructions to skip (the loops of __opt_process_options,
\* process_file, main and sim_main).
Started == \/ phase \in {"refused", "crashed", "timed", "exited"}
           \/ /\ phase = "skip"
              /\ \A i \in DOMAIN contexts :
                     contexts[i].parent = 0 => contexts[i].left <= 0 \/ ~contexts[i].alive
StartupEnds == phase = "options" ~> Started
=============================================================================
