-------------------------- MODULE OptionProcessing --------------------------
(***************************************************************************)
(* How options.c works through an argument vector and the configuration    *)
(* files it names.  __opt_process_options and process_file call each       *)
(* other; their activations are the frames of a stack, and a step is one   *)
(* option, one line of a file, or the end of one of the two.               *)
(*                                                                         *)
(* process_file never clears largv, the vector in which it collects the    *)
(* tokens of a line: every line is processed with all those before it.     *)
(***************************************************************************)
EXTENDS OptionDatabase

CONSTANTS
    Descriptor,         \* what each option is registered with, by its name
    Order,              \* the names in the order of their registration
    Files,              \* the lines of each configuration file
    DumpFile            \* the name -dumpconfig is given

ASSUME FilesAssumption ==
    /\ DumpFile \in STRING \ DOMAIN Files
    /\ \A f \in DOMAIN Files : Files[f] \in Seq(Seq(Tokens))
    /\ Order \in Seq(DOMAIN Descriptor)
    /\ \A name \in DOMAIN Descriptor :
           name \in STRING \X Int /\ WellRegistered(Descriptor[name])

VARIABLES
    phase,              \* how far the simulator has come
    database,           \* the options registered: their values and counts
    frames,             \* activations of the two functions, the running one last
    execIndex,          \* exec_index
    dump                \* what the file DumpFile has, and the database it was written from

optionVars == <<phase, database, frames, execIndex, dump>>

FileNames == DOMAIN Files \cup (IF dump.lines = <<>> THEN {} ELSE {DumpFile})
LinesOf(f) == IF f = DumpFile THEN dump.lines ELSE Files[f]

ArgsFrame(toks, depth) ==
    [kind |-> "args", toks |-> toks, at |-> 1, depth |-> depth, dumps |-> FALSE, name |-> ""]
FileFrame(name, depth) ==
    [kind |-> "file", toks |-> <<>>, at |-> 1, depth |-> depth, dumps |-> FALSE, name |-> name]

Top == Last(frames)
Popped == Front(frames)
Moved(by) == [Top EXCEPT !.at = @ + by]

Dumped == [lines |-> [k \in 1..Len(Order) |->
                         IF Order[k] \in DOMAIN database
                         THEN DumpLine(Order[k], Descriptor[Order[k]], database[Order[k]])
                         ELSE <<>>],
           from |-> database]

\* fatal: the message, and exit(1)
Refuse == /\ phase' = "refused"
          /\ frames' = <<>>
          /\ UNCHANGED <<database, execIndex, dump>>

(***************************************************************************)
(* __opt_process_options                                                   *)
(***************************************************************************)
InArgs == phase = "options" /\ frames # <<>> /\ Top.kind = "args"
AtToken == InArgs /\ Top.at <= Len(Top.toks)
Current == Top.toks[Top.at]
AtOption(names) == AtToken /\ Current.kind = "option" /\ Current.text \in names
Builtin == {"-config", "-dumpconfig"}
NextIsName == Top.at < Len(Top.toks) /\ Top.toks[Top.at + 1].kind # "option"

ProcessOption ==
    /\ AtToken /\ Current.kind = "option" /\ Current.text \notin Builtin
    /\ LET name == NameOf(Current) IN
       IF \/ name \notin DOMAIN database
          \/ Fails(Descriptor[name], database[name], Top.toks, Top.at)
       THEN Refuse
       ELSE /\ database' = [database EXCEPT
                               ![name] = Stored(Descriptor[name], @, Top.toks, Top.at)]
            /\ frames' = Append(Popped, Moved(1 + Taken(Descriptor[name], Top.toks, Top.at)))
            /\ UNCHANGED <<phase, execIndex, dump>>

\* The file is processed at the depth of the vector that names it.
OpenConfig ==
    /\ AtOption({"-config"})
    /\ IF NextIsName /\ Top.toks[Top.at + 1].text \in FileNames
       THEN /\ frames' = Popped \o <<Moved(2), FileFrame(Top.toks[Top.at + 1].text, Top.depth)>>
            /\ UNCHANGED <<phase, database, execIndex, dump>>
       ELSE Refuse

\* -dumpconfig is performed last.
NoteDump ==
    /\ AtOption({"-dumpconfig"})
    /\ IF NextIsName
       THEN /\ frames' = Append(Popped, [Moved(2) EXCEPT !.dumps = TRUE])
            /\ UNCHANGED <<phase, database, execIndex, dump>>
       ELSE Refuse

Leave == /\ dump' = IF Top.dumps THEN Dumped ELSE dump
         /\ frames' = Popped
         /\ phase' = IF Len(frames) = 1 THEN "parsed" ELSE phase

\* orphan_fn takes the first word of the command line that no option claims for
\* the program to simulate, and ends the processing; a file may have none.
Orphan ==
    /\ AtToken /\ Current.kind # "option"
    /\ IF Top.depth > 0 THEN Refuse
       ELSE /\ execIndex' = Top.at
            /\ Leave
            /\ UNCHANGED database

EndOfArgs == /\ InArgs /\ Top.at > Len(Top.toks)
             /\ Leave
             /\ UNCHANGED <<database, execIndex>>

(***************************************************************************)
(* process_file                                                            *)
(***************************************************************************)
\* A line without tokens is a comment: blank lines are skipped and left out.
InFile == phase = "options" /\ frames # <<>> /\ Top.kind = "file"

\* Seeded fault: the new line goes before those that were read.
LineRead_Before(frame, line) == [frame EXCEPT !.at = @ + 1, !.toks = line \o @]
LineRead(frame, line) == [frame EXCEPT !.at = @ + 1, !.toks = @ \o line]
ReadLine ==
    /\ InFile /\ Top.at <= Len(LinesOf(Top.name))
    /\ LET read == LineRead(Top, LinesOf(Top.name)[Top.at]) IN
       frames' = IF read.toks = <<>>
                 THEN Append(Popped, read)
                 ELSE Popped \o <<read, ArgsFrame(read.toks, Top.depth + 1)>>
    /\ UNCHANGED <<phase, database, execIndex, dump>>

CloseFile == /\ InFile /\ Top.at > Len(LinesOf(Top.name))
             /\ frames' = Popped
             /\ UNCHANGED <<phase, database, execIndex, dump>>

ProcessOptions ==
    ProcessOption \/ OpenConfig \/ NoteDump \/ Orphan \/ EndOfArgs \/ ReadLine \/ CloseFile

(***************************************************************************)
(* What the options mean: an option has the arguments of its last use in   *)
(* the command line, read with every file in the place where it is named.  *)
(***************************************************************************)
Mark == Opt("", Alone)              \* where a file begins or ends
IsConfig(args, k) == k \in DOMAIN args /\ args[k] = Opt("-config", Alone)
Spliced(args, content) ==
    FlattenSeq([k \in 1..Len(args) |->
        IF IsConfig(args, k) THEN <<Mark>> \o content[args[k + 1].text] \o <<Mark>>
        ELSE IF IsConfig(args, k - 1) THEN <<>>
        ELSE <<args[k]>>])

\* What each file says, with the files it names down to a depth.
Contents[depth \in Nat] ==
    [f \in FileNames |->
        IF depth = 0 THEN <<>> ELSE Spliced(FlattenSeq(LinesOf(f)), Contents[depth - 1])]

Written(args) == Spliced(args, Contents[Cardinality(FileNames)])

LastUse(name, toks) ==
    LET uses == {k \in DOMAIN toks : toks[k] = Opt(name[1], name[2])} IN
    IF uses = {} THEN 0 ELSE CHOOSE k \in uses : \A j \in uses : j <= k

\* The elements an option shows.
Shown(d, value) == SubSeq(value.vals, 1, IF d.counted THEN value.nelt ELSE d.nvars)
Meant(name, toks) ==
    LET d == Descriptor[name]
        use == LastUse(name, toks)
    IN Shown(d, IF use = 0 THEN Default(d) ELSE Stored(d, Default(d), toks, use))
=============================================================================
