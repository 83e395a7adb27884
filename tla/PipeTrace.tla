----------------------------- MODULE PipeTrace -----------------------------
(***************************************************************************)
(* The pipeline trace (-ptrace <file> <range>): the symbols that a range   *)
(* may name, what a range says, and the cycles that are traced: the first  *)
(* stretch of them that is in the range, and no other.                     *)
(*                                                                         *)
(* A symbol's name is a number, its place among all names in the order of  *)
(* strcmp.  One end of a written range is a record: its sort is "@", "#",  *)
(* "+" or "", its kind "blank", "number" or "symbol".                      *)
(***************************************************************************)
EXTENDS Picking, Sequences, SequencesExt, TLC

CONSTANTS
    SymbolsOf,          \* the external symbols in the file of each program
    Ranges,             \* the words with a colon, and the ends they give
    Endless,            \* 0x7fffffffffffffff
    MostCycles,         \* cycles of the timed simulation that are traced or not (a bound)
    Renames             \* how many instructions a cycle may rename

\* No two external symbols of a program have one name.
Symbols == [name : Nat, seg : STRING, addr : Int]
Ends == [sort : {"@", "#", "+", ""}, kind : {"blank", "number", "symbol"}, v : Int]
ASSUME TraceAssumption ==
    /\ MostCycles \in Nat /\ Renames \subseteq Nat /\ Endless \in Nat /\ MostCycles <= Endless
    /\ \A p \in DOMAIN SymbolsOf :
           /\ SymbolsOf[p] \in Seq(Symbols)
           /\ \A j, k \in DOMAIN SymbolsOf[p] : SymbolsOf[p][j].name = SymbolsOf[p][k].name => j = k
    /\ \A word \in DOMAIN Ranges :
           /\ Ranges[word] \in [from : Ends, to : Ends]
           /\ Ranges[word].from.kind = "blank" => Ranges[word].from.sort = ""

VARIABLES
    symbols,            \* syms_loaded and sym_syms_by_name
    trace,              \* ptrace_outfd, ptrace_range, ptrace_active, ptrace_oneshot
    visited,            \* history: where the simulation was when each cycle began
    traced              \* history: the cycles that were traced

traceVars == <<symbols, trace, visited, traced>>

NoSymbols == [loaded |-> FALSE, byName |-> <<>>]
NoTrace   == [open |-> FALSE, range |-> <<>>, active |-> FALSE, oneshot |-> FALSE]

(***************************************************************************)
(* sym_loadsyms: the text and data symbols of the first program that is    *)
(* asked about.  A file without symbols ends the run.                      *)
(***************************************************************************)
Relevant(s) == s.seg \in {"text", "data"}
SortedByName(syms) ==
    LET names == {s.name : s \in syms}
    IN [k \in 1..Cardinality(names) |-> CHOOSE s \in syms : s.name = Nth(names, k)]
TableOf(program) == SortedByName({s \in ToSet(SymbolsOf[program]) : Relevant(s)})
Loaded(program) ==
    IF symbols.loaded THEN symbols ELSE [loaded |-> TRUE, byName |-> TableOf(program)]

\* sym_bind_name: the place of a name in a table, or 0.
BindName(table, name) ==
    LET search[part \in (1..Len(table) + 1) \X (0..Len(table))] ==
            LET pos == (part[1] + part[2]) \div 2 IN
            IF part[1] > part[2] THEN 0
            ELSE IF table[pos].name = name THEN pos
            ELSE IF table[pos].name > name THEN search[<<part[1], pos - 1>>]
                 ELSE search[<<pos + 1, part[2]>>]
    IN search[<<1, Len(table)>>]

(***************************************************************************)
(* range_parse_pos and range_parse_range                                   *)
(***************************************************************************)
TypeOf(sort) == CASE sort = "@" -> "addr" [] sort = "#" -> "cycle" [] OTHER -> "inst"
Position(type, pos) == [type |-> type, pos |-> pos]

NeedsSymbols(range) == \E end \in {range.from, range.to} : end.kind = "symbol"
Parses(end, table) ==
    /\ end.kind = "symbol" => BindName(table, end.v) # 0
    /\ end.sort = "+" => end.kind = "number"
ParsePos(end, table) ==
    Position(TypeOf(end.sort),
             IF end.kind = "symbol" THEN table[BindName(table, end.v)].addr ELSE end.v)

Start(range, table) == IF range.from.kind = "blank" THEN Position("inst", 0)
                       ELSE ParsePos(range.from, table)
End(range, table) ==
    LET start == Start(range, table) IN
    IF range.to.kind = "blank" THEN Position(start.type, Endless)
    ELSE IF range.to.sort = "+" THEN Position(start.type, start.pos + range.to.v)
    ELSE ParsePos(range.to, table)

(***************************************************************************)
(* ptrace_open, for each program that is loaded: it may fail, also because *)
(* the host does not open the file (of whose name nothing is known).       *)
(***************************************************************************)
CanTrace(word, table) ==
    /\ word \in DOMAIN Ranges
    /\ LET range == Ranges[word] IN
       /\ NeedsSymbols(range) => table # <<>>
       /\ Parses(range.from, table) /\ Parses(range.to, table)
       /\ Start(range, table).type = End(range, table).type
PtraceOpen(word, program) ==
    LET asked == word \in DOMAIN Ranges /\ NeedsSymbols(Ranges[word])
        after == IF asked THEN Loaded(program) ELSE symbols
    IN /\ CanTrace(word, after.byName)
       /\ symbols' = after
       /\ trace' = [trace EXCEPT !.open = TRUE, !.active = FALSE,
                       !.range = [start |-> Start(Ranges[word], after.byName),
                                  end |-> End(Ranges[word], after.byName)]]
       /\ UNCHANGED <<visited, traced>>
PtraceFails(word, program) ==
    ~CanTrace(word, IF word \in DOMAIN Ranges /\ NeedsSymbols(Ranges[word])
                    THEN Loaded(program).byName ELSE symbols.byName)

(***************************************************************************)
(* ptrace_check_active, at the start of a cycle: range_cmp_range1 with     *)
(* the PC of the current context, the instructions and the cycles so far.  *)
(***************************************************************************)
Inside(range, at) == at[range.start.type] \in range.start.pos..range.end.pos
\* Seeded fault: the trace starts again whenever the range is entered.
Active_Again(inside) == inside
Active(inside) == inside /\ (trace.active \/ ~trace.oneshot)

At(pc, renamed) ==
    [addr |-> pc, cycle |-> Len(visited),
     inst |-> IF visited = <<>> THEN 0 ELSE visited[Len(visited)].inst + renamed]

\* A cycle: n instructions after the last one began, this one begins.  No count
\* of instructions gets as far as Endless.
TraceCycle(pc, n) ==
    LET inside == Inside(trace.range, At(pc, n)) IN
    /\ trace.open /\ Len(visited) < MostCycles /\ At(pc, n).inst <= Endless
    /\ trace' = [trace EXCEPT !.active = Active(inside), !.oneshot = @ \/ inside]
    /\ visited' = Append(visited, At(pc, n))
    /\ traced' = IF Active(inside) THEN traced \cup {Len(visited)} ELSE traced
    /\ UNCHANGED symbols

(***************************************************************************)
(* Properties                                                              *)
(***************************************************************************)
\* What a written end stands for, by the symbols of a program.
Stands(end, program) ==
    IF end.kind # "symbol" THEN end.v
    ELSE (CHOOSE s \in ToSet(SymbolsOf[program]) : s.name = end.v).addr
MeantStart(range, program) == IF range.from.kind = "blank" THEN 0 ELSE Stands(range.from, program)
MeantBy(range, program, at) ==
    LET where == at[TypeOf(range.from.sort)]
        start == MeantStart(range, program)
    IN /\ where >= start
       /\ range.to.kind # "blank" =>
              where <= Stands(range.to, program) + IF range.to.sort = "+" THEN start ELSE 0

\* The cycles that are traced are those from the first in the written range to
\* the last before it is left: "turning on a trace more than once will mess up
\* the pipetrace viewer" (ptrace_check_active, range_parse_range, sym_bind_name).
FirstStretch(in) == {k - 1 : k \in {i \in in : \A j \in in : j < i => j..i \subseteq in}}
FirstVisit(range, program) ==
    traced = FirstStretch({k \in DOMAIN visited : MeantBy(range, program, visited[k])})
=============================================================================
