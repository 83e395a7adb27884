--------------------------- MODULE OptionDatabase ---------------------------
(***************************************************************************)
(* The option database of options.c: what an option is registered with,    *)
(* what one occurrence of it does to its variables, and how its values are *)
(* printed for a later run.                                                *)
(*                                                                         *)
(* A token is an element of an argument vector: the name of an option, a   *)
(* number or a word.  The database holds for every option the values of    *)
(* its variables and the number parsed into them.                          *)
(***************************************************************************)
EXTENDS Integers, Sequences, FiniteSets, SequencesExt, TLC

Token(kind, text, num) == [kind |-> kind, text |-> text, num |-> num]
Opt(text, offset) == Token("option", text, offset)
Word(text) == Token("word", text, 0)
Number(n) == Token("number", "", n)
Null == Token("null", "", 0)             \* the NULL of a string variable
Tokens == [kind : {"option", "word", "number", "null"}, text : STRING, num : Int]

\* An option without an offset in its name has the offset -1.
Alone == -1
NameOf(t) == <<t.text, t.num>>

(***************************************************************************)
(* Registration: class, variables, whether the number parsed is counted,   *)
(* whether uses accrue, whether it is printed, and the defaults.           *)
(***************************************************************************)
Registered(class, nvars, counted, accrue, print, defaults) ==
    [class |-> class, nvars |-> nvars, counted |-> counted, accrue |-> accrue,
     print |-> print, defaults |-> defaults]

RegInt(default) == Registered("int", 1, FALSE, FALSE, TRUE, <<default>>)
RegLongLong(default) == Registered("int", 1, FALSE, FALSE, TRUE, <<default>>)
RegUint(default) == Registered("uint", 1, FALSE, FALSE, TRUE, <<default>>)
RegIntList(defaults) ==
    Registered("int", Len(defaults), TRUE, FALSE, TRUE, defaults)
RegFlag(default) == Registered("flag", 1, FALSE, FALSE, TRUE, <<default>>)
RegString(default) == Registered("string", 1, FALSE, FALSE, TRUE, <<default>>)
RegStringList(nvars, accrue) ==
    Registered("string", nvars, TRUE, accrue, FALSE, <<>>)

\* opt_reg_*: an option without a count has one variable; strings may have no
\* default, every other variable has one.
WellRegistered(d) ==
    /\ d.class \in {"int", "uint", "flag", "string"} /\ d.nvars \in Nat
    /\ d.counted \in BOOLEAN /\ d.accrue \in BOOLEAN /\ d.print \in BOOLEAN
    /\ ~d.counted => d.nvars = 1
    /\ IF d.class = "string" THEN d.defaults \in Seq(Tokens) /\ Len(d.defaults) <= d.nvars
       ELSE d.defaults \in Seq(Int) /\ Len(d.defaults) = d.nvars

\* An option that is registered not to be printed.
Hidden(d) == [d EXCEPT !.print = FALSE]

Slots(d) == [s \in 1..d.nvars |-> IF s <= Len(d.defaults) THEN d.defaults[s] ELSE Null]
Default(d) == [vals |-> Slots(d), nelt |-> Len(d.defaults)]

(***************************************************************************)
(* bind_to_enum and bind_to_str over the words of a flag.                  *)
(***************************************************************************)
Trues == {Word("true"), Word("on"), Number(1)}
Falses == {Word("false"), Word("off"), Number(0)}
FlagWord(v) == IF v = 1 THEN Word("true") ELSE Word("false")

(***************************************************************************)
(* process_option: the option at args[i].                                  *)
(***************************************************************************)
\* Only the signed classes take an argument that starts with a minus sign.
IsArgument(class, t) == \/ t.kind = "word"
                        \/ t.kind = "number" /\ (t.num >= 0 \/ class = "int")
Readable(class, t) ==
    \/ class \in {"int", "uint"} /\ t.kind = "number"
    \/ class = "flag" /\ t \in Trues \cup Falses
    \/ class = "string"
Reading(class, t) ==
    CASE class = "string" -> t
      [] class = "flag"   -> IF t \in Trues THEN 1 ELSE 0
      [] OTHER            -> t.num

HasArgument(d, args, i) == i < Len(args) /\ IsArgument(d.class, args[i + 1])

\* The number of arguments an occurrence takes.
Taken(d, args, i) ==
    LET most == IF d.accrue THEN 1 ELSE d.nvars
        fits == {n \in 0..most :
                   /\ i + n <= Len(args)
                   /\ \A k \in i + 1 .. i + n : /\ IsArgument(d.class, args[k])
                                                /\ d.class = "flag" => Readable("flag", args[k])}
    IN CHOOSE n \in fits : \A k \in fits : k <= n

\* Where an occurrence stores: after the elements there are, or from the start.
FirstSlot(d, value) == IF d.accrue THEN value.nelt ELSE 0

Fails(d, value, args, i) ==
    \/ ~HasArgument(d, args, i) /\ d.class # "flag"
    \/ d.accrue /\ FirstSlot(d, value) >= d.nvars
    \/ \E k \in i + 1 .. i + Taken(d, args, i) : ~Readable(d.class, args[k])

\* The strings of an option are kept in one vector that each occurrence clears:
\* the pointers stored before come to name the first string of this one.  The
\* first of two moves when the vector grows, and its pointer is left behind.
Dangling == Word("freed")
LeftBehind(d, value, n) == IF d.class = "string" /\ ~d.accrue /\ value.nelt < n THEN 1..n - 1 ELSE {}
Stored(d, value, args, i) ==
    LET first == FirstSlot(d, value)
        n == Taken(d, args, i)
    IN [vals |-> [s \in 1..d.nvars |->
                     IF s \in LeftBehind(d, value, n) THEN Dangling
                     ELSE IF s \in first + 1 .. first + n
                     THEN Reading(d.class, args[i + s - first])
                     ELSE IF d.class = "flag" /\ s = 1 THEN 1
                     ELSE IF d.class = "string" /\ s <= first THEN args[i + 1]
                     ELSE value.vals[s]],
        nelt |-> IF d.counted THEN first + n ELSE value.nelt]

(***************************************************************************)
(* opt_print_option, opt_null_string and dump_config: the line that a dump *)
(* has for an option; a commented line is an empty one.                    *)
(***************************************************************************)
IsNull(d, value) == /\ d.class = "string"
                    /\ IF d.counted THEN value.nelt = 0 ELSE value.vals[1] = Null
Printed(class, v) ==
    CASE class = "string" -> v
      [] class = "flag"   -> FlagWord(v)
      [] OTHER            -> Number(v)
\* Seeded fault: only the first element of a list is printed.
PrintedCount_One(d, value) == 1
PrintedCount(d, value) == IF d.counted THEN value.nelt ELSE 1
DumpLine(name, d, value) ==
    IF ~d.print \/ IsNull(d, value) THEN <<>>
    ELSE <<Opt(name[1], name[2])>>
         \o [k \in 1..PrintedCount(d, value) |-> Printed(d.class, value.vals[k])]
=============================================================================
