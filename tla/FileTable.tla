----------------------------- MODULE FileTable -----------------------------
(***************************************************************************)
(* The file descriptor table of a context (file_table.c): a vector of      *)
(* entries, each a number the simulated program uses (sim) and the number  *)
(* of the simulator's own descriptor behind it (real).  The simulator's    *)
(* descriptors are a function `host` from numbers to what is open there.   *)
(* An entry's kind and closeOnExec stand for the bits of `reserved`.       *)
(***************************************************************************)
EXTENDS Integers, Sequences, SequencesExt, FiniteSets, FiniteSetsExt, Picking

Free == <<"free", "">>                     \* no descriptor of the simulator
Std == << <<"std", "in">>, <<"std", "out">>, <<"std", "err">> >>
Kinds == {"file", "stdio", "pipe"}

Entry(sim, real, kind, closeOnExec) ==
    [sim |-> sim, real |-> real, kind |-> kind, closeOnExec |-> closeOnExec]

StartTable == [i \in 1..3 |-> Entry(i - 1, i - 1, "stdio", FALSE)]

Numbers(table) == {table[i].sim : i \in DOMAIN table}
EntryOf(table, n) == SelectInSeq(table, LAMBDA e : e.sim = n)
RealOf(table, n) == table[EntryOf(table, n)].real

\* lowest_avail_sim_fd, and the copy of it in opener: the first gap of the
\* sorted numbers, or their count when there is none.
LowestFree_Count(table) == Len(table)   \* as if no number were ever given back
LowestFree(table) == Min((0..Len(table)) \ Numbers(table))

(***************************************************************************)
(* The simulator's descriptors: the host hands out the lowest free number. *)
(***************************************************************************)
Room(host) == {r \in DOMAIN host : host[r] = Free}
NewReal(host) == Min(Room(host))
OpenedOn(host, object) == [host EXCEPT ![NewReal(host)] = object]
ClosedOn(host, reals) == [r \in DOMAIN host |-> IF r \in reals THEN Free ELSE host[r]]

(***************************************************************************)
(* The operations return the new table and the new host descriptors.       *)
(***************************************************************************)
Opener(table, host, object, n) ==
    [table |-> Append(table, Entry(n, NewReal(host), "file", FALSE)),
     host  |-> OpenedOn(host, object)]

\* Only an entry with a bit above FE_STANDARD_IO has its descriptor closed.
ClosesReal(e) == e.kind = "pipe" \/ e.closeOnExec

Closer(table, host, n) ==
    LET i == EntryOf(table, n) IN
    [table |-> RemoveAt(table, i),
     host  |-> IF ClosesReal(table[i]) THEN ClosedOn(host, {table[i].real}) ELSE host]

\* dup and dup2 copy `reserved` with everything in it.
Copied(table, host, old, n) ==
    LET e == table[EntryOf(table, old)] IN
    [table |-> Append(table, Entry(n, NewReal(host), e.kind, e.closeOnExec)),
     host  |-> OpenedOn(host, host[e.real])]

Duper(table, host, old) == Copied(table, host, old, LowestFree(table))

\* closer(new), then a fresh entry for new
Dup2(table, host, old, new) ==
    LET closed == Closer(table, host, new)
    IN  Copied(closed.table, closed.host, old, new)

\* The first number from the real one up that the program does not use.
Insert(table, real) ==
    LET n == CHOOSE k \in real..(real + Len(table)) :
                 /\ k \notin Numbers(table)
                 /\ \A j \in real..(k - 1) : j \in Numbers(table)
    IN  Append(table, Entry(n, real, "pipe", FALSE))

PipeCall(table, host, pipe) ==
    LET r    == NewReal(host)
        with == OpenedOn(host, <<"read", pipe>>)
        w    == NewReal(with)
    IN  [table |-> Insert(Insert(table, r), w), host |-> OpenedOn(with, <<"write", pipe>>)]

SetCloseOnExec(table, n) == [table EXCEPT ![EntryOf(table, n)].closeOnExec = TRUE]

\* closer for every entry marked; a marked entry always closes its descriptor.
HandleCloexec(table, host) ==
    [table |-> Picked(table, {i \in DOMAIN table : ~table[i].closeOnExec}),
     host  |-> ClosedOn(host, {e.real : e \in {f \in ToSet(table) : f.closeOnExec}})]

Closeall(table, host) == ClosedOn(host, {e.real : e \in ToSet(table)} \ 0..2)

\* The table copied with the context, and nothing opened for the child
CopyFrom_Shared(table, host) == [table |-> table, host |-> host]

\* A regular file is opened anew, without the mark; the rest is dup'ed.  Entry
\* after entry takes the lowest number the host has left.
CopyFrom(table, host) ==
    LET room == Room(host) IN
    [table |-> [i \in DOMAIN table |->
                   Entry(table[i].sim, Nth(room, i), table[i].kind,
                         table[i].closeOnExec /\ table[i].kind # "file")],
     host  |-> [r \in DOMAIN host |->
                   IF r \in room /\ Rank(room, r) <= Len(table)
                   THEN host[table[Rank(room, r)].real] ELSE host[r]]]
=============================================================================
