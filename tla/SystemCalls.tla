---------------------------- MODULE SystemCalls ----------------------------
(***************************************************************************)
(* The system calls of sys_syscall (syscall.c) that work on files and      *)
(* memory, over the descriptor table of FileTable and the memory of        *)
(* AddressSpace, for a few processes that fork, exec and exit.             *)
(*                                                                         *)
(* A call runs to its end in one step: the simulator is sequential.  What  *)
(* it returns and the errors of the host are left out, except where they   *)
(* change what happens to the state.                                       *)
(***************************************************************************)
EXTENDS FileTable, AddressSpace

CONSTANTS
    Procs,
    MaxNumber,                      \* largest number of a descriptor (a bound)
    MaxMaps,                        \* mappings of a process (a bound)
    FirstBase,                      \* where acquire_address starts
    Files, Pipes,
    Mixes                           \* the calls, addresses and sizes tried together

\* Programs ask for mappings at the start of a page.
ASSUME OsAssumption ==
    /\ Procs # {}
    /\ MaxNumber \in Nat /\ MaxNumber >= 2 /\ MaxMaps \in Nat
    /\ FirstBase \in 0..Words /\ Aligned(FirstBase)
    /\ \A m \in Mixes :
           /\ m.hostFds \in Nat /\ m.hostFds >= 3
           /\ m.words \subseteq 0..(Words - 1)
           /\ m.sizes \subseteq Nat \ {0}
           /\ m.hints \subseteq {h \in 0..Words : Aligned(h)}

VARIABLES
    mix,                            \* the one of Mixes this run makes
    live,                           \* the processes that have a context
    tables,                         \* file_table of each context
    host,                           \* the simulator's own descriptors
    spaces,                         \* mem of each context
    baseAddr                        \* the static base_addr of acquire_address

vars == <<mix, live, tables, host, spaces, baseAddr>>
fileVars == <<tables, host>>
memVars == <<spaces, baseAddr>>

Image(k) == 1 + (k % 2)
Data(len, fromFile) == [k \in 1..len |-> IF fromFile THEN Image(k - 1) ELSE Zero]

Does(p, call) == p \in live /\ call \in mix.calls /\ UNCHANGED mix

(***************************************************************************)
(* What the calls rely on, each of them a condition the code never tests.  *)
(***************************************************************************)
\* Programs name descriptors they have open.
OpenNumbers(p) == Numbers(tables[p]) \cap mix.numbers
\* The host has descriptors left: dup shares the old one when it fails, and
\* pipe and fork do not look.
HasRoom(n) == Cardinality(Room(host)) >= n
\* opener looks at the last of the numbers in use, of which there must be one.
SomeOpen(p) == Len(tables[p]) > 0
\* The mark makes exec close the simulator's descriptor, which for the first
\* three is not the program's own.
MayMark(p, n) == RealOf(tables[p], n) > 2
\* MAP_FIXED is asked for where nothing is mapped.
FixedIsFree(p, addr, len) == Fits(spaces[p], addr, len)
\* Mappings of the simulator's own are copied by pointer.
MayFork(p) == spaces[p].memoryMap = <<>>

Bounded(t) == \A n \in Numbers(t) : n <= MaxNumber
SetFiles(p, r) == /\ Bounded(r.table)
                  /\ tables' = [tables EXCEPT ![p] = r.table]
                  /\ host' = r.host
                  /\ UNCHANGED <<live, memVars>>

(***************************************************************************)
(* Descriptor calls.                                                       *)
(***************************************************************************)
OpenCall(p) ==
    /\ Does(p, "open") /\ SomeOpen(p) /\ HasRoom(1)
    /\ \E f \in Files :
           SetFiles(p, Opener(tables[p], host, <<"file", f>>, LowestFree(tables[p])))

CloseCall(p) ==
    /\ Does(p, "close")
    /\ \E n \in OpenNumbers(p) : SetFiles(p, Closer(tables[p], host, n))

\* dup, and fcntl's F_DUPFD
DupCall(p) ==
    /\ Does(p, "dup") /\ HasRoom(1)
    /\ \E n \in OpenNumbers(p) : SetFiles(p, Duper(tables[p], host, n))

Dup2Call(p) ==
    /\ Does(p, "dup2") /\ HasRoom(1)
    /\ \E old, new \in OpenNumbers(p) :
           /\ old # new
           /\ SetFiles(p, Dup2(tables[p], host, old, new))

PipeMade(p) ==
    /\ Does(p, "pipe") /\ HasRoom(2)
    /\ \E pipe \in Pipes :
           /\ \A r \in DOMAIN host : host[r] \notin {<<"read", pipe>>, <<"write", pipe>>}
           /\ SetFiles(p, PipeCall(tables[p], host, pipe))

\* fcntl's F_SETFD with 1; with 0 it changes nothing
SetFdCall(p) ==
    /\ Does(p, "setfd")
    /\ \E n \in OpenNumbers(p) :
           /\ MayMark(p, n)
           /\ SetFiles(p, [table |-> SetCloseOnExec(tables[p], n), host |-> host])

(***************************************************************************)
(* Loads, stores and mappings.                                             *)
(***************************************************************************)
SetSpace(p, s) == /\ spaces' = [spaces EXCEPT ![p] = s]
                  /\ UNCHANGED <<live, fileVars>>

Load(p) ==
    /\ Does(p, "load")
    /\ \E a \in mix.words : SetSpace(p, AfterRead(spaces[p], a))
    /\ UNCHANGED baseAddr

Store(p) ==
    /\ Does(p, "store")
    /\ \E a \in mix.words, v \in mix.values : SetSpace(p, Written(spaces[p], a, v))
    /\ UNCHANGED baseAddr

MapsOf(p) == Len(spaces[p].memoryMap) + Len(spaces[p].internalMap)

\* mem_map acquires an address first, whatever the flags.
AddressFor(p, hint, len) == Acquired(spaces[p], hint, baseAddr, len)
Maps(p, hint, len) ==
    LET addr == AddressFor(p, hint, len) IN
    /\ MapsOf(p) < MaxMaps
    /\ addr + len <= Words
    /\ baseAddr' = NextBase(hint, baseAddr, addr, len)
MapsFor(p, hint, len) ==
    {Map(AddressFor(p, hint, len), len, inherit) : inherit \in BOOLEAN}

MapFixed(p) ==
    /\ Does(p, "map_fixed")
    /\ \E len \in mix.sizes, hint \in mix.hints, fromFile \in BOOLEAN :
           /\ FixedIsFree(p, hint, len)
           /\ Maps(p, hint, len)
           /\ \E map \in MapsFor(p, hint, len) :
                  SetSpace(p, MappedFixed(spaces[p], map, Data(len, fromFile)))

MapAtHint(p) ==
    /\ Does(p, "map_hint")
    /\ \E len \in mix.sizes, hint \in mix.hints, fromFile \in BOOLEAN :
           /\ Maps(p, hint, len)
           /\ \E map \in MapsFor(p, hint, len) :
                  SetSpace(p, MappedInside(spaces[p], map, Data(len, fromFile)))

MapAnon(p) ==
    /\ Does(p, "map_anon")
    /\ \E len \in mix.sizes :
           /\ Maps(p, 0, len)
           /\ \E map \in MapsFor(p, 0, len) :
                  SetSpace(p, MappedInside(spaces[p], map, Data(len, FALSE)))

\* An anonymous mapping that names a file fails after it has its address.
MapAnonFails(p) ==
    /\ Does(p, "map_anon")
    /\ \E len \in mix.sizes :
           LET addr == Acquired(spaces[p], 0, baseAddr, len) IN
           /\ addr + len <= Words
           /\ baseAddr' = NextBase(0, baseAddr, addr, len)
    /\ UNCHANGED <<live, fileVars, spaces>>

\* A shared mapping with no hint, and a private one
MapOnHost(p) ==
    /\ Does(p, "map_host")
    /\ \E len \in mix.sizes :
           /\ Maps(p, 0, len)
           /\ \E map \in MapsFor(p, 0, len) :
                  SetSpace(p, MappedOnHost(spaces[p], map, Data(len, TRUE)))

UnmapCall(p) ==
    /\ Does(p, "unmap")
    /\ \E map \in MapsIn(spaces[p]) :
           SetSpace(p, Unmapped(spaces[p], map.base))
    /\ UNCHANGED baseAddr

(***************************************************************************)
(* Calls on both.                                                          *)
(***************************************************************************)
ForkCall(p) ==
    /\ Does(p, "fork") /\ HasRoom(Len(tables[p])) /\ MayFork(p)
    /\ \E child \in Procs \ live :
           LET r == CopyFrom(tables[p], host) IN
           /\ live' = live \cup {child}
           /\ tables' = [tables EXCEPT ![child] = r.table]
           /\ host' = r.host
           /\ spaces' = [spaces EXCEPT ![child] = SpaceCopy(spaces[p])]
           /\ UNCHANGED baseAddr

\* exec_flush before the program is loaded, handle_cloexec after it
ExecCall(p) ==
    LET r == HandleCloexec(tables[p], host) IN
    /\ Does(p, "exec")
    /\ tables' = [tables EXCEPT ![p] = r.table]
    /\ host' = r.host
    /\ spaces' = [spaces EXCEPT ![p] = ExecFlushed(spaces[p])]
    /\ UNCHANGED <<live, baseAddr>>

\* A program that cannot be loaded leaves the old one running, without its memory.
ExecFails(p) ==
    /\ Does(p, "exec")
    /\ SetSpace(p, ExecFlushed(spaces[p]))
    /\ UNCHANGED baseAddr

\* exit: the ejected context is not used again.
ExitCall(p) ==
    /\ Does(p, "exit")
    /\ live # {p}
    /\ live' = live \ {p}
    /\ host' = Closeall(tables[p], host)
    /\ tables' = [tables EXCEPT ![p] = <<>>]
    /\ spaces' = [spaces EXCEPT ![p] = EmptySpace]
    /\ UNCHANGED baseAddr

First == CHOOSE p \in Procs : TRUE

Init ==
    /\ mix \in Mixes
    /\ live = {First}
    /\ tables = [q \in Procs |-> IF q = First THEN StartTable ELSE <<>>]
    /\ host = [r \in 0..(mix.hostFds - 1) |-> IF r <= 2 THEN Std[r + 1] ELSE Free]
    /\ spaces = [q \in Procs |-> EmptySpace]
    /\ baseAddr = FirstBase

Next == \E p \in Procs :
            \/ OpenCall(p) \/ CloseCall(p) \/ DupCall(p) \/ Dup2Call(p)
            \/ PipeMade(p) \/ SetFdCall(p)
            \/ Load(p) \/ Store(p) \/ MapFixed(p) \/ MapAtHint(p) \/ MapAnon(p)
            \/ MapAnonFails(p) \/ MapOnHost(p) \/ UnmapCall(p)
            \/ ForkCall(p) \/ ExecCall(p) \/ ExecFails(p) \/ ExitCall(p)

Spec == Init /\ [][Next]_vars

-----------------------------------------------------------------------------
(***************************************************************************)
(* Properties.                                                             *)
(***************************************************************************)
Entries == UNION {{<<p, i>> : i \in DOMAIN tables[p]} : p \in live}
RealAt(e) == tables[e[1]][e[2]].real

\* Types; every number and every tag occurs once where it is looked up, and
\* page_count is the number of pages the buckets hold.
OsTypeOK ==
    /\ mix \in Mixes /\ live \in (SUBSET Procs) \ {{}} /\ baseAddr \in 0..(Words + PageWords)
    /\ \A p \in Procs :
           LET t == tables[p]
               s == spaces[p]
           IN  /\ \A i \in DOMAIN t : t[i].kind \in Kinds /\ t[i].real \in DOMAIN host
               /\ Cardinality(Numbers(t)) = Len(t)
               /\ \A b \in DOMAIN s.ptab :
                      Cardinality({s.ptab[b][i].tag : i \in DOMAIN s.ptab[b]}) = Len(s.ptab[b])
               /\ s.count = Cardinality(Pages(s.ptab))

\* An end of a pipe is open in the simulator exactly while one entry of one
\* live program stands for it: close, dup2, exec and exit leave no writer
\* behind that would keep a reader from seeing the end of the pipe
\* (closer, handle_cloexec and closeall against insert, dup and copy_from).
PipeEndsOwned ==
    \A r \in DOMAIN host :
        host[r][1] \in {"read", "write"} <=>
            Cardinality({e \in Entries : RealAt(e) = r /\ tables[e[1]][e[2]].kind = "pipe"}) = 1

\* No two descriptors of the programs rest on one of the simulator's.
HandlesPrivate == \A e, f \in Entries : RealAt(e) = RealAt(f) => e = f

\* The tables of the programs share out the simulator's descriptors: each is
\* one entry's, and none outlives its entry.
OsInv == OsTypeOK /\ PipeEndsOwned /\ HandlesPrivate

Objects == ToSet(Std) \cup {<<"file", f>> : f \in Files}
               \cup {<<k, i>> : k \in {"read", "write"}, i \in Pipes}
Closed == <<"closed", "">>

\* What the program sees through its table
View(table, h) == [n \in 0..MaxNumber |-> IF n \in Numbers(table) THEN h[RealOf(table, n)]
                                          ELSE Closed]
Views == [p \in Procs |-> View(tables[p], host)]

DescriptorsOf == INSTANCE Descriptors WITH fds <- Views

\* and through its memory
Addresses == 0..(Words - 1)
Values == UNION {m.values : m \in Mixes}
Contents(space) == [a \in Addresses |-> ValueAt(space, a)]
RegionsOf(space) == {[base |-> map.base, size |-> map.size] : map \in MapsIn(space)}
Memories == [p \in Procs |-> Contents(spaces[p])]
Regions == [p \in Procs |-> RegionsOf(spaces[p])]

SpacesOf == INSTANCE MemorySpaces WITH
    Blank <- Zero, memory <- Memories, regions <- Regions

\* Through the tables, the kinds of entries and the simulator's descriptors,
\* every program sees its own numbers stand for what its own calls made of
\* them, whatever the other programs open, close, fork, exec and exit
\* (file_table.c against the promise of Descriptors).
ImplementsDescriptors == DescriptorsOf!DSpec

\* Through buckets that move pages about, copies of whole tables, mappings in
\* and out of the pages and the flush of exec, every program reads back what
\* it stored or mapped, and mappings never overlap (memory.c against the
\* promise of MemorySpaces).
ImplementsMemory == SpacesOf!MSpec
=============================================================================
