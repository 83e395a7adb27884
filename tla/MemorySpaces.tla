---------------------------- MODULE MemorySpaces ----------------------------
(***************************************************************************)
(* What the simulated memory promises to the programs: every process has   *)
(* a flat memory of its own and a set of disjoint mappings in it, and      *)
(* nothing but its own stores and mappings changes a word of it.           *)
(***************************************************************************)
EXTENDS Integers, FiniteSets

CONSTANTS Procs, Addresses, Values, Blank, PageWords,
          Image(_)                  \* the words of a mapped file

VARIABLES
    memory,                         \* memory[p][a]: the value at the word a
    regions                         \* regions[p]: the mappings [base, size]

mvars == <<memory, regions>>

Covered(r) == r.base..(r.base + r.size - 1)
Same(m, k, area) == \A a \in Addresses \ area : k[a] = m[a]

(***************************************************************************)
(* What an operation of the process makes of its memory m and its mappings *)
(* g: they become k and h.                                                 *)
(***************************************************************************)
Stores(m, k, g, h) == h = g /\ \E a \in Addresses : Same(m, k, {a}) /\ k[a] \in Values

\* A mapping takes words no mapping has, with the contents it was asked for.
MapsRegion(m, k, g, h) ==
    \E r \in h \ g :
        /\ h = g \cup {r}
        /\ Covered(r) \subseteq Addresses
        /\ \A other \in g : Covered(r) \cap Covered(other) = {}
        /\ \/ \A a \in Covered(r) : k[a] = Blank
           \/ \A a \in Covered(r) : k[a] = Image(a - r.base)
        /\ Same(m, k, Covered(r))

\* The words of a mapping that is gone may hold anything.
UnmapsRegion(m, k, g, h) == \E r \in g \ h : h = g \ {r} /\ Same(m, k, Covered(r))

\* A new program finds the pages of inherited mappings as they were, and
\* nothing else.
StartsAnew(m, k, g, h) ==
    LET kept == UNION {Covered(r) : r \in h}
        InKept(a) == a - (a % PageWords) \in kept
    IN  h \subseteq g /\ \A a \in Addresses : k[a] = IF InKept(a) THEN m[a] ELSE Blank

MInit == /\ memory = [p \in Procs |-> [a \in Addresses |-> Blank]]
         /\ regions = [p \in Procs |-> {}]

Operation(m, k, g, h) ==
    Stores(m, k, g, h) \/ MapsRegion(m, k, g, h) \/ UnmapsRegion(m, k, g, h)
        \/ StartsAnew(m, k, g, h)

\* fork: one process becomes the copy of another.
CopyOf(k, h) == \E q \in Procs : k = memory[q] /\ h = regions[q]

\* One process makes a call; the views are read once, before and after it.
MNext == \E m \in {memory}, k \in {memory'}, g \in {regions}, h \in {regions'}, p \in Procs :
            /\ \A q \in Procs \ {p} : k[q] = m[q] /\ h[q] = g[q]
            /\ Operation(m[p], k[p], g[p], h[p]) \/ CopyOf(k[p], h[p])

MSpec == MInit /\ [][MNext]_mvars
=============================================================================
