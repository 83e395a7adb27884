---------------------------- MODULE Descriptors ----------------------------
(***************************************************************************)
(* What the descriptor calls promise to the simulated programs: every      *)
(* process has its own numbers, each standing for one open object, and     *)
(* only its own calls change what they stand for.                          *)
(***************************************************************************)
EXTENDS Integers, FiniteSets

CONSTANTS Procs, MaxNumber, Objects, Closed

VARIABLE fds                        \* fds[p][n]: the object, or Closed

DNumbers == 0..MaxNumber
Open(d) == {n \in DNumbers : d[n] # Closed}
Others(d, e, changed) == \A n \in DNumbers \ changed : e[n] = d[n]

(***************************************************************************)
(* What a call of the process makes of its descriptors d: they become e.   *)
(***************************************************************************)
IsLowest(d, n) == d[n] = Closed /\ \A m \in 0..(n - 1) : d[m] # Closed

\* open, and dup: the lowest number there is
OpensLowest(d, e, objects) ==
    \E n \in DNumbers : IsLowest(d, n) /\ Others(d, e, {n}) /\ e[n] \in objects

Redirects(d, e) ==                  \* dup2
    \E n \in DNumbers : Others(d, e, {n}) /\ e[n] \in {d[m] : m \in Open(d)}

Closes(d, e) == \A n \in DNumbers : e[n] \in {d[n], Closed}

MakesPipe(d, e, inUse) ==
    \E r, w \in DNumbers \ Open(d) :
        r # w /\ Others(d, e, {r, w}) /\ e[r] # e[w] /\ {e[r], e[w]} \subseteq Objects \ inUse

DInit == \E starter \in Procs :
            /\ fds[starter] \in [DNumbers -> Objects \cup {Closed}]
            /\ \A p \in Procs \ {starter} : Open(fds[p]) = {}

Call(p, d, e) ==
    \/ OpensLowest(d, e, Objects)
    \/ Redirects(d, e)
    \/ Closes(d, e)
    \/ MakesPipe(d, e, UNION {{fds[q][n] : n \in DNumbers} : q \in Procs})

\* fork: a process without descriptors gets those of its parent.
Inherits(q, e) == Open(fds[q]) = {} /\ \E p \in Procs : e = fds[p]

\* One process makes a call; the views are read once, before and after it.
DNext == \E d \in {fds}, e \in {fds'}, p \in Procs :
            /\ \A q \in Procs \ {p} : e[q] = d[q]
            /\ Call(p, d[p], e[p]) \/ Inherits(p, e[p])

DSpec == DInit /\ [][DNext]_fds
=============================================================================
