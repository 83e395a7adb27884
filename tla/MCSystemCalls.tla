--------------------------- MODULE MCSystemCalls ---------------------------
(***************************************************************************)
(* The mixes of calls for TLC.  Descriptor calls and memory calls work on  *)
(* different state, so most mixes make one kind; the third makes both,     *)
(* around fork, exec and exit.                                             *)
(***************************************************************************)
EXTENDS SystemCalls

\* The calls made, the number of descriptors the host allows, those that the
\* calls name, the words and values stored, the sizes and hints of mappings.
FileMix(calls, hostFds, numbers) ==
    [calls |-> calls, hostFds |-> hostFds, numbers |-> numbers,
     words |-> {}, values |-> {}, sizes |-> {}, hints |-> {}]
MemoryMix(calls, words, values, sizes, hints) ==
    [calls |-> calls, hostFds |-> 7, numbers |-> {2, 3},
     words |-> words, values |-> values, sizes |-> sizes, hints |-> hints]

MCMixes == {
    FileMix({"open", "close", "dup2", "pipe", "setfd", "exec"}, 7, {2, 3, 4}),
    FileMix({"open", "close", "dup", "pipe", "fork", "exit"}, 10, {3, 4}),
    MemoryMix({"dup", "setfd", "store", "map_anon", "fork", "exec", "exit"}, {5}, {3}, {2}, {}),
    MemoryMix({"load", "store", "map_fixed", "map_hint", "unmap", "exec"},
        {0, 4, 6}, {3}, {1, 3}, {4, 6}),
    MemoryMix({"load", "store", "map_hint", "map_host", "unmap", "exec"},
        {0, 4}, {3}, {2, 3}, {4}) }
=============================================================================
