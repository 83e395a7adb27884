-------------------------- MODULE MCMemoryHierarchy --------------------------
(* Small caches above one another, with a context that has more blocks     *)
(* than the second level holds, or two contexts that share it; and two     *)
(* memory ports.                                                           *)
EXTENDS MemoryHierarchy

Geometry(nsets, assoc, policy) ==
  [nsets |-> nsets, assoc |-> assoc, policy |-> policy, hit_latency |-> 1]

Alone(blocks) == 0 :> blocks
Shared == 0 :> {1, 2} @@ 1 :> {1}

MCMachines ==
  {[dl1 |-> Geometry(1, 1, "LRU"), dl2 |-> Geometry(1, 2, "LRU"), work |-> Shared],
   [dl1 |-> Geometry(1, 1, "LRU"), dl2 |-> Geometry(1, 2, "LRU"), work |-> Alone({1, 2, 3})],
   [dl1 |-> Geometry(1, 1, "LRU"), dl2 |-> Geometry(1, 3, "LRU"), work |-> Alone({1, 2, 3})],
   [dl1 |-> Geometry(2, 1, "FIFO"), dl2 |-> Geometry(1, 2, "FIFO"), work |-> Alone({1, 2, 3})]}

MCUnits == << {"RdPort", "WrPort"}, {"RdPort", "WrPort"} >>

=============================================================================
