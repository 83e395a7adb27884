-------------------------------- MODULE Cache --------------------------------
(***************************************************************************)
(* cache_access() of cache.c.  Times count from sim_cycle on, and a time   *)
(* that has passed is 0: the code takes the maximum with 0 wherever it     *)
(* subtracts now.  A cache is a record of its geometry, its sets and the   *)
(* time its bus to the next level is free; lower is whatever is below it,  *)
(* and Below its blk_access_fn.  Blocks carry no data (balloc is FALSE).   *)
(***************************************************************************)
EXTENDS WayList

Larger(a, b) == IF a < b THEN b ELSE a

Geometries(nsets, assocs, policies, latencies) ==
  [nsets : nsets, assoc : assocs, policy : policies, hit_latency : latencies]

NewBlock == [addr |-> 0, context_id |-> NULL, valid |-> FALSE, dirty |-> FALSE, ready |-> 0]

NewCache(geometry) ==
  [geometry |-> geometry, bus_free |-> 0,
   sets |-> [s \in 0 .. geometry.nsets - 1 |->
               [links |-> NewLinks(geometry.assoc),
                blks  |-> [w \in 0 .. geometry.assoc - 1 |-> NewBlock]]]]

CACHE_SET(c, addr) == addr % c.geometry.nsets

(* Tags are compared with their owner: programs use the same addresses.    *)
Matches(blk, addr, context_id) ==
  blk.valid /\ blk.addr = addr /\ blk.context_id = context_id

Hits(c, addr, context_id) ==
  {w \in DOMAIN c.sets[CACHE_SET(c, addr)].blks :
     Matches(c.sets[CACHE_SET(c, addr)].blks[w], addr, context_id)}

(* Seeded fault: a write that hits does not mark the block.                *)
HitBlock_Clean(blk, cmd) == blk

HitBlock(blk, cmd) == [blk EXCEPT !.dirty = @ \/ cmd = "Write"]

Hit(c, cmd, addr, w, at, lower) ==
  LET s == CACHE_SET(c, addr)
  IN [cache |-> [c EXCEPT !.sets[s].blks[w] = HitBlock(@, cmd),
                          !.sets[s].links = IF c.geometry.policy = "LRU"
                                            THEN UpdateWayList(@, w, "Head") ELSE @],
      lower |-> lower,
      lat |-> Larger(c.geometry.hit_latency, c.sets[s].blks[w].ready - at)]

(* "don't replace the block until outstanding misses are satisfied"        *)
VictimReady(blk, at) == Larger(0, blk.ready - at)

Filled(repl, cmd, addr, context_id, ready) ==
  [addr |-> addr, context_id |-> context_id, valid |-> TRUE,
   dirty |-> cmd = "Write", ready |-> ready]

MissLatency(writeback, wait, fetch) == Larger(writeback, wait + fetch)

(* What a miss replaces, how long the victim waits to be written back, when *)
(* the bus is free after that, and how long the fetch of the new block     *)
(* then waits.                                                             *)
Replacement(c, addr, at) ==
  LET s    == CACHE_SET(c, addr)
      w    == c.sets[s].links.tail
      repl == c.sets[s].blks[w]
      wb   == repl.valid /\ repl.dirty
      lat  == Larger(IF repl.valid THEN VictimReady(repl, at) ELSE 0,
                     IF wb THEN c.bus_free - at ELSE 0)
      bus  == IF wb THEN 1 + Larger(c.bus_free, at + lat) ELSE c.bus_free
  IN [set |-> s, way |-> w, blk |-> repl, wb |-> wb, lat |-> lat, bus |-> bus,
      wait |-> Larger(VictimReady(repl, at), bus - at)]

Replaced(c, r, cmd, addr, context_id, at, lat) ==
  [c EXCEPT !.bus_free = 1 + Larger(r.bus, at + r.wait),
            !.sets[r.set].links = UpdateWayList(@, r.way, "Head"),
            !.sets[r.set].blks[r.way] = Filled(r.blk, cmd, addr, context_id, at + lat)]

(* The dirty victim goes down, under the context_id of the access that     *)
(* replaces it; then the new block comes up.                               *)
Miss(c, cmd, addr, context_id, at, lower, Below(_, _, _, _, _)) ==
  LET r    == Replacement(c, addr, at)
      down == IF r.wb THEN Below(lower, "Write", r.blk.addr, context_id, at + r.lat)
              ELSE [lower |-> lower, lat |-> 0]
      up   == Below(down.lower, "Read", addr, context_id, at + r.wait)
      lat  == MissLatency(r.lat + down.lat, r.wait, up.lat)
  IN [cache |-> Replaced(c, r, cmd, addr, context_id, at, lat),
      lower |-> up.lower, lat |-> lat]

CacheAccess(c, cmd, addr, context_id, at, lower, Below(_, _, _, _, _)) ==
  IF Hits(c, addr, context_id) = {}
  THEN Miss(c, cmd, addr, context_id, at, lower, Below)
  ELSE Hit(c, cmd, addr, CHOOSE w \in Hits(c, addr, context_id) : TRUE, at, lower)

(* A cycle passes.                                                         *)
Sooner(t) == Larger(0, t - 1)

Later(blk) == [blk EXCEPT !.ready = Sooner(blk.ready)]

Elapsed(c) ==
  [geometry |-> c.geometry, bus_free |-> Sooner(c.bus_free),
   sets |-> [s \in DOMAIN c.sets |->
               [links |-> c.sets[s].links,
                blks  |-> [w \in DOMAIN c.sets[s].blks |-> Later(c.sets[s].blks[w])]]]]

(* The valid blocks.                                                       *)
Blks(c) == UNION {{c.sets[s].blks[w] : w \in DOMAIN c.sets[s].blks} : s \in DOMAIN c.sets}
Valid(c) == {blk \in Blks(c) : blk.valid}

=============================================================================
