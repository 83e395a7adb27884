---------------------------- MODULE AddressSpace ----------------------------
(***************************************************************************)
(* The simulated memory of a context, mem_t (memory.c, memory.h): an       *)
(* inverted page table of hash buckets, each a list of pages with the most *)
(* recently used in front, and two lists of mappings.  memoryMap holds     *)
(* those backed by a mapping of the simulator's own, whose contents are    *)
(* kept here in `data`; internalMap holds those that live in the pages.    *)
(*                                                                         *)
(* Addresses count 8-byte words, to which mem_map rounds a length.         *)
(***************************************************************************)
EXTENDS Integers, Sequences, SequencesExt, FiniteSets, Picking

CONSTANTS
    PageWords,                      \* words of a page (MD_PAGE_SIZE)
    Buckets,                        \* MEM_PTAB_SIZE
    Words                           \* words of the address space (a bound)

ASSUME PageAssumption == /\ PageWords \in Nat \ {0}
                         /\ Buckets \in Nat \ {0}
                         /\ Words \in Nat

Zero == 0                           \* the value of memory never written

(***************************************************************************)
(* The page table.                                                         *)
(***************************************************************************)
Bucket(addr) == (addr \div PageWords) % Buckets
Tag(addr) == addr \div (PageWords * Buckets)
PageBase(b, tag) == (tag * Buckets + b) * PageWords
Offset(addr) == addr % PageWords
Aligned(addr) == Offset(addr) = 0

PageAt(space, addr) == SelectInSeq(space.ptab[Bucket(addr)], LAMBDA pte : pte.tag = Tag(addr))

\* The macro looks at the head of the bucket; mem_translate moves a page it
\* finds further down to the front.
Translated(space, addr) ==
    LET b == Bucket(addr)
        i == PageAt(space, addr)
    IN  IF i <= 1 THEN space
        ELSE [space EXCEPT !.ptab[b] = <<@[i]>> \o RemoveAt(@, i)]

NewPage(space, addr) ==
    [space EXCEPT !.ptab[Bucket(addr)] =
                      <<[tag |-> Tag(addr), page |-> [o \in 0..(PageWords - 1) |-> Zero]]>> \o @,
                  !.count = @ + 1]

\* MEM_TICKLE: a page is allocated when it is first written.
Tickled(space, addr) ==
    IF PageAt(space, addr) = 0 THEN NewPage(space, addr) ELSE Translated(space, addr)

(***************************************************************************)
(* mem_access: a mapping of the simulator's own comes before the pages.    *)
(***************************************************************************)
IsWithin(map, addr) == addr >= map.base /\ addr - map.base < map.size

MapsIn(space) == ToSet(space.memoryMap) \cup ToSet(space.internalMap)

HostMapOf(space, addr) == SelectInSeq(space.memoryMap, LAMBDA map : IsWithin(map, addr))

ValueAt(space, addr) ==
    LET h == HostMapOf(space, addr)
        i == PageAt(space, addr)
    IN  IF h # 0 THEN space.memoryMap[h].data[addr - space.memoryMap[h].base]
        ELSE IF i # 0 THEN space.ptab[Bucket(addr)][i].page[Offset(addr)]
        ELSE Zero

AfterRead(space, addr) == IF HostMapOf(space, addr) # 0 THEN space ELSE Translated(space, addr)

Written(space, addr, v) ==
    LET h == HostMapOf(space, addr) IN
    IF h # 0
    THEN [space EXCEPT !.memoryMap[h].data[addr - space.memoryMap[h].base] = v]
    ELSE [Tickled(space, addr) EXCEPT !.ptab[Bucket(addr)][1].page[Offset(addr)] = v]

\* mem_bcopy and mem_bzero write word after word.
CopiedIn(space, addr, data) ==
    LET after[k \in 0..Len(data)] ==
            IF k = 0 THEN space ELSE Written(after[k - 1], addr + k - 1, data[k])
    IN  after[Len(data)]

(***************************************************************************)
(* Mappings.                                                               *)
(***************************************************************************)
Map(base, size, inherit) == [base |-> base, size |-> size, inherit |-> inherit]

RoundedUp(addr) == ((addr + PageWords - 1) \div PageWords) * PageWords

\* bounds_verify tests the first word of every page of the mappings it knows.
Checks_First(map) == {map.base}     \* only where the mapping starts
Checks(map) == {c \in map.base..(RoundedUp(map.base + map.size) - 1) :
                    (c - map.base) % PageWords = 0}
BoundsVerify(maps, addr, len) ==
    \A map \in ToSet(maps) : \A c \in Checks(map) : ~(c >= addr /\ c - addr < len)

Fits(space, addr, len) ==
    BoundsVerify(space.memoryMap, addr, len) /\ BoundsVerify(space.internalMap, addr, len)

\* acquire_address: page by page from the hint up, or from the base address
\* that all contexts share.
Acquired(space, hint, base, len) ==
    LET start == IF hint = 0 THEN base ELSE hint
        Free(k) == Fits(space, start + k * PageWords, len)
        first == CHOOSE k \in 0..Words : Free(k) /\ \A j \in 0..(k - 1) : ~Free(j)
    IN  start + first * PageWords

NextBase(hint, base, addr, len) == IF hint = 0 THEN RoundedUp(addr + len) ELSE base

MappedInside(space, map, data) ==
    [CopiedIn(space, map.base, data) EXCEPT !.internalMap = Append(@, map)]

\* MAP_FIXED: no other address will do, and the new mapping is listed first.
MappedFixed(space, map, data) ==
    CopiedIn([space EXCEPT !.internalMap = <<map>> \o @], map.base, data)

MappedOnHost(space, map, data) ==
    [space EXCEPT !.memoryMap =
        Append(@, [base |-> map.base, size |-> map.size, inherit |-> map.inherit,
                   data |-> [o \in 0..(map.size - 1) |-> data[o + 1]]])]

\* mem_unmap: the first mapping that starts there, the host's first; its
\* pages stay as they are.
Unmapped(space, addr) ==
    LET h == SelectInSeq(space.memoryMap, LAMBDA map : map.base = addr)
        i == SelectInSeq(space.internalMap, LAMBDA map : map.base = addr)
    IN  IF h # 0 THEN [space EXCEPT !.memoryMap = RemoveAt(@, h)]
        ELSE [space EXCEPT !.internalMap = RemoveAt(@, i)]

\* exec_flush: only inherited mappings stay, and only pages that one of them
\* covers; each page taken out of its list is taken off the count.
Pages(ptab) == UNION {{<<b, pte.tag>> : pte \in ToSet(ptab[b])} : b \in DOMAIN ptab}

ExecFlushed(space) ==
    LET Inherited(maps) == Picked(maps, {i \in DOMAIN maps : maps[i].inherit})
        left == [space EXCEPT !.memoryMap = Inherited(@), !.internalMap = Inherited(@)]
        Covered(b, tag) == ~Fits(left, PageBase(b, tag), 1)
        Kept(b) == {i \in DOMAIN space.ptab[b] : Covered(b, space.ptab[b][i].tag)}
        dropped == {pg \in Pages(space.ptab) : ~Covered(pg[1], pg[2])}
    IN  [left EXCEPT !.ptab = [b \in DOMAIN space.ptab |-> Picked(space.ptab[b], Kept(b))],
                     !.count = space.count - Cardinality(dropped)]

\* The copy constructor: page by page, which turns every bucket round.
SpaceCopy(space) == [space EXCEPT !.ptab = [b \in DOMAIN space.ptab |-> Reverse(space.ptab[b])]]

EmptySpace == [ptab |-> [b \in 0..(Buckets - 1) |-> <<>>], count |-> 0,
               memoryMap |-> <<>>, internalMap |-> <<>>]
=============================================================================
