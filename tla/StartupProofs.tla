--------------------------- MODULE StartupProofs ---------------------------
(***************************************************************************)
(* Proofs about Startup.                                                   *)
(***************************************************************************)
EXTENDS Startup, TLAPS, FiniteSetTheorems, SequenceTheorems, WellFoundedInduction

-----------------------------------------------------------------------------
(***************************************************************************)
(* The caches of a core, and where a miss goes.                            *)
(***************************************************************************)
Data(w, core) ==
  \/ w.dl1 = CacheDl3 /\ w.dl2 = CacheDl3
  \/ w.dl1 = Own("dl1", core) /\ w.dl2 \in {CacheDl3, Own("dl2", core)}

Inst(w, core) ==
  \/ w.il1 \in {CacheIl3, w.dl1, w.dl2} /\ w.il2 = CacheIl3
  \/ w.il1 = Own("il1", core) /\ w.il2 \in {CacheIl3, w.dl2, Own("il2", core)}

SharedCaches ==
  /\ CacheDl3 \in {NoCache, Dl3}
  /\ CacheIl3 \in {NoCache, CacheDl3, Il3}

LEMMA CoreIsWired ==
  ASSUME NEW cores, NEW core, NEW w, w = Wired(cores, core), CachesOK(cores, core)
  PROVE  Data(w, core) /\ Inst(w, core)
<1>1. PICK dl1, dl2, il1, il2 :
        /\ dl1 = Text(PerCore("-cache:dl1", core, cores))
        /\ dl2 = Text(PerCore("-cache:dl2", core, cores))
        /\ il1 = Text(PerCore("-cache:il1", core, cores))
        /\ il2 = Text(PerCore("-cache:il2", core, cores))
  OBVIOUS
<1>2. PICK data : data = DataCaches(core, dl1, dl2)  OBVIOUS
<1>3. PICK inst : inst = InstCaches(core, data, il1, il2)  OBVIOUS
<1>4. w = [dl1 |-> data.dl1, dl2 |-> data.dl2, il1 |-> inst.il1, il2 |-> inst.il2]
  BY <1>1, <1>2, <1>3 DEF Wired
<1>5. DataCachesOK(dl1, dl2) /\ InstCachesOK(data, il1, il2)
  BY <1>1, <1>2 DEF CachesOK
<1>6. Data(w, core)
  BY <1>2, <1>4 DEF Data, DataCaches
<1>7. Inst(w, core)
  BY <1>3, <1>4, <1>5 DEF Inst, InstCaches, InstCachesOK, SaysNone
<1>. QED  BY <1>6, <1>7

LEMMA SharedAre == SharedCaches
  BY DEF SharedCaches, CacheDl3, CacheIl3

Cached(w) == {w.dl1, w.dl2, w.il1, w.il2, CacheDl3, CacheIl3, NoCache}

LEMMA NextIs ==
  ASSUME NEW core \in Nat, NEW w, Data(w, core), Inst(w, core), NEW c \in Cached(w),
         NEW n, n = NextLevel(w, c)
  PROVE  /\ n \in Cached(w)
         /\ c = NoCache => n = NoCache
         /\ c # NoCache => Levels[n[1]] > Levels[c[1]]
         /\ c[2] \in {core, Alone}
         /\ Levels[c[1]] \in 1 .. 4 /\ (c[1] = "none" => c = NoCache)
  BY SharedAre DEF SharedCaches, Data, Inst, Cached, NextLevel, NoCache, Dl3, Il3, Own,
     Levels, Alone

LEMMA PathIs ==
  ASSUME NEW core \in Nat, NEW w, Data(w, core), Inst(w, core), NEW c \in Cached(w),
         NEW p, p = MissPath(w, c)
  PROVE  /\ Deeper(p) /\ Serves(p, core) /\ p[4] = NoCache
         /\ \A k \in 1 .. 3 : p[k + 1] = NextLevel(w, p[k])
         /\ DOMAIN p = 1 .. 4 /\ \A k \in 1 .. 4 : p[k] \in Cached(w)
<1>1. PICK d, e, f : d = NextLevel(w, c) /\ e = NextLevel(w, d) /\ f = NextLevel(w, e)
  OBVIOUS
<1>2. p = <<c, d, e, f>>  BY <1>1 DEF MissPath
<1>3. d \in Cached(w) /\ e \in Cached(w) /\ f \in Cached(w)  BY <1>1, NextIs
<1>4. \A x \in Cached(w) : /\ x = NoCache => NextLevel(w, x) = NoCache
                           /\ x # NoCache => Levels[NextLevel(w, x)[1]] > Levels[x[1]]
                           /\ x[2] \in {core, Alone}
                           /\ Levels[x[1]] \in 1 .. 4 /\ (x[1] = "none" => x = NoCache)
  BY NextIs
<1>5. f = NoCache
  <2>1. \A x \in Cached(w) : x # NoCache => Levels[x[1]] <= 3
    BY <1>4, SharedAre
    DEF Cached, Data, Inst, SharedCaches, NoCache, Dl3, Il3, Own, Levels
  <2>2. \A x \in Cached(w) : Levels[x[1]] \in 1 .. 4  BY <1>4
  <2>3. SUFFICES ASSUME f # NoCache PROVE FALSE  OBVIOUS
  <2>4. c # NoCache /\ d # NoCache /\ e # NoCache  BY <1>1, <1>3, <1>4, <2>3
  <2>5. /\ Levels[d[1]] > Levels[c[1]] /\ Levels[e[1]] > Levels[d[1]]
        /\ Levels[f[1]] > Levels[e[1]]
    BY <1>1, <1>3, <1>4, <2>4
  <2>. HIDE DEF Levels
  <2>. QED  BY <1>3, <2>1, <2>2, <2>3, <2>4, <2>5
<1>6. Deeper(p)
  <2>1. \A k \in 1 .. 3 : p[k] \in Cached(w) /\ p[k + 1] = NextLevel(w, p[k])
    BY <1>1, <1>2, <1>3
  <2>. QED  BY <1>4, <2>1 DEF Deeper
<1>7. Serves(p, core)  BY <1>2, <1>3, <1>4 DEF Serves
<1>8. DOMAIN p = 1 .. 4 /\ \A k \in 1 .. 4 : p[k] \in Cached(w)  BY <1>2, <1>3
<1>9. \A k \in 1 .. 3 : p[k + 1] = NextLevel(w, p[k])  BY <1>1, <1>2
<1>. QED  BY <1>2, <1>5, <1>6, <1>7, <1>8, <1>9

(* Of every core, by the caches it has.                                    *)
Reaches(w, core) ==
  \A path \in {MissPath(w, w.dl1), MissPath(w, w.il1)} :
    /\ Deeper(path) /\ Serves(path, core) /\ path[4] = NoCache
    /\ \A k \in 1 .. 3 : path[k + 1] = NextLevel(w, path[k])
    /\ DOMAIN path = 1 .. 4 /\ \A k \in 1 .. 4 : path[k] \in Cached(w)

LEMMA CoreReaches ==
  ASSUME NEW cores, NEW core \in Nat, NEW w, w = Wired(cores, core), CachesOK(cores, core)
  PROVE  Reaches(w, core)
<1>1. Data(w, core) /\ Inst(w, core)  BY CoreIsWired
<1>2. w.dl1 \in Cached(w) /\ w.il1 \in Cached(w)  BY DEF Cached
<1>. QED  BY <1>1, <1>2, PathIs DEF Reaches

LEMMA AllReach ==
  ASSUME NEW cores \in Nat, \A i \in 0 .. cores - 1 : CachesOK(cores, i)
  PROVE  /\ DOMAIN Wiring(cores) = 0 .. cores - 1
         /\ \A core \in 0 .. cores - 1 : Reaches(Wiring(cores)[core], core)
<1>1. \A core \in 0 .. cores - 1 : Wiring(cores)[core] = Wired(cores, core)  BY DEF Wiring
<1>. QED  BY <1>1, CoreReaches DEF Wiring

WiringInv ==
  /\ \A core \in DOMAIN wiring : core \in Nat /\ Reaches(wiring[core], core)
  /\ Fastfwd \in Nat

LEMMA MissesReach ==
  ASSUME WiringInv
  PROVE  MissesReachMemory
<1>. SUFFICES ASSUME NEW core \in DOMAIN wiring
     PROVE  LET data == MissPath(wiring[core], wiring[core].dl1)
                inst == MissPath(wiring[core], wiring[core].il1)
            IN /\ \A path \in {data, inst} :
                      Deeper(path) /\ Serves(path, core) /\ path[4] = NoCache
               /\ \A j, k \in 1..3 : data[j] = inst[k] => data[j + 1] = inst[k + 1]
  BY DEF MissesReachMemory
<1>1. Reaches(wiring[core], core)  BY DEF WiringInv
<1>. QED  BY <1>1 DEF Reaches

LEMMA NoneForgotten ==
  ASSUME WiringInv, phase = "exited" => freed = CachesMade
  PROVE  NoCacheForgotten
<1>. SUFFICES ASSUME phase = "exited", NEW core \in DOMAIN wiring,
                     NEW first \in {wiring[core].dl1, wiring[core].il1}
     PROVE  Range(MissPath(wiring[core], first)) \subseteq freed \cup {NoCache}
  BY DEF NoCacheForgotten
<1>1. Reaches(wiring[core], core)  BY DEF WiringInv
<1>2. PICK p : p = MissPath(wiring[core], first)  OBVIOUS
<1>3. Range(p) \subseteq Cached(wiring[core])  BY <1>1, <1>2 DEF Reaches, Range
<1>4. Cached(wiring[core]) \subseteq CachesMade \cup {NoCache}
  <2>1. {wiring[core].dl1, wiring[core].dl2, wiring[core].il1, wiring[core].il2} \in
          {{wiring[i].dl1, wiring[i].dl2, wiring[i].il1, wiring[i].il2} : i \in DOMAIN wiring}
    OBVIOUS
  <2>2. PICK U : U = UNION {{wiring[i].dl1, wiring[i].dl2, wiring[i].il1, wiring[i].il2}
                            : i \in DOMAIN wiring}
    OBVIOUS
  <2>3. {wiring[core].dl1, wiring[core].dl2, wiring[core].il1, wiring[core].il2} \subseteq U
    BY <2>1, <2>2
  <2>4. CachesMade = ({CacheDl3, CacheIl3} \cup U) \ {NoCache}  BY <2>2 DEF CachesMade
  <2>. QED  BY <2>3, <2>4 DEF Cached
<1>. QED  BY <1>2, <1>3, <1>4

-----------------------------------------------------------------------------
(***************************************************************************)
(* The values of an option.                                                *)
(***************************************************************************)
LEMMA LeastNumber ==
  ASSUME NEW T, T \subseteq Nat, T # {}
  PROVE  \E x \in T : \A y \in T : x <= y
<1>. DEFINE R == {p \in Nat \X Nat : p[1] < p[2]}
<1>1. IsWellFoundedOn(R, Nat)
  BY NatLessThanWellFounded DEF OpToRel
<1>2. PICK x \in T : \A y \in T : ~ (<<y, x>> \in R)
  <2>. HIDE DEF R
  <2>. QED  BY <1>1, WFMin, Zenon
<1>3. \A y \in T : x <= y
  <2>. SUFFICES ASSUME NEW y \in T PROVE x <= y  OBVIOUS
  <2>1. <<y, x>> \notin R  BY <1>2
  <2>2. <<y, x>> \in Nat \X Nat  OBVIOUS
  <2>3. ~(y < x)  BY <2>1, <2>2
  <2>. QED  BY <2>3
<1>. QED  BY <1>3

LEMMA GreatestNumber ==
  ASSUME NEW n \in Nat, NEW T, T \subseteq 0 .. n, T # {}
  PROVE  \E x \in T : \A y \in T : y <= x
<1>1. PICK R : R = {n - y : y \in T}  OBVIOUS
<1>2. R \subseteq Nat /\ R # {}
  <2>1. \A y \in T : y \in Nat /\ y <= n  OBVIOUS
  <2>2. \A y \in T : n - y \in Nat  BY <2>1
  <2>. QED  BY <1>1, <2>2
<1>3. PICK r \in R : \A y \in R : r <= y  BY <1>2, LeastNumber
<1>4. PICK x \in T : r = n - x  BY <1>1
<1>5. \A y \in T : n - y \in R  BY <1>1
<1>6. \A y \in T : y \in Nat /\ n - x <= n - y  BY <1>3, <1>4, <1>5
<1>. QED  BY <1>4, <1>6

(* The provers do not know that a string literal is a string.              *)
Texts == STRING \cup {"", "freed", "true", "false", "-config"}
Toks == [kind : {"option", "word", "number", "null"}, text : Texts, num : Int]
Element(d) == IF d.class = "string" THEN Toks ELSE Int
ValueOK(d, value) ==
  /\ value.vals \in Seq(Element(d)) /\ Len(value.vals) = d.nvars
  /\ value.nelt \in 0 .. d.nvars

LEMMA TokensAreToks ==
  /\ Tokens \subseteq Toks
  /\ Seq(Tokens) \subseteq Seq(Toks)
  /\ Seq(Seq(Tokens)) \subseteq Seq(Seq(Toks))
<1>1. Tokens \subseteq Toks  BY DEF Tokens, Toks, Texts
<1>2. ASSUME NEW S, NEW T, S \subseteq T
      PROVE  Seq(S) \subseteq Seq(T)
  BY <1>2
<1>. QED  BY <1>1, <1>2

LEMMA SomeTokens ==
  /\ Null \in Toks /\ Dangling \in Toks
  /\ \A n \in Int : Number(n) \in Toks
  /\ \A text \in Texts : Word(text) \in Toks
  /\ \A text \in Texts, n \in Int : Opt(text, n) \in Toks
<1>. DEFINE kinds == {"option", "word", "number", "null"}
<1>1. \A kind \in kinds, text \in Texts, num \in Int : Token(kind, text, num) \in Toks
  BY DEF Token, Toks
<1>2. "" \in Texts /\ "freed" \in Texts /\ 0 \in Int  BY DEF Texts
<1>3. Null \in Toks  BY <1>1, <1>2 DEF Null
<1>4. \A text \in Texts : Word(text) \in Toks  BY <1>1, <1>2 DEF Word
<1>5. Dangling \in Toks  BY <1>2, <1>4 DEF Dangling
<1>6. \A n \in Int : Number(n) \in Toks  BY <1>1, <1>2 DEF Number
<1>7. \A text \in Texts, n \in Int : Opt(text, n) \in Toks  BY <1>1 DEF Opt
<1>. QED  BY <1>3, <1>4, <1>5, <1>6, <1>7

LEMMA DefaultOK ==
  ASSUME NEW d, WellRegistered(d)
  PROVE  ValueOK(d, Default(d))
<1>1. d.nvars \in Nat /\ d.defaults \in Seq(Element(d)) /\ Len(d.defaults) <= d.nvars
  BY TokensAreToks DEF WellRegistered, Element
<1>2. Slots(d) \in [1 .. d.nvars -> Element(d)]
  <2>1. CASE d.class = "string"
    BY <1>1, <2>1, SomeTokens DEF Slots, Element
  <2>2. CASE d.class # "string"
    <3>1. Len(d.defaults) = d.nvars  BY <2>2 DEF WellRegistered
    <3>. QED  BY <1>1, <3>1 DEF Slots
  <2>. QED  BY <2>1, <2>2
<1>3. Slots(d) \in Seq(Element(d)) /\ Len(Slots(d)) = d.nvars  BY <1>1, <1>2
<1>4. Default(d).vals = Slots(d) /\ Default(d).nelt = Len(d.defaults)  BY DEF Default
<1>. QED  BY <1>1, <1>3, <1>4 DEF ValueOK

(* How many arguments are taken: as many as fit.                           *)
LEMMA TakenIs ==
  ASSUME NEW d, d.nvars \in Nat, NEW args \in Seq(Toks), NEW i \in 1 .. Len(args)
  PROVE  /\ Taken(d, args, i) \in Nat
         /\ Taken(d, args, i) <= IF d.accrue THEN 1 ELSE d.nvars
         /\ i + Taken(d, args, i) <= Len(args)
<1>. DEFINE most == IF d.accrue THEN 1 ELSE d.nvars
            fits == {n \in 0 .. most :
                      /\ i + n <= Len(args)
                      /\ \A k \in i + 1 .. i + n :
                           /\ IsArgument(d.class, args[k])
                           /\ d.class = "flag" => Readable("flag", args[k])}
<1>1. Taken(d, args, i) = CHOOSE n \in fits : \A k \in fits : k <= n  BY DEF Taken
<1>2. most \in Nat /\ 0 \in fits /\ fits \subseteq 0 .. most  OBVIOUS
<1>3. \A n \in fits : n \in Nat /\ n <= most /\ i + n <= Len(args)  OBVIOUS
<1>4. \E n \in fits : \A k \in fits : k <= n
  <2>. HIDE DEF fits, most
  <2>. QED  BY <1>2, GreatestNumber
<1>5. Taken(d, args, i) \in fits
  <2>. HIDE DEF fits
  <2>. QED  BY <1>1, <1>4
<1>. QED  BY <1>3, <1>5

LEMMA StoredOK ==
  ASSUME NEW d, WellRegistered(d), NEW value, ValueOK(d, value),
         NEW args \in Seq(Toks), NEW i \in 1 .. Len(args), ~Fails(d, value, args, i)
  PROVE  ValueOK(d, Stored(d, value, args, i))
<1>. DEFINE first == FirstSlot(d, value)
            n == Taken(d, args, i)
            slot(s) == IF s \in LeftBehind(d, value, n) THEN Dangling
                       ELSE IF s \in first + 1 .. first + n
                       THEN Reading(d.class, args[i + s - first])
                       ELSE IF d.class = "flag" /\ s = 1 THEN 1
                       ELSE IF d.class = "string" /\ s <= first THEN args[i + 1]
                       ELSE value.vals[s]
<1>1. d.nvars \in Nat /\ d.accrue \in BOOLEAN  BY DEF WellRegistered
<1>2. n \in Nat /\ n <= (IF d.accrue THEN 1 ELSE d.nvars) /\ i + n <= Len(args)  BY <1>1, TakenIs
<1>3. first \in Nat /\ first + n <= d.nvars
  <2>1. CASE d.accrue
    <3>1. first = value.nelt /\ first < d.nvars  BY <2>1 DEF Fails, FirstSlot, ValueOK
    <3>. QED  BY <1>1, <1>2, <2>1, <3>1 DEF ValueOK
  <2>2. CASE ~d.accrue
    BY <1>1, <1>2, <2>2 DEF FirstSlot
  <2>. QED  BY <2>1, <2>2
<1>4. ASSUME NEW s \in 1 .. d.nvars
      PROVE  slot(s) \in Element(d)
  <2>1. CASE s \in LeftBehind(d, value, n)
    <3>1. d.class = "string"  BY <2>1 DEF LeftBehind
    <3>. QED  BY <2>1, <3>1, SomeTokens DEF Element
  <2>2. CASE s \notin LeftBehind(d, value, n) /\ s \in first + 1 .. first + n
    <3>1. slot(s) = Reading(d.class, args[i + s - first])  BY <2>2
    <3>2. i + s - first \in 1 .. Len(args)  BY <1>2, <1>3, <2>2
    <3>3. args[i + s - first] \in Toks  BY <3>2
    <3>4. Reading(d.class, args[i + s - first]) \in Element(d)
      BY <3>3 DEF Reading, Element, Toks
    <3>. QED  BY <3>1, <3>4
  <2>3. CASE /\ s \notin LeftBehind(d, value, n) /\ s \notin first + 1 .. first + n
             /\ d.class = "flag" /\ s = 1
    BY <2>3 DEF Element
  <2>4. CASE /\ s \notin LeftBehind(d, value, n) /\ s \notin first + 1 .. first + n
             /\ d.class = "string" /\ s <= first
    <3>1. i < Len(args)  BY <2>4 DEF Fails, HasArgument
    <3>2. args[i + 1] \in Toks  BY <3>1
    <3>. QED  BY <2>4, <3>2 DEF Element
  <2>5. CASE /\ s \notin LeftBehind(d, value, n) /\ s \notin first + 1 .. first + n
             /\ ~(d.class = "flag" /\ s = 1) /\ ~(d.class = "string" /\ s <= first)
    <3>1. slot(s) = value.vals[s]  BY <2>5
    <3>2. value.vals[s] \in Element(d)  BY DEF ValueOK
    <3>. QED  BY <3>1, <3>2
  <2>. QED  BY <2>1, <2>2, <2>3, <2>4, <2>5
<1>5. /\ Stored(d, value, args, i).vals = [s \in 1 .. d.nvars |-> slot(s)]
      /\ Stored(d, value, args, i).nelt = IF d.counted THEN first + n ELSE value.nelt
  BY DEF Stored
<1>. HIDE DEF slot, first, n
<1>6. [s \in 1 .. d.nvars |-> slot(s)] \in [1 .. d.nvars -> Element(d)]  BY <1>4
<1>7. /\ Stored(d, value, args, i).vals \in Seq(Element(d))
      /\ Len(Stored(d, value, args, i).vals) = d.nvars
  BY <1>1, <1>5, <1>6
<1>. QED  BY <1>1, <1>2, <1>3, <1>5, <1>7 DEF ValueOK

LEMMA DumpLineOK ==
  ASSUME NEW name \in STRING \X Int, NEW d, WellRegistered(d), NEW value, ValueOK(d, value)
  PROVE  DumpLine(name, d, value) \in Seq(Toks)
<1>1. CASE ~d.print \/ IsNull(d, value)
  BY <1>1 DEF DumpLine
<1>2. CASE ~(~d.print \/ IsNull(d, value))
  <2>1. PICK n : n = PrintedCount(d, value)  OBVIOUS
  <2>2. n \in 0 .. d.nvars
    BY <2>1 DEF PrintedCount, ValueOK, WellRegistered
  <2>3. ASSUME NEW k \in 1 .. n
        PROVE  Printed(d.class, value.vals[k]) \in Toks
    <3>1. value.vals[k] \in Element(d)  BY <2>2 DEF ValueOK, WellRegistered
    <3>2. CASE d.class = "string"  BY <3>1, <3>2 DEF Printed, Element
    <3>3. CASE d.class = "flag"
      <4>1. FlagWord(value.vals[k]) \in {Word("true"), Word("false")}  BY DEF FlagWord
      <4>2. Word("true") \in Toks /\ Word("false") \in Toks  BY SomeTokens DEF Texts
      <4>. QED  BY <3>3, <4>1, <4>2 DEF Printed
    <3>4. CASE d.class # "string" /\ d.class # "flag"
      BY <3>1, <3>4, SomeTokens DEF Printed, Element
    <3>. QED  BY <3>2, <3>3, <3>4
  <2>4. [k \in 1 .. n |-> Printed(d.class, value.vals[k])] \in Seq(Toks)  BY <2>2, <2>3
  <2>5. Opt(name[1], name[2]) \in Toks  BY SomeTokens DEF Texts
  <2>6. DumpLine(name, d, value)
          = <<Opt(name[1], name[2])>> \o [k \in 1 .. n |-> Printed(d.class, value.vals[k])]
    BY <1>2, <2>1 DEF DumpLine
  <2>. QED  BY <2>4, <2>5, <2>6
<1>. QED  BY <1>1, <1>2

-----------------------------------------------------------------------------
(***************************************************************************)
(* The vectors and files that are being processed.                         *)
(***************************************************************************)
Frames == [kind : {"args", "file"}, toks : Seq(Toks), at : Nat, depth : Nat,
           dumps : BOOLEAN, name : Texts]

(* A frame is within its vector, or its file: the command line is at depth *)
(* 0, and the file that is dumped has n lines.                             *)
LinesIn(name, n) == IF name = DumpFile THEN n ELSE Len(Files[name])
FrameFits(f, args, n) ==
  /\ f \in Frames /\ f.at > 0
  /\ f.kind = "args" => f.at <= Len(f.toks) + 1 /\ (f.depth = 0 => f.toks = args)
  /\ f.kind = "file" => f.name \in DOMAIN Files \cup {DumpFile} /\ f.at <= LinesIn(f.name, n) + 1
FramesFit(fs, args, n) ==
  fs \in Seq(Frames) /\ \A k \in DOMAIN fs : FrameFits(fs[k], args, n)

DatabaseOK ==
  /\ DOMAIN database \subseteq DOMAIN Descriptor
  /\ \A name \in DOMAIN database : ValueOK(Descriptor[name], database[name])
DumpOK == dump.lines \in Seq(Seq(Toks)) /\ Len(dump.lines) \in {0, Len(Order)}

OptionsOK ==
  /\ argv \in Seq(Toks) /\ execIndex \in 0 .. Len(argv)
  /\ DatabaseOK /\ DumpOK
  /\ FramesFit(frames, argv, Len(dump.lines))

LEMMA LinesAre ==
  ASSUME DumpOK, NEW name \in DOMAIN Files \cup {DumpFile}
  PROVE  LinesOf(name) \in Seq(Seq(Toks)) /\ Len(LinesOf(name)) = LinesIn(name, Len(dump.lines))
  BY FilesAssumption, TokensAreToks DEF DumpOK, LinesOf, LinesIn

LEMMA OthersFit ==
  ASSUME NEW fs, NEW args, NEW n, FramesFit(fs, args, n), fs # <<>>
  PROVE  /\ FrameFits(Last(fs), args, n) /\ FramesFit(Front(fs), args, n)
         /\ Len(fs) > 0
<1>1. fs \in Seq(Frames) /\ Len(fs) \in Nat /\ Len(fs) > 0  BY DEF FramesFit
<1>2. Front(fs) \in Seq(Frames) /\ Len(Front(fs)) = Len(fs) - 1
      /\ \A k \in 1 .. Len(fs) - 1 : Front(fs)[k] = fs[k]
  <2>1. \A k \in 1 .. Len(fs) - 1 : fs[k] \in Frames  BY <1>1
  <2>2. Front(fs) = SubSeq(fs, 1, Len(fs) - 1)  BY DEF Front
  <2>3. PICK m \in Nat : m = Len(fs) - 1  BY <1>1
  <2>4. /\ SubSeq(fs, 1, m) \in Seq(Frames) /\ Len(SubSeq(fs, 1, m)) = m
        /\ \A k \in 1 .. m : SubSeq(fs, 1, m)[k] = fs[k]
    <3>1. \A k \in 1 .. m : fs[k] \in Frames  BY <2>1, <2>3
    <3>2. PICK p : p = SubSeq(fs, 1, m)  OBVIOUS
    <3>3. 1 \in Int /\ m \in Int  OBVIOUS
    <3>4. /\ p \in Seq(Frames) /\ Len(p) = IF 1 <= m THEN m - 1 + 1 ELSE 0
          /\ \A i \in 1 .. m - 1 + 1 : p[i] = fs[1 + i - 1]
      BY <3>1, <3>2, <3>3, SubSeqProperties
    <3>5. Len(p) = m  BY <3>4
    <3>6. \A k \in 1 .. m : p[k] = fs[k]
      <4>. SUFFICES ASSUME NEW k \in 1 .. m PROVE p[k] = fs[k]  OBVIOUS
      <4>1. k \in 1 .. m - 1 + 1 /\ 1 + k - 1 = k  OBVIOUS
      <4>. QED  BY <3>4, <4>1
    <3>. QED  BY <3>2, <3>4, <3>5, <3>6
  <2>. QED  BY <1>1, <2>2, <2>3, <2>4
<1>3. Last(fs) = fs[Len(fs)]  BY DEF Last
<1>. QED  BY <1>1, <1>2, <1>3 DEF FramesFit

LEMMA OneMoreFits ==
  ASSUME NEW fs, NEW args, NEW n, FramesFit(fs, args, n), NEW f, FrameFits(f, args, n)
  PROVE  FramesFit(Append(fs, f), args, n)
<1>1. fs \in Seq(Frames) /\ f \in Frames  BY DEF FramesFit, FrameFits
<1>2. Append(fs, f) \in Seq(Frames) /\ Len(Append(fs, f)) = Len(fs) + 1
      /\ Append(fs, f)[Len(fs) + 1] = f
      /\ \A k \in 1 .. Len(fs) : Append(fs, f)[k] = fs[k]
  BY <1>1
<1>. QED  BY <1>1, <1>2 DEF FramesFit

LEMMA TwoMoreFit ==
  ASSUME NEW fs, NEW args, NEW n, FramesFit(fs, args, n), NEW f, FrameFits(f, args, n),
         NEW g, FrameFits(g, args, n)
  PROVE  FramesFit(fs \o <<f, g>>, args, n)
<1>1. fs \in Seq(Frames) /\ f \in Frames /\ g \in Frames  BY DEF FramesFit, FrameFits
<1>2. fs \o <<f, g>> = Append(Append(fs, f), g)  BY <1>1
<1>. QED  BY <1>2, OneMoreFits

LEMMA LongerDumpFits ==
  ASSUME NEW fs, NEW args, NEW n \in Nat, FramesFit(fs, args, n), NEW m \in Nat, n <= m
  PROVE  FramesFit(fs, args, m)
<1>1. \A f : FrameFits(f, args, n) => FrameFits(f, args, m)
  <2>. SUFFICES ASSUME NEW f, FrameFits(f, args, n) PROVE FrameFits(f, args, m)  OBVIOUS
  <2>1. f.at \in Nat  BY DEF FrameFits, Frames
  <2>2. CASE f.name = DumpFile  BY <2>1, <2>2 DEF FrameFits, LinesIn
  <2>3. CASE f.name # DumpFile  BY <2>1, <2>3 DEF FrameFits, LinesIn
  <2>. QED  BY <2>2, <2>3
<1>. QED  BY <1>1 DEF FramesFit

LEMMA DumpedOK ==
  ASSUME DatabaseOK
  PROVE  Dumped.lines \in Seq(Seq(Toks)) /\ Len(Dumped.lines) = Len(Order)
<1>1. Order \in Seq(DOMAIN Descriptor)  BY FilesAssumption
<1>. DEFINE line(k) == IF Order[k] \in DOMAIN database
                       THEN DumpLine(Order[k], Descriptor[Order[k]], database[Order[k]])
                       ELSE <<>>
<1>2. ASSUME NEW k \in 1 .. Len(Order) PROVE line(k) \in Seq(Toks)
  <2>1. CASE Order[k] \in DOMAIN database
    <3>1. /\ Order[k] \in STRING \X Int /\ WellRegistered(Descriptor[Order[k]])
          /\ ValueOK(Descriptor[Order[k]], database[Order[k]])
      BY <1>1, <2>1, FilesAssumption DEF DatabaseOK
    <3>. QED  BY <2>1, <3>1, DumpLineOK
  <2>2. CASE Order[k] \notin DOMAIN database  BY <2>2
  <2>. QED  BY <2>1, <2>2
<1>3. Dumped.lines = [k \in 1 .. Len(Order) |-> line(k)]  BY DEF Dumped
<1>. HIDE DEF line
<1>4. [k \in 1 .. Len(Order) |-> line(k)] \in [1 .. Len(Order) -> Seq(Toks)]  BY <1>2
<1>. QED  BY <1>1, <1>3, <1>4

-----------------------------------------------------------------------------
(***************************************************************************)
(* The steps of the options.                                               *)
(***************************************************************************)
LEMMA RefuseOK ==
  ASSUME OptionsOK, Refuse, argv' = argv
  PROVE  OptionsOK'
  BY DEF OptionsOK, DatabaseOK, DumpOK, Refuse, FramesFit

LEMMA FrameParts ==
  ASSUME NEW f \in Frames
  PROVE  /\ f.kind \in {"args", "file"} /\ f.toks \in Seq(Toks) /\ f.at \in Nat
         /\ f.depth \in Nat /\ f.dumps \in BOOLEAN /\ f.name \in Texts
         /\ f = [kind |-> f.kind, toks |-> f.toks, at |-> f.at, depth |-> f.depth,
                 dumps |-> f.dumps, name |-> f.name]
  BY DEF Frames

LEMMA SuchAFrame ==
  ASSUME NEW kind \in {"args", "file"}, NEW toks \in Seq(Toks), NEW x \in Nat,
         NEW depth \in Nat, NEW dumps \in BOOLEAN, NEW name \in Texts
  PROVE  [kind |-> kind, toks |-> toks, at |-> x, depth |-> depth,
          dumps |-> dumps, name |-> name] \in Frames
  BY DEF Frames

LEMMA FrameWith ==
  ASSUME NEW f \in Frames, NEW x \in Nat, NEW toks \in Seq(Toks), NEW dumps \in BOOLEAN
  PROVE  /\ [f EXCEPT !.at = x]
              = [kind |-> f.kind, toks |-> f.toks, at |-> x, depth |-> f.depth,
                 dumps |-> f.dumps, name |-> f.name]
         /\ [[f EXCEPT !.at = x] EXCEPT !.dumps = dumps]
              = [kind |-> f.kind, toks |-> f.toks, at |-> x, depth |-> f.depth,
                 dumps |-> dumps, name |-> f.name]
         /\ [f EXCEPT !.at = x, !.toks = toks]
              = [kind |-> f.kind, toks |-> toks, at |-> x, depth |-> f.depth,
                 dumps |-> f.dumps, name |-> f.name]
<1>1. PICK kind, ts, y, depth, d, name :
        f = [kind |-> kind, toks |-> ts, at |-> y, depth |-> depth, dumps |-> d, name |-> name]
  BY FrameParts
<1>2. [f EXCEPT !.at = x] = [kind |-> kind, toks |-> ts, at |-> x, depth |-> depth,
                             dumps |-> d, name |-> name]
  BY <1>1
<1>3. [[f EXCEPT !.at = x] EXCEPT !.dumps = dumps]
        = [kind |-> kind, toks |-> ts, at |-> x, depth |-> depth, dumps |-> dumps, name |-> name]
  <2>1. PICK h : h = [f EXCEPT !.at = x]  OBVIOUS
  <2>2. h = [kind |-> kind, toks |-> ts, at |-> x, depth |-> depth, dumps |-> d, name |-> name]
    BY <1>2, <2>1
  <2>3. [h EXCEPT !.dumps = dumps]
          = [kind |-> kind, toks |-> ts, at |-> x, depth |-> depth, dumps |-> dumps, name |-> name]
    BY <2>2
  <2>. QED  BY <2>1, <2>3
<1>4. [f EXCEPT !.at = x, !.toks = toks]
        = [kind |-> kind, toks |-> toks, at |-> x, depth |-> depth, dumps |-> d, name |-> name]
  <2>1. PICK h : h = [f EXCEPT !.at = x]  OBVIOUS
  <2>2. h = [kind |-> kind, toks |-> ts, at |-> x, depth |-> depth, dumps |-> d, name |-> name]
    BY <1>2, <2>1
  <2>3. [h EXCEPT !.toks = toks]
          = [kind |-> kind, toks |-> toks, at |-> x, depth |-> depth, dumps |-> d, name |-> name]
    BY <2>2
  <2>. QED  BY <2>1, <2>3, Zenon
<1>. QED  BY <1>1, <1>2, <1>3, <1>4

LEMMA TopIs ==
  ASSUME OptionsOK, frames # <<>>
  PROVE  /\ FrameFits(Top, argv, Len(dump.lines))
         /\ FramesFit(Popped, argv, Len(dump.lines))
         /\ Top.toks \in Seq(Toks) /\ Top.at \in Nat \ {0} /\ Top.depth \in Nat
         /\ Top \in Frames
         /\ \A by : Moved(by) = [Top EXCEPT !.at = Top.at + by]
<1>1. FramesFit(frames, argv, Len(dump.lines))  BY DEF OptionsOK
<1>2. FrameFits(Top, argv, Len(dump.lines)) /\ FramesFit(Popped, argv, Len(dump.lines))
  BY <1>1, OthersFit DEF Top, Popped
<1>3. Top \in Frames /\ Top.at > 0  BY <1>2 DEF FrameFits
<1>. QED  BY <1>2, <1>3 DEF Frames, Moved

(* A frame of arguments that moves on within its vector.                   *)
LEMMA MovedFits ==
  ASSUME OptionsOK, InArgs, NEW by \in Nat, Top.at + by <= Len(Top.toks) + 1
  PROVE  /\ FrameFits(Moved(by), argv, Len(dump.lines))
         /\ FrameFits([Moved(by) EXCEPT !.dumps = TRUE], argv, Len(dump.lines))
<1>1. /\ FrameFits(Top, argv, Len(dump.lines)) /\ Top \in Frames /\ Top.kind = "args"
      /\ Top.at \in Nat \ {0}
      /\ Moved(by) = [Top EXCEPT !.at = Top.at + by]
  BY TopIs DEF InArgs
<1>2. PICK x \in Nat : x = Top.at + by  BY <1>1
<1>3. ASSUME NEW d \in BOOLEAN, NEW g,
             g = [kind |-> Top.kind, toks |-> Top.toks, at |-> x, depth |-> Top.depth,
                  dumps |-> d, name |-> Top.name]
      PROVE  FrameFits(g, argv, Len(dump.lines))
  <2>1. g \in Frames  BY <1>1, <1>3, FrameParts, SuchAFrame
  <2>2. g.kind = "args" /\ g.toks = Top.toks /\ g.depth = Top.depth /\ g.at = x
    BY <1>1, <1>3
  <2>. QED  BY <1>1, <1>2, <2>1, <2>2 DEF FrameFits
<1>4. /\ Moved(by) = [kind |-> Top.kind, toks |-> Top.toks, at |-> x, depth |-> Top.depth,
                      dumps |-> Top.dumps, name |-> Top.name]
      /\ [Moved(by) EXCEPT !.dumps = TRUE]
           = [kind |-> Top.kind, toks |-> Top.toks, at |-> x, depth |-> Top.depth,
              dumps |-> TRUE, name |-> Top.name]
  <2>1. Moved(by) = [Top EXCEPT !.at = x]  BY <1>1, <1>2
  <2>2. Top.toks \in Seq(Toks) /\ TRUE \in BOOLEAN  BY <1>1, FrameParts
  <2>. QED  BY <1>1, <2>1, <2>2, FrameWith, ZenonT(60)
<1>5. Top.dumps \in BOOLEAN  BY <1>1, FrameParts
<1>. QED  BY <1>3, <1>4, <1>5

LEMMA ProcessOptionOK ==
  ASSUME OptionsOK, ProcessOption, argv' = argv
  PROVE  OptionsOK'
<1>. DEFINE name == NameOf(Current)
<1>1. CASE Refuse  BY <1>1, RefuseOK
<1>2. CASE ~Refuse
  <2>1. /\ name \in DOMAIN database
        /\ ~Fails(Descriptor[name], database[name], Top.toks, Top.at)
        /\ database' = [database EXCEPT
                          ![name] = Stored(Descriptor[name], database[name], Top.toks, Top.at)]
        /\ frames' = Append(Popped, Moved(1 + Taken(Descriptor[name], Top.toks, Top.at)))
        /\ UNCHANGED <<execIndex, dump>>
        /\ InArgs /\ Top.at <= Len(Top.toks) /\ frames # <<>>
    BY <1>2 DEF ProcessOption, AtToken, InArgs
  <2>. HIDE DEF name
  <2>2. Top.toks \in Seq(Toks) /\ Top.at \in 1 .. Len(Top.toks)
    BY <2>1, TopIs
  <2>3. /\ WellRegistered(Descriptor[name]) /\ ValueOK(Descriptor[name], database[name])
        /\ DOMAIN database \subseteq DOMAIN Descriptor
    BY <2>1, FilesAssumption DEF OptionsOK, DatabaseOK
  <2>4. ValueOK(Descriptor[name], Stored(Descriptor[name], database[name], Top.toks, Top.at))
    BY <2>1, <2>2, <2>3, StoredOK
  <2>5. DatabaseOK'  BY <2>1, <2>3, <2>4 DEF OptionsOK, DatabaseOK
  <2>6. PICK n : n = Taken(Descriptor[name], Top.toks, Top.at)  OBVIOUS
  <2>7. n \in Nat /\ Top.at + n <= Len(Top.toks)
    BY <2>2, <2>3, <2>6, TakenIs DEF WellRegistered
  <2>8. FrameFits(Moved(1 + n), argv, Len(dump.lines))
    <3>1. 1 + n \in Nat /\ Top.at + (1 + n) <= Len(Top.toks) + 1  BY <2>2, <2>7
    <3>. QED  BY <2>1, <3>1, MovedFits
  <2>9. FramesFit(frames', argv, Len(dump.lines))
    BY <2>1, <2>6, <2>8, TopIs, OneMoreFits
  <2>. QED  BY <2>1, <2>5, <2>9 DEF OptionsOK, DumpOK
<1>. QED  BY <1>1, <1>2

LEMMA OpenConfigOK ==
  ASSUME OptionsOK, OpenConfig, argv' = argv
  PROVE  OptionsOK'
<1>1. CASE Refuse  BY <1>1, RefuseOK
<1>2. CASE ~Refuse
  <2>. DEFINE name == Top.toks[Top.at + 1].text
  <2>1. /\ InArgs /\ frames # <<>> /\ Top.at < Len(Top.toks) /\ name \in FileNames
        /\ frames' = Popped \o <<Moved(2), FileFrame(name, Top.depth)>>
        /\ UNCHANGED <<database, execIndex, dump>>
    BY <1>2 DEF OpenConfig, AtOption, AtToken, InArgs, NextIsName
  <2>2. /\ Top.toks \in Seq(Toks) /\ Top.at \in Nat \ {0} /\ Top.depth \in Nat
        /\ FramesFit(Popped, argv, Len(dump.lines))
    BY <2>1, TopIs
  <2>3. Top.toks[Top.at + 1] \in Toks  BY <2>1, <2>2
  <2>4. name \in Texts /\ name \in DOMAIN Files \cup {DumpFile}
    BY <2>1, <2>3 DEF Toks, FileNames
  <2>. HIDE DEF name
  <2>5. FileFrame(name, Top.depth) \in Frames
    <3>1. FileFrame(name, Top.depth) = [kind |-> "file", toks |-> <<>>, at |-> 1,
                                        depth |-> Top.depth, dumps |-> FALSE, name |-> name]
      BY DEF FileFrame
    <3>2. << >> \in Seq(Toks) /\ 1 \in Nat /\ FALSE \in BOOLEAN /\ "file" \in {"args", "file"}
      OBVIOUS
    <3>3. Top.depth \in Nat /\ name \in Texts  BY <2>2, <2>4
    <3>. QED  BY <3>1, <3>2, <3>3, SuchAFrame, ZenonT(60)
  <2>6. LinesIn(name, Len(dump.lines)) \in Nat
    <3>1. DumpOK  BY DEF OptionsOK
    <3>2. LinesOf(name) \in Seq(Seq(Toks)) /\ Len(LinesOf(name)) = LinesIn(name, Len(dump.lines))
      BY <2>4, <3>1, LinesAre
    <3>. QED  BY <3>2
  <2>7. FrameFits(FileFrame(name, Top.depth), argv, Len(dump.lines))
    BY <2>4, <2>5, <2>6 DEF FrameFits, FileFrame
  <2>8. FrameFits(Moved(2), argv, Len(dump.lines))
    <3>1. 2 \in Nat /\ Top.at + 2 <= Len(Top.toks) + 1  BY <2>1, <2>2
    <3>. QED  BY <2>1, <3>1, MovedFits
  <2>9. FramesFit(frames', argv, Len(dump.lines))
    BY <2>1, <2>2, <2>7, <2>8, TwoMoreFit
  <2>. QED  BY <2>1, <2>9 DEF OptionsOK, DumpOK, DatabaseOK
<1>. QED  BY <1>1, <1>2

LEMMA NoteDumpOK ==
  ASSUME OptionsOK, NoteDump, argv' = argv
  PROVE  OptionsOK'
<1>1. CASE Refuse  BY <1>1, RefuseOK
<1>2. CASE ~Refuse
  <2>1. /\ InArgs /\ frames # <<>> /\ Top.at < Len(Top.toks)
        /\ frames' = Append(Popped, [Moved(2) EXCEPT !.dumps = TRUE])
        /\ UNCHANGED <<database, execIndex, dump>>
    BY <1>2 DEF NoteDump, AtOption, AtToken, InArgs, NextIsName
  <2>2. /\ Top.toks \in Seq(Toks) /\ Top.at \in Nat \ {0}
        /\ FramesFit(Popped, argv, Len(dump.lines))
    BY <2>1, TopIs
  <2>3. FrameFits([Moved(2) EXCEPT !.dumps = TRUE], argv, Len(dump.lines))
    BY <2>1, <2>2, MovedFits
  <2>4. FramesFit(frames', argv, Len(dump.lines))
    BY <2>1, <2>2, <2>3, OneMoreFits
  <2>. QED  BY <2>1, <2>4 DEF OptionsOK, DumpOK, DatabaseOK
<1>. QED  BY <1>1, <1>2

LEMMA LeaveOK ==
  ASSUME OptionsOK, InArgs, Leave, UNCHANGED <<argv, database>>,
         execIndex' \in 0 .. Len(argv)
  PROVE  OptionsOK'
<1>1. FramesFit(Popped, argv, Len(dump.lines))  BY TopIs DEF InArgs
<1>2. frames' = Popped /\ dump' \in {Dumped, dump}  BY DEF Leave
<1>3. Dumped.lines \in Seq(Seq(Toks)) /\ Len(Dumped.lines) = Len(Order)
  BY DumpedOK DEF OptionsOK
<1>4. /\ dump.lines \in Seq(Seq(Toks)) /\ Len(dump.lines) \in Nat
      /\ Len(dump.lines) \in {0, Len(Order)}
  BY DEF OptionsOK, DumpOK
<1>5. Len(Order) \in Nat  BY FilesAssumption
<1>6. DumpOK' /\ Len(dump.lines) <= Len(dump'.lines) /\ Len(dump'.lines) \in Nat
  BY <1>2, <1>3, <1>4, <1>5 DEF DumpOK
<1>7. FramesFit(frames', argv, Len(dump'.lines))  BY <1>1, <1>2, <1>4, <1>6, LongerDumpFits
<1>. QED  BY <1>6, <1>7 DEF OptionsOK, DatabaseOK

LEMMA OrphanOK ==
  ASSUME OptionsOK, Orphan, argv' = argv
  PROVE  OptionsOK'
<1>1. CASE Refuse  BY <1>1, RefuseOK
<1>2. CASE ~Refuse
  <2>1. /\ InArgs /\ frames # <<>> /\ Top.at <= Len(Top.toks) /\ ~(Top.depth > 0)
        /\ execIndex' = Top.at /\ Leave /\ UNCHANGED database /\ Top.kind = "args"
    BY <1>2 DEF Orphan, AtToken, InArgs
  <2>2. Top.at \in Nat \ {0} /\ Top.depth \in Nat /\ FrameFits(Top, argv, Len(dump.lines))
    BY <2>1, TopIs
  <2>3. Top.toks = argv  BY <2>1, <2>2 DEF FrameFits
  <2>4. execIndex' \in 0 .. Len(argv)  BY <2>1, <2>2, <2>3 DEF OptionsOK
  <2>. QED  BY <2>1, <2>4, LeaveOK
<1>. QED  BY <1>1, <1>2

LEMMA EndOfArgsOK ==
  ASSUME OptionsOK, EndOfArgs, argv' = argv
  PROVE  OptionsOK'
<1>1. InArgs /\ Leave /\ UNCHANGED <<database, execIndex>>  BY DEF EndOfArgs
<1>2. execIndex' \in 0 .. Len(argv)  BY <1>1 DEF OptionsOK
<1>. QED  BY <1>1, <1>2, LeaveOK

LEMMA ReadLineOK ==
  ASSUME OptionsOK, ReadLine, argv' = argv
  PROVE  OptionsOK'
<1>. DEFINE line == LinesOf(Top.name)[Top.at]
            read == LineRead(Top, line)
<1>1. /\ frames # <<>> /\ Top.kind = "file" /\ Top.at <= Len(LinesOf(Top.name))
      /\ frames' = IF read.toks = <<>> THEN Append(Popped, read)
                   ELSE Popped \o <<read, ArgsFrame(read.toks, Top.depth + 1)>>
      /\ UNCHANGED <<phase, database, execIndex, dump>>
  BY DEF ReadLine, InFile
<1>2. /\ Top.toks \in Seq(Toks) /\ Top.at \in Nat \ {0} /\ Top.depth \in Nat /\ Top \in Frames
      /\ FramesFit(Popped, argv, Len(dump.lines)) /\ FrameFits(Top, argv, Len(dump.lines))
  BY <1>1, TopIs
<1>3. Top.name \in DOMAIN Files \cup {DumpFile}  BY <1>1, <1>2 DEF FrameFits
<1>4. DumpOK  BY DEF OptionsOK
<1>5. /\ LinesOf(Top.name) \in Seq(Seq(Toks))
      /\ Len(LinesOf(Top.name)) = LinesIn(Top.name, Len(dump.lines))
  BY <1>3, <1>4, LinesAre
<1>6. line \in Seq(Toks)  BY <1>1, <1>2, <1>5
<1>. HIDE DEF line
<1>7. Top.toks \o line \in Seq(Toks)  BY <1>2, <1>6
<1>8. read = [Top EXCEPT !.at = Top.at + 1, !.toks = Top.toks \o line]  BY DEF LineRead
<1>9. /\ read \in Frames /\ read.kind = "file" /\ read.at = Top.at + 1 /\ read.name = Top.name
      /\ read.toks = Top.toks \o line
  <2>1. Top.at + 1 \in Nat  BY <1>2
  <2>2. PICK ts \in Seq(Toks) : ts = Top.toks \o line  BY <1>7
  <2>3. read = [kind |-> Top.kind, toks |-> ts, at |-> Top.at + 1, depth |-> Top.depth,
                dumps |-> Top.dumps, name |-> Top.name]
    BY <1>2, <1>8, <2>1, <2>2, FrameWith
  <2>4. read \in Frames  BY <1>2, <2>1, <2>3, FrameParts, SuchAFrame
  <2>. QED  BY <1>1, <2>2, <2>3, <2>4
<1>. HIDE DEF read
<1>10. FrameFits(read, argv, Len(dump.lines))
  BY <1>1, <1>2, <1>3, <1>5, <1>9, SMTT(30) DEF FrameFits
<1>11. PICK g : g = ArgsFrame(read.toks, Top.depth + 1)  OBVIOUS
<1>12. g \in Frames /\ g.kind = "args" /\ g.at = 1 /\ g.depth = Top.depth + 1 /\ g.toks = read.toks
  <2>1. Top.depth + 1 \in Nat /\ "" \in Texts /\ read.toks \in Seq(Toks)
    BY <1>2, <1>7, <1>9 DEF Texts
  <2>2. g = [kind |-> "args", toks |-> read.toks, at |-> 1, depth |-> Top.depth + 1,
             dumps |-> FALSE, name |-> ""]
    BY <1>11 DEF ArgsFrame
  <2>. QED  BY <2>1, <2>2, SuchAFrame
<1>13. FrameFits(g, argv, Len(dump.lines))
  BY <1>2, <1>7, <1>9, <1>12 DEF FrameFits
<1>14. FramesFit(frames', argv, Len(dump.lines))
  BY <1>1, <1>2, <1>10, <1>11, <1>13, OneMoreFits, TwoMoreFit
<1>. QED  BY <1>1, <1>14 DEF OptionsOK, DumpOK, DatabaseOK

LEMMA CloseFileOK ==
  ASSUME OptionsOK, CloseFile, argv' = argv
  PROVE  OptionsOK'
<1>1. frames # <<>> /\ frames' = Popped /\ UNCHANGED <<database, execIndex, dump>>
  BY DEF CloseFile, InFile
<1>2. FramesFit(frames', argv, Len(dump.lines))  BY <1>1, TopIs
<1>. QED  BY <1>1, <1>2 DEF OptionsOK, DumpOK, DatabaseOK

(* A step of the options leaves them as they must be.                      *)
LEMMA ProcessOptionsOK ==
  ASSUME OptionsOK, ProcessOptions, argv' = argv
  PROVE  OptionsOK' /\ phase' \in {"options", "parsed", "refused"}
<1>1. OptionsOK'
  BY ProcessOptionOK, OpenConfigOK, NoteDumpOK, OrphanOK, EndOfArgsOK, ReadLineOK, CloseFileOK
  DEF ProcessOptions
<1>2. phase' \in {"options", "parsed", "refused"}
  BY DEF ProcessOptions, ProcessOption, OpenConfig, NoteDump, Orphan, EndOfArgs, ReadLine,
     CloseFile, AtToken, AtOption, InArgs, InFile, Refuse, Leave
<1>. QED  BY <1>1, <1>2

-----------------------------------------------------------------------------
(***************************************************************************)
(* Programs that go to the cores in turn.                                  *)
(***************************************************************************)
LEMMA Division ==
  ASSUME NEW x \in Nat, NEW s \in Nat \ {0}
  PROVE  \E q \in Int, r \in 0 .. s - 1 : r = x % s /\ x = q * s + r
<1>1. x \div s \in Int /\ x % s \in 0 .. s - 1  OBVIOUS
<1>2. x = (x \div s) * s + (x % s)  BY Z3
<1>. QED  BY <1>1, <1>2

LEMMA SmallMultiple ==
  ASSUME NEW s \in Nat \ {0}, NEW d \in Int, d * s < s, -s < d * s
  PROVE  d = 0
  OBVIOUS

LEMMA Multiples ==
  ASSUME NEW s \in Nat \ {0}, NEW k \in Nat, NEW l \in Nat
  PROVE  /\ k * s \in Nat
         /\ k <= l => k * s <= l * s
         /\ k * s = l * s => k = l
         /\ k > 0 => k * s > 0
<1>1. k * s \in Nat  OBVIOUS
<1>2. k <= l => k * s <= l * s  OBVIOUS
<1>3. k > 0 => k * s > 0  OBVIOUS
<1>4. k * s = l * s => k = l
  <2>. SUFFICES ASSUME k * s = l * s PROVE k = l  OBVIOUS
  <2>1. (k - l) * s = k * s - l * s  OBVIOUS
  <2>2. (k - l) * s = 0  BY <2>1
  <2>. QED  BY <2>2, SmallMultiple
<1>. QED  BY <1>1, <1>2, <1>3, <1>4

LEMMA SameRemainder ==
  ASSUME NEW s \in Nat \ {0}, NEW k \in Nat, NEW x \in Nat,
         NEW m \in 0 .. x, m = k * s
  PROVE  (x - m) % s = x % s
<1>1. PICK y \in Nat : y = x - m  OBVIOUS
<1>2. PICK a \in Int, p \in 0 .. s - 1 : p = x % s /\ x = a * s + p  BY Division
<1>3. PICK b \in Int, q \in 0 .. s - 1 : q = y % s /\ y = b * s + q  BY <1>1, Division
<1>4. (a - b - k) * s = q - p
  <2>1. (a - b - k) * s = a * s - b * s - k * s  OBVIOUS
  <2>2. a * s \in Int /\ b * s \in Int /\ k * s \in Int  OBVIOUS
  <2>. QED  BY <1>1, <1>2, <1>3, <2>1, <2>2
<1>5. PICK d \in Int : d = a - b - k  OBVIOUS
<1>6. d * s < s /\ -s < d * s  BY <1>4, <1>5
<1>7. d = 0  BY <1>6, SmallMultiple
<1>8. d * s = 0  BY <1>7
<1>9. q = p  BY <1>4, <1>5, <1>8
<1>. QED  BY <1>1, <1>2, <1>3, <1>9

(* Of n that went to s places in turn, less than l are at the next place   *)
(* only if there are less than s * l.                                      *)
LEMMA InTurn ==
  ASSUME NEW s \in Nat \ {0}, NEW l \in Nat, NEW n \in Nat,
         Cardinality({i \in 1 .. n : (i - 1) % s = n % s}) < l
  PROVE  n < s * l
<1>. DEFINE S == {i \in 1 .. n : (i - 1) % s = n % s}
<1>. SUFFICES ASSUME n >= l * s PROVE FALSE  OBVIOUS
<1>1. IsFiniteSet(S) /\ Cardinality(S) \in Nat
  <2>1. IsFiniteSet(1 .. n)  BY FS_Interval
  <2>. QED  BY <2>1, FS_Subset, FS_CardinalityType
<1>2. ASSUME NEW k \in 1 .. l
      PROVE  n + 1 - k * s \in S
  <2>1. PICK m \in Nat : m = k * s  BY Multiples
  <2>2. m <= n /\ m > 0  BY <2>1, Multiples
  <2>3. (n - m) % s = n % s
    <3>1. m \in 0 .. n /\ k \in Nat  BY <2>2
    <3>. QED  BY <2>1, <3>1, SameRemainder
  <2>4. n + 1 - m \in 1 .. n /\ (n + 1 - m) - 1 = n - m  BY <2>2
  <2>. QED  BY <2>1, <2>3, <2>4
<1>. DEFINE f == [k \in 1 .. l |-> n + 1 - k * s]
<1>3. f \in Injection(1 .. l, S)
  <2>1. f \in [1 .. l -> S]  BY <1>2
  <2>2. ASSUME NEW j \in 1 .. l, NEW k \in 1 .. l, f[j] = f[k]
        PROVE  j = k
    <3>1. j * s \in Nat /\ k * s \in Nat  BY Multiples
    <3>2. j * s = k * s  BY <2>2, <3>1
    <3>. QED  BY <3>2, Multiples
  <2>. HIDE DEF f
  <2>. QED  BY <2>1, <2>2 DEF Injection, IsInjective
<1>4. Cardinality(1 .. l) <= Cardinality(S)
  <2>. HIDE DEF f, S
  <2>. QED  BY <1>1, <1>3, FS_Injection
<1>5. Cardinality(1 .. l) = l  BY FS_Interval
<1>. QED  BY <1>1, <1>4, <1>5

-----------------------------------------------------------------------------
(***************************************************************************)
(* The numbers that decide how much is run.                                *)
(***************************************************************************)
LEMMA RunOptionIs ==
  ASSUME NEW t \in {"-fastfwd", "-num_cores", "-max_contexts_per_core"}
  PROVE  /\ WellRegistered(DescriptorOf(Global(t)))
         /\ DescriptorOf(Global(t)).class # "string" /\ DescriptorOf(Global(t)).nvars = 1
<1>1. Global(t)[1] = t /\ t \in DOMAIN RunOptions  BY DEF Global, RunOptions
<1>2. DescriptorOf(Global(t)) = RunOptions[t]  BY <1>1 DEF DescriptorOf
<1>3. \/ \E n \in Int : RunOptions[t] = RegLongLong(n)
      \/ \E n \in Int : RunOptions[t] = RegUint(n)
      \/ \E n \in Int : RunOptions[t] = RegInt(n)
  BY SMT DEF RunOptions
<1>4. PICK class \in {"int", "uint"}, n \in Int :
        RunOptions[t] = Registered(class, 1, FALSE, FALSE, TRUE, <<n>>)
  <2>1. \A n : /\ RegLongLong(n) = Registered("int", 1, FALSE, FALSE, TRUE, <<n>>)
              /\ RegInt(n) = Registered("int", 1, FALSE, FALSE, TRUE, <<n>>)
              /\ RegUint(n) = Registered("uint", 1, FALSE, FALSE, TRUE, <<n>>)
    BY DEF RegLongLong, RegUint, RegInt
  <2>. QED  BY <1>3, <2>1
<1>5. <<n>> \in Seq(Int) /\ Len(<<n>>) = 1  OBVIOUS
<1>. QED  BY <1>2, <1>4, <1>5 DEF Registered, WellRegistered

LEMMA RunOptionIsNumber ==
  ASSUME DatabaseOK, NEW t \in {"-fastfwd", "-num_cores", "-max_contexts_per_core"}
  PROVE  Value(Global(t)) \in Int
<1>1. PICK d : d = DescriptorOf(Global(t))  OBVIOUS
<1>2. WellRegistered(d) /\ d.class # "string" /\ d.nvars = 1  BY <1>1, RunOptionIs
<1>3. ValueOK(d, Values(Global(t)))
  <2>1. CASE Global(t) \in DOMAIN database
    <3>1. Descriptor[Global(t)] = d  BY <1>1, <2>1, OptionAssumption DEF DatabaseOK
    <3>. QED  BY <2>1, <3>1 DEF DatabaseOK, Values
  <2>2. CASE Global(t) \notin DOMAIN database
    BY <1>1, <1>2, <2>2, DefaultOK DEF Values
  <2>. QED  BY <2>1, <2>2
<1>. QED  BY <1>2, <1>3 DEF ValueOK, Element, Value

LEMMA AcceptedNumbers ==
  ASSUME DatabaseOK, planned \in Nat, Accepted(scanned, planned)
  PROVE  /\ scanned \in Nat \ {0} /\ ContextLimit(planned) \in Nat \ {0} /\ Fastfwd \in Nat
         /\ \A i \in 0 .. scanned - 1 : CachesOK(scanned, i)
<1>1. /\ Value(Global("-fastfwd")) \in Int /\ Value(Global("-num_cores")) \in Int
      /\ Value(Global("-max_contexts_per_core")) \in Int
  BY RunOptionIsNumber
<1>2. GlobalsOK(scanned, planned) /\ \A i \in 0 .. scanned - 1 : CachesOK(scanned, i)
  BY DEF Accepted
<1>3. scanned \in Nat \ {0}  BY <1>1, <1>2 DEF GlobalsOK, NumCores
<1>4. ContextLimit(planned) \in Nat \ {0}  BY <1>1, <1>2 DEF GlobalsOK, ContextLimit
<1>5. Fastfwd \in Nat  BY <1>1, <1>2 DEF GlobalsOK, Fastfwd
<1>. QED  BY <1>2, <1>3, <1>4, <1>5

LEMMA SameWiring ==
  ASSUME database' = database
  PROVE  /\ Fastfwd' = Fastfwd /\ Uniform' = Uniform
         /\ \A w, core : Reaches(w, core)' <=> Reaches(w, core)
         /\ UNCHANGED wiring => CachesMade' = CachesMade
<1>1. Fastfwd' = Fastfwd /\ Uniform' = Uniform  BY DEF Uniform, Fastfwd, Value, Values
<1>2. CacheDl3' = CacheDl3 /\ CacheIl3' = CacheIl3
  BY DEF CacheDl3, CacheIl3, Text, Value, Values
<1>3. \A w, c : NextLevel(w, c)' = NextLevel(w, c)  BY <1>2 DEF NextLevel
<1>4. \A w, c : MissPath(w, c)' = MissPath(w, c)  BY <1>3 DEF MissPath
<1>5. \A w : Cached(w)' = Cached(w)  BY <1>2 DEF Cached
<1>6. \A w, core : Reaches(w, core)' <=> Reaches(w, core)
  BY <1>3, <1>4, <1>5 DEF Reaches
<1>7. UNCHANGED wiring => CachesMade' = CachesMade  BY <1>2 DEF CachesMade
<1>. QED  BY <1>1, <1>6, <1>7

(* What holds of the caches that a core gets holds of the core after it.   *)
LEMMA CoreReachesThen ==
  ASSUME NEW core, NEW w, w = wiring'[core], Reaches(w, core)'
  PROVE  Reaches(wiring[core], core)'
<1>1. \A c : NextLevel(wiring[core], c)' = NextLevel(w, c)'  BY DEF NextLevel
<1>2. \A c : MissPath(wiring[core], c)' = MissPath(w, c)'  BY <1>1 DEF MissPath
<1>3. Cached(wiring[core])' = Cached(w)'  BY DEF Cached
<1>. QED  BY <1>1, <1>2, <1>3 DEF Reaches

LEMMA AllReachThen ==
  ASSUME database' = database, Fastfwd \in Nat,
         \A core \in DOMAIN wiring' : core \in Nat /\ Reaches(wiring'[core], core)
  PROVE  WiringInv'
<1>1. Fastfwd' = Fastfwd /\ \A w, core : Reaches(w, core)' <=> Reaches(w, core)
  BY SameWiring
<1>2. ASSUME NEW core \in DOMAIN wiring'
      PROVE  core \in Nat /\ Reaches(wiring[core], core)'
  <2>1. PICK w : w = wiring'[core]  OBVIOUS
  <2>2. Reaches(w, core)  BY <2>1
  <2>3. Reaches(w, core)'  BY <1>1, <2>2
  <2>. QED  BY <2>1, <2>3, CoreReachesThen
<1>. QED  BY <1>1, <1>2 DEF WiringInv

-----------------------------------------------------------------------------
(***************************************************************************)
(* What an instruction that is skipped makes of a context.                 *)
(***************************************************************************)
Contexts == [left : Int, alive : BOOLEAN, enters : BOOLEAN, waitsFor : Nat, check : Int,
             sleep : Int, slept : BOOLEAN, parent : Nat]

LEMMA LessIs ==
  ASSUME NEW n \in Int
  PROVE  Less(n) \in Int /\ (n >= 1 => Less(n) = n - 1)
  BY DEF Less

(* Two contexts that differ at most in what they wait for.                 *)
Alike(c, x) ==
  /\ x \in Contexts
  /\ x.left = c.left /\ x.alive = c.alive /\ x.sleep = c.sleep /\ x.slept = c.slept
  /\ x.parent = c.parent

LEMMA OtherwiseAlike ==
  ASSUME NEW c \in Contexts
  PROVE  /\ Alike(c, [c EXCEPT !.enters = FALSE])
         /\ \A n \in Nat : Alike(c, [c EXCEPT !.waitsFor = n])
         /\ \A n \in Int : Alike(c, [c EXCEPT !.check = n])
<1>1. Alike(c, [c EXCEPT !.enters = FALSE])  BY DEF Alike, Contexts
<1>2. ASSUME NEW n \in Nat PROVE Alike(c, [c EXCEPT !.waitsFor = n])  BY DEF Alike, Contexts
<1>3. ASSUME NEW n \in Int PROVE Alike(c, [c EXCEPT !.check = n])  BY DEF Alike, Contexts
<1>. QED  BY <1>1, <1>2, <1>3

LEMMA SettledIs ==
  ASSUME NEW c \in Contexts
  PROVE  Alike(c, Settled(c))
<1>1. PICK h : h = [c EXCEPT !.enters = FALSE]  OBVIOUS
<1>2. PICK i : i = [h EXCEPT !.waitsFor = 0]  OBVIOUS
<1>3. Settled(c) = [i EXCEPT !.check = 0]  BY <1>1, <1>2, Zenon DEF Settled
<1>4. Alike(c, h)  BY <1>1, OtherwiseAlike
<1>5. Alike(h, i)  BY <1>2, <1>4, OtherwiseAlike, ZenonT(60) DEF Alike
<1>6. Alike(i, Settled(c))
  <2>1. i \in Contexts /\ 0 \in Int  BY <1>5 DEF Alike
  <2>2. Alike(i, [i EXCEPT !.check = 0])  BY <2>1, OtherwiseAlike
  <2>. QED  BY <1>3, <2>2
<1>. QED  BY <1>4, <1>5, <1>6 DEF Alike

LEMMA CountDownIs ==
  ASSUME NEW c \in Contexts
  PROVE  /\ CountDown(c) \in Contexts
         /\ CountDown(c).left = Less(c.left) /\ CountDown(c).alive = c.alive
         /\ CountDown(c).sleep = c.sleep /\ CountDown(c).slept = c.slept
         /\ CountDown(c).parent = c.parent
<1>1. c.left \in Int  BY DEF Contexts
<1>2. Less(c.left) \in Int  BY <1>1, LessIs
<1>. QED  BY <1>2 DEF CountDown, Contexts

(* What a visit makes of a context: it has one instruction less to skip, or *)
(* it has been asleep.                                                     *)
Proceeds(c, x) ==
  /\ x \in Contexts /\ x.parent = c.parent
  /\ c.slept => x.slept
  /\ x.sleep > 0 => x.slept
  /\ x.left = Less(c.left) \/ x.slept

LEMMA ExecutedIs ==
  ASSUME NEW c \in Contexts, c.sleep = 0
  PROVE  /\ Proceeds(c, Executed(c)) /\ Executed(c).alive = c.alive
         /\ Executed(c).sleep = 0
<1>. PICK h : h = Settled(c)  OBVIOUS
<1>1. Alike(c, h)  BY SettledIs
<1>2. Executed(c) = CountDown(h)  BY DEF Executed
<1>3. h \in Contexts  BY <1>1 DEF Alike
<1>. QED  BY <1>1, <1>2, <1>3, CountDownIs DEF Alike, Proceeds

LEMMA WaitingIs ==
  ASSUME NEW c \in Contexts, c.sleep = 0, NEW n \in Nat
  PROVE  /\ Proceeds(c, [Executed(c) EXCEPT !.waitsFor = n])
         /\ [Executed(c) EXCEPT !.waitsFor = n].alive = c.alive
<1>. PICK h : h = Executed(c)  OBVIOUS
<1>1. Proceeds(c, h) /\ h.alive = c.alive /\ h \in Contexts  BY ExecutedIs DEF Proceeds
<1>2. Alike(h, [h EXCEPT !.waitsFor = n])  BY <1>1, OtherwiseAlike
<1>. QED  BY <1>1, <1>2 DEF Alike, Proceeds

LEMMA SelectingIs ==
  ASSUME NEW c \in Contexts, c.sleep = 0
  PROVE  /\ Proceeds(c, [Executed(c) EXCEPT !.check = SelectTime])
         /\ [Executed(c) EXCEPT !.check = SelectTime].alive = c.alive
<1>. PICK h : h = Executed(c)  OBVIOUS
<1>1. Proceeds(c, h) /\ h.alive = c.alive /\ h \in Contexts  BY ExecutedIs DEF Proceeds
<1>2. SelectTime \in Int  BY FastForwardAssumption
<1>3. Alike(h, [h EXCEPT !.check = SelectTime])  BY <1>1, <1>2, OtherwiseAlike
<1>. QED  BY <1>1, <1>3 DEF Alike, Proceeds

LEMMA SleepingIs ==
  ASSUME NEW c \in Contexts, c.sleep = 0
  PROVE  /\ Proceeds(c, [Executed(c) EXCEPT !.sleep = SleepTime, !.slept = TRUE])
         /\ [Executed(c) EXCEPT !.sleep = SleepTime, !.slept = TRUE].alive = c.alive
<1>. PICK h : h = Executed(c)  OBVIOUS
<1>1. Proceeds(c, h) /\ h.alive = c.alive /\ h \in Contexts  BY ExecutedIs DEF Proceeds
<1>2. SleepTime \in Int  BY FastForwardAssumption
<1>3. PICK i : i = [h EXCEPT !.sleep = SleepTime]  OBVIOUS
<1>4. i \in Contexts /\ i.alive = h.alive /\ i.parent = h.parent
  BY <1>1, <1>2, <1>3 DEF Contexts
<1>5. PICK x : x = [i EXCEPT !.slept = TRUE]  OBVIOUS
<1>6. x \in Contexts /\ x.alive = h.alive /\ x.parent = h.parent /\ x.slept
  BY <1>4, <1>5 DEF Contexts
<1>7. x = [h EXCEPT !.sleep = SleepTime, !.slept = TRUE]  BY <1>3, <1>5, Zenon
<1>. QED  BY <1>1, <1>6, <1>7 DEF Proceeds

LEMMA ExitingIs ==
  ASSUME NEW c \in Contexts, c.sleep = 0
  PROVE  /\ Proceeds(c, [Executed(c) EXCEPT !.alive = FALSE])
         /\ [Executed(c) EXCEPT !.alive = FALSE].alive = FALSE
<1>. PICK h : h = Executed(c)  OBVIOUS
<1>1. Proceeds(c, h) /\ h \in Contexts  BY ExecutedIs DEF Proceeds
<1>2. PICK x : x = [h EXCEPT !.alive = FALSE]  OBVIOUS
<1>3. /\ x \in Contexts /\ ~x.alive /\ x.parent = h.parent /\ x.left = h.left
      /\ x.sleep = h.sleep /\ x.slept = h.slept
  BY <1>1, <1>2 DEF Contexts
<1>. QED  BY <1>1, <1>2, <1>3 DEF Proceeds

LEMMA RestIs ==
  ASSUME NEW c \in Contexts, c.sleep > 0, c.slept
  PROVE  Proceeds(c, Rest(c)) /\ Rest(c).alive = c.alive
<1>. PICK h : h = Settled(c)  OBVIOUS
<1>1. Alike(c, h) /\ h \in Contexts  BY SettledIs DEF Alike
<1>2. h.sleep - 1 \in Int  BY <1>1 DEF Contexts
<1>3. PICK x : x = [h EXCEPT !.sleep = h.sleep - 1]  OBVIOUS
<1>4. x \in Contexts /\ x.alive = h.alive /\ x.parent = h.parent /\ x.slept = h.slept
  BY <1>1, <1>2, <1>3 DEF Contexts
<1>5. Rest(c) = x  BY <1>3 DEF Rest
<1>. QED  BY <1>1, <1>4, <1>5 DEF Alike, Proceeds

LEMMA PendingIs ==
  ASSUME NEW c \in Contexts, c.sleep > 0 => c.slept
  PROVE  Proceeds(c, Pending(c)) /\ Pending(c).alive = c.alive
<1>. PICK n : n = IF StillWaits(c) THEN c.check ELSE c.check - 1  OBVIOUS
<1>1. n \in Int  BY DEF Contexts
<1>2. PICK h : h = [c EXCEPT !.enters = FALSE]  OBVIOUS
<1>3. Alike(c, h) /\ h.check = c.check  BY <1>2, OtherwiseAlike DEF Contexts
<1>4. PICK i : i = [h EXCEPT !.check = n]  OBVIOUS
<1>5. Alike(h, i)  BY <1>1, <1>3, <1>4, OtherwiseAlike DEF Alike
<1>6. i = [c EXCEPT !.enters = FALSE, !.check = IF StillWaits(c) THEN @ ELSE @ - 1]
  BY <1>2, <1>3, <1>4, Zenon
<1>7. Pending(c) = CountDown(i)  BY <1>6 DEF Pending
<1>8. i \in Contexts  BY <1>5 DEF Alike
<1>. QED  BY <1>3, <1>5, <1>7, <1>8, CountDownIs DEF Alike, Proceeds

(* A child of context p.                                                   *)
LEMMA ChildIs ==
  ASSUME NEW p \in Nat, contexts[p] \in Contexts, contexts[p].sleep = 0, contexts[p].alive
  PROVE  /\ Child(p) \in Contexts /\ Child(p).parent = p /\ Child(p).sleep = 0
         /\ Child(p).alive
<1>. PICK h : h = Settled(contexts[p])  OBVIOUS
<1>1. Alike(contexts[p], h) /\ h \in Contexts  BY SettledIs DEF Alike
<1>2. PICK i : i = [h EXCEPT !.parent = p]  OBVIOUS
<1>3. i \in Contexts /\ i.alive = h.alive /\ i.parent = p /\ i.sleep = h.sleep
  BY <1>1, <1>2 DEF Contexts
<1>4. PICK x : x = [i EXCEPT !.slept = FALSE]  OBVIOUS
<1>5. x \in Contexts /\ x.alive = i.alive /\ x.parent = p /\ x.sleep = i.sleep
  BY <1>3, <1>4 DEF Contexts
<1>6. Child(p) = x  BY <1>2, <1>4, Zenon DEF Child
<1>. QED  BY <1>1, <1>3, <1>5, <1>6 DEF Alike

-----------------------------------------------------------------------------
(***************************************************************************)
(* The list of contexts that still have instructions to skip.              *)
(***************************************************************************)
ContextsOK ==
  /\ contexts \in Seq(Contexts)
  /\ \A i \in DOMAIN contexts :
        /\ contexts[i].parent = 0 <=> i <= planned
        /\ contexts[i].sleep > 0 => contexts[i].slept

Ascends(list) == \A j, k \in DOMAIN list : j < k => list[j] < list[k]
ListOK ==
  /\ known \in 0 .. Len(contexts) /\ left \in Seq(1 .. known) /\ at \in 0 .. Len(left)
  /\ Ascends(left)

(* The programs that were loaded and are still in the list have the same   *)
(* number of instructions left, but for the one of this round; the others  *)
(* are done.                                                               *)
Listed == {left[k] : k \in DOMAIN left}
Had(k) == contexts[left[k]].left + (IF k < at THEN 1 ELSE 0)
CountsOK ==
  /\ \A i \in DOMAIN contexts : i <= planned =>
        /\ contexts[i].left >= 0
        /\ i \notin Listed => contexts[i].left = 0 \/ ~contexts[i].alive
  /\ \A j, k \in DOMAIN left : left[j] <= planned /\ left[k] <= planned => Had(j) = Had(k)
  /\ \A k \in DOMAIN left : left[k] <= planned /\ at # 0 /\ k >= at => contexts[left[k]].left >= 1
NeverSlept == \A i \in DOMAIN contexts : ~contexts[i].slept

(* What every visit to a context has in common.                            *)
Visits ==
  /\ at # 0 /\ NextVisit /\ planned' = planned
  /\ contexts' \in Seq(Contexts) /\ Len(contexts) <= Len(contexts')
  /\ Proceeds(contexts[Visited], contexts'[Visited])
  /\ \A i \in DOMAIN contexts : i # Visited => contexts'[i] = contexts[i]
  /\ \A i \in Len(contexts) + 1 .. Len(contexts') :
        contexts'[i].parent # 0 /\ (contexts'[i].sleep > 0 => contexts'[i].slept)

LEMMA VisitedIs ==
  ASSUME ContextsOK, ListOK, at # 0
  PROVE  /\ Visited \in 1 .. known /\ Visited \in DOMAIN contexts /\ Visited = left[at]
         /\ contexts[Visited] \in Contexts /\ at \in 1 .. Len(left)
  BY DEF ContextsOK, ListOK, Visited

(* list is s, of numbers up to m, and the n that come after them.         *)
Joins(list, s, m, n) ==
  /\ list \in Seq(1 .. m + n) /\ Len(list) = Len(s) + n
  /\ \A k \in 1 .. Len(s) : list[k] = s[k]
  /\ \A k \in DOMAIN list : k > Len(s) => list[k] > m
  /\ Ascends(s) => Ascends(list)

LEMMA JoinedIs ==
  ASSUME NEW m \in Nat, NEW n \in Nat, NEW s \in Seq(1 .. m)
  PROVE  Joins(s \o [k \in 1 .. n |-> m + k], s, m, n)
<1>. PICK list : list = s \o [k \in 1 .. n |-> m + k]  OBVIOUS
<1>1. PICK more : more = [k \in 1 .. n |-> m + k]  OBVIOUS
<1>2. more \in Seq(1 .. m + n) /\ Len(more) = n /\ \A k \in 1 .. n : more[k] = m + k
  BY <1>1
<1>3. s \in Seq(1 .. m + n)
  <2>1. \A k \in 1 .. Len(s) : s[k] \in 1 .. m + n  OBVIOUS
  <2>2. Len(s) \in Nat /\ s \in [1 .. Len(s) -> 1 .. m + n]  BY <2>1
  <2>. QED  BY <2>2
<1>4. list = s \o more  BY <1>1
<1>. PICK p \in Nat : p = Len(s)  OBVIOUS
<1>5. /\ list \in Seq(1 .. m + n) /\ Len(list) = p + n
      /\ \A k \in 1 .. p : list[k] = s[k]
      /\ \A k \in p + 1 .. p + n : list[k] = m + (k - p)
  BY <1>2, <1>3, <1>4
<1>6. DOMAIN list = 1 .. p + n /\ DOMAIN s = 1 .. p /\ \A k \in 1 .. p : s[k] \in 1 .. m
  BY <1>5
<1>7. \A k \in 1 .. p + n : k > p => list[k] = m + (k - p) /\ list[k] > m
  <2>. SUFFICES ASSUME NEW k \in 1 .. p + n, k > p
       PROVE  list[k] = m + (k - p) /\ list[k] > m
    OBVIOUS
  <2>1. k \in p + 1 .. p + n  OBVIOUS
  <2>2. list[k] = m + (k - p)  BY <1>5, <2>1
  <2>. QED  BY <2>2
<1>8. ASSUME Ascends(s), NEW j \in 1 .. p + n, NEW k \in 1 .. p + n, j < k
      PROVE  list[j] < list[k]
  <2>1. CASE k <= p
    <3>1. j \in 1 .. p /\ k \in 1 .. p  BY <1>8, <2>1
    <3>2. s[j] < s[k]  BY <1>6, <1>8, <3>1 DEF Ascends
    <3>. QED  BY <1>5, <3>1, <3>2
  <2>2. CASE j <= p /\ k > p
    <3>1. j \in 1 .. p  BY <2>2
    <3>2. list[j] = s[j] /\ s[j] \in 1 .. m  BY <1>5, <1>6, <3>1
    <3>3. list[k] = m + (k - p) /\ list[k] > m  BY <1>7, <2>2
    <3>. QED  BY <3>2, <3>3
  <2>3. CASE j > p
    <3>1. list[j] = m + (j - p)  BY <1>7, <2>3
    <3>2. list[k] = m + (k - p)  BY <1>7, <1>8, <2>3
    <3>. QED  BY <1>8, <3>1, <3>2
  <2>. QED  BY <1>8, <2>1, <2>2, <2>3
<1>9. Ascends(s) => Ascends(list)  BY <1>6, <1>8 DEF Ascends
<1>. QED  BY <1>5, <1>6, <1>7, <1>9 DEF Joins

LEMMA NextVisitIs ==
  ASSUME ListOK, at # 0, NextVisit, Len(contexts') \in Nat, Len(contexts) <= Len(contexts')
  PROVE  /\ known' \in known .. Len(contexts') /\ left' \in Seq(1 .. known')
         /\ at' \in 0 .. Len(left') /\ Ascends(left')
         /\ Len(left) <= Len(left') /\ \A k \in DOMAIN left : left'[k] = left[k]
         /\ \A k \in DOMAIN left' : k > Len(left) => left'[k] > known
         /\ \/ at < Len(left) /\ at' = at + 1
            \/ at = Len(left) /\ at' = 0
<1>1. /\ known \in 0 .. Len(contexts) /\ left \in Seq(1 .. known) /\ at \in 1 .. Len(left)
      /\ Ascends(left) /\ Len(left) \in Nat
  BY DEF ListOK
<1>2. CASE at < Len(left)
  <2>1. at' = at + 1 /\ UNCHANGED <<left, known>>  BY <1>2 DEF NextVisit
  <2>2. Ascends(left')  BY <1>1, <2>1
  <2>. QED  BY <1>1, <1>2, <2>1, <2>2
<1>3. CASE ~(at < Len(left))
  <2>. DEFINE n == Cardinality(Arrived)
  <2>1. /\ at' = 0 /\ known' = Len(contexts')
        /\ left' = left \o [k \in 1 .. n |-> known + k]
    BY <1>3 DEF NextVisit
  <2>2. n = Len(contexts') - known /\ n \in Nat
    <3>1. Arrived = known + 1 .. Len(contexts') /\ known \in Int  BY <1>1 DEF Arrived
    <3>2. known + 1 \in Int /\ Len(contexts') \in Int  BY <3>1
    <3>3. Cardinality(known + 1 .. Len(contexts'))
            = IF known + 1 > Len(contexts') THEN 0 ELSE Len(contexts') - (known + 1) + 1
      BY <3>2, FS_Interval
    <3>. QED  BY <1>1, <3>1, <3>3
  <2>. HIDE DEF n
  <2>3. known \in Nat /\ known + n = known'  BY <1>1, <2>1, <2>2
  <2>4. /\ left' \in Seq(1 .. known + n) /\ Len(left') = Len(left) + n
        /\ \A k \in 1 .. Len(left) : left'[k] = left[k]
        /\ Ascends(left') /\ \A k \in DOMAIN left' : k > Len(left) => left'[k] > known
    <3>1. known \in Nat /\ n \in Nat /\ left \in Seq(1 .. known)  BY <1>1, <2>2, <2>3
    <3>2. left' = left \o [k \in 1 .. n |-> known + k]  BY <2>1
    <3>. PICK list, s, m, q : list = left' /\ s = left /\ m = known /\ q = n  OBVIOUS
    <3>3. m \in Nat /\ q \in Nat /\ s \in Seq(1 .. m)  BY <3>1
    <3>4. list = s \o [k \in 1 .. q |-> m + k]  BY <3>2
    <3>5. Joins(list, s, m, q)  BY <3>3, <3>4, JoinedIs, Zenon
    <3>6. Ascends(list)  BY <1>1, <3>5 DEF Joins
    <3>. QED  BY <3>5, <3>6, Zenon DEF Joins
  <2>9. known' \in known .. Len(contexts') /\ left' \in Seq(1 .. known')
    BY <1>1, <2>1, <2>3, <2>4
  <2>10. at' \in 0 .. Len(left') /\ Len(left) <= Len(left') /\ at = Len(left) /\ at' = 0
    BY <1>1, <1>3, <2>1, <2>2, <2>4
  <2>11. \A k \in DOMAIN left : left'[k] = left[k]  BY <1>1, <2>4
  <2>. QED  BY <2>4, <2>9, <2>10, <2>11
<1>. QED  BY <1>2, <1>3

LEMMA VisitOK ==
  ASSUME ContextsOK, ListOK, planned \in Nat, planned <= known, Visits
  PROVE  /\ ContextsOK' /\ ListOK' /\ planned' <= known'
         /\ NeverSlept' => NeverSlept
         /\ CountsOK /\ NeverSlept' => CountsOK'
<1>1. /\ known \in 0 .. Len(contexts) /\ left \in Seq(1 .. known) /\ at \in 1 .. Len(left)
      /\ Ascends(left) /\ Len(left) \in Nat /\ at # 0
      /\ Visited \in DOMAIN contexts /\ Visited = left[at] /\ contexts[Visited] \in Contexts
  BY VisitedIs DEF ListOK, Visits
<1>2. /\ contexts \in Seq(Contexts) /\ contexts' \in Seq(Contexts)
      /\ Len(contexts) \in Nat /\ Len(contexts') \in Nat /\ Len(contexts) <= Len(contexts')
      /\ planned' = planned
  BY DEF ContextsOK, Visits
<1>3. /\ known' \in known .. Len(contexts') /\ left' \in Seq(1 .. known')
      /\ at' \in 0 .. Len(left') /\ Ascends(left')
      /\ Len(left) <= Len(left') /\ \A k \in DOMAIN left : left'[k] = left[k]
      /\ \A k \in DOMAIN left' : k > Len(left) => left'[k] > known
      /\ \/ at < Len(left) /\ at' = at + 1
         \/ at = Len(left) /\ at' = 0
  BY <1>1, <1>2, NextVisitIs DEF Visits
<1>. DEFINE A == 1 .. Len(left)
            B == 1 .. Len(left')
            C == 1 .. Len(contexts)
<1>11. /\ DOMAIN left = A /\ DOMAIN left' = B /\ DOMAIN contexts = C
       /\ known \in Nat /\ Len(left') \in Nat /\ at \in A /\ Visited \in C
       /\ \A k \in A : left[k] \in 1 .. known /\ left[k] \in C
       /\ \A i \in C : contexts[i] \in Contexts /\ contexts[i].left \in Int
  <2>1. \A k \in A : left[k] \in 1 .. known  BY <1>1
  <2>2. \A i \in C : contexts[i] \in Contexts  BY <1>2
  <2>3. \A c \in Contexts : c.left \in Int  BY DEF Contexts
  <2>4. \A i \in C : contexts[i].left \in Int  BY <2>2, <2>3
  <2>5. DOMAIN left = A /\ DOMAIN contexts = C  BY <1>1, <1>2
  <2>6. DOMAIN left' = B /\ Len(left') \in Nat  BY <1>3
  <2>7. known \in Nat /\ at \in A /\ Visited \in C  BY <1>1, <1>2, <2>5
  <2>8. \A k \in A : left[k] \in C  BY <1>1, <1>2, <2>1, SMTT(30)
  <2>. HIDE DEF A, B, C
  <2>. QED  BY <2>1, <2>2, <2>4, <2>5, <2>6, <2>7, <2>8
<1>12. A \subseteq B
  <2>1. Len(left) \in Nat /\ Len(left') \in Nat /\ Len(left) <= Len(left')  BY <1>1, <1>3, <1>11
  <2>. QED  BY <2>1
<1>13. \A j, k \in A : j < k => left[j] < left[k]  BY <1>1, <1>11 DEF Ascends
<1>4. /\ Proceeds(contexts[Visited], contexts'[Visited])
      /\ \A i \in DOMAIN contexts : i # Visited => contexts'[i] = contexts[i]
      /\ \A i \in Len(contexts) + 1 .. Len(contexts') :
            contexts'[i].parent # 0 /\ (contexts'[i].sleep > 0 => contexts'[i].slept)
  BY DEF Visits
<1>5. ListOK'  BY <1>2, <1>3 DEF ListOK
<1>6. planned' <= known'  BY <1>1, <1>2, <1>3
<1>7. ContextsOK'
  <2>. SUFFICES ASSUME NEW i \in DOMAIN contexts'
       PROVE  /\ contexts'[i].parent = 0 <=> i <= planned
              /\ contexts'[i].sleep > 0 => contexts'[i].slept
    BY <1>2 DEF ContextsOK
  <2>1. CASE i \in Len(contexts) + 1 .. Len(contexts')  BY <1>1, <1>2, <1>4, <2>1
  <2>2. CASE i \in DOMAIN contexts /\ i # Visited  BY <1>4, <2>2 DEF ContextsOK
  <2>3. CASE i = Visited  BY <1>1, <1>4, <2>3 DEF ContextsOK, Proceeds
  <2>. QED  BY <1>2, <2>1, <2>2, <2>3
<1>8. NeverSlept' => NeverSlept
  <2>. SUFFICES ASSUME NeverSlept', NEW i \in DOMAIN contexts PROVE ~contexts[i].slept
    BY DEF NeverSlept
  <2>1. i \in DOMAIN contexts'  BY <1>2
  <2>2. ~contexts'[i].slept  BY <2>1 DEF NeverSlept
  <2>. QED  BY <1>1, <1>4, <2>2 DEF Proceeds
<1>9. ASSUME CountsOK, NeverSlept'
      PROVE  CountsOK'
  <2>1. contexts'[Visited].left = Less(contexts[Visited].left)
    <3>1. Visited \in DOMAIN contexts'  BY <1>1, <1>2
    <3>2. ~contexts'[Visited].slept  BY <1>9, <3>1 DEF NeverSlept
    <3>. QED  BY <1>4, <3>2 DEF Proceeds
  <2>2. Visited <= planned => /\ contexts[Visited].left >= 1
                              /\ contexts'[Visited].left = contexts[Visited].left - 1
    <3>1. contexts[Visited].left \in Int  BY <1>1 DEF Contexts
    <3>2. Visited <= planned => contexts[Visited].left >= 1  BY <1>1, <1>9 DEF CountsOK
    <3>. QED  BY <2>1, <3>1, <3>2, LessIs
  <2>3. Listed \subseteq Listed'
    <3>1. Listed = {left[k] : k \in A} /\ Listed' = {left'[k] : k \in B}
      BY <1>11 DEF Listed
    <3>2. \A k \in A : left[k] = left'[k]  BY <1>3, <1>11
    <3>. HIDE DEF A, B
    <3>. QED  BY <1>12, <3>1, <3>2
  <2>4. ASSUME NEW i \in DOMAIN contexts', i <= planned
        PROVE  /\ contexts'[i].left >= 0
               /\ i \notin Listed' => contexts'[i].left = 0 \/ ~contexts'[i].alive
    <3>1. i \in DOMAIN contexts  BY <1>1, <1>2, <2>4
    <3>2. CASE i = Visited
      <4>1. i \in Listed'  BY <1>1, <1>11, <2>3, <3>2 DEF Listed
      <4>2. contexts[Visited].left \in Int  BY <1>1 DEF Contexts
      <4>. QED  BY <2>2, <2>4, <3>2, <4>1, <4>2
    <3>3. CASE i # Visited
      <4>1. contexts'[i] = contexts[i]  BY <1>4, <3>1, <3>3
      <4>. QED  BY <1>9, <2>3, <2>4, <3>1, <4>1 DEF CountsOK
    <3>. QED  BY <3>2, <3>3
  <2>5. ASSUME NEW k \in DOMAIN left', left'[k] <= planned
        PROVE  /\ k \in DOMAIN left /\ left'[k] = left[k]
               /\ Had(k)' = Had(k) - (IF at' = 0 THEN 1 ELSE 0) /\ Had(k) \in Int
    <3>1. k \in DOMAIN left /\ left'[k] = left[k]
      <4>1. k \in B /\ known \in Nat /\ left'[k] <= known
        <5>1. PICK m, s : m = known' /\ s = left'  OBVIOUS
        <5>2. left'[k] \in Int
          <6>1. s \in Seq(1 .. m) /\ m \in Int /\ k \in DOMAIN s  BY <1>1, <1>2, <1>3, <2>5, <5>1
          <6>2. s[k] \in 1 .. m  BY <6>1
          <6>. QED  BY <5>1, <6>1, <6>2
        <5>3. known \in Nat /\ k \in B  BY <1>11, <2>5
        <5>. QED  BY <2>5, <5>2, <5>3
      <4>2. ~(k > Len(left))
        <5>1. k > Len(left) => left'[k] > known  BY <1>3, <2>5
        <5>2. left'[k] \in 1 .. known'  BY <1>3, <2>5
        <5>. QED  BY <1>3, <4>1, <5>1, <5>2
      <4>3. k \in A  BY <1>1, <4>1, <4>2
      <4>. QED  BY <1>3, <1>11, <4>3
    <3>2. k \in A /\ left[k] \in DOMAIN contexts  BY <1>11, <3>1
    <3>3. contexts[left[k]].left \in Int  BY <1>11, <3>2
    <3>4. k = at => left[k] = Visited  BY <1>1
    <3>5. k # at => left[k] # Visited
      <4>1. k < at => left[k] < left[at]  BY <1>11, <1>13, <3>2
      <4>2. at < k => left[at] < left[k]  BY <1>11, <1>13, <3>2
      <4>3. left[k] \in Int /\ left[at] \in Int  BY <1>11, <3>2
      <4>. QED  BY <1>1, <1>11, <3>2, <4>1, <4>2, <4>3
    <3>6. CASE k = at
      <4>1. contexts'[left[k]].left = contexts[left[k]].left - 1
        BY <2>2, <2>5, <3>1, <3>4, <3>6
      <4>2. Had(k) = contexts[left[k]].left  BY <1>11, <3>2, <3>6 DEF Had
      <4>3. Had(k)' = contexts'[left[k]].left + (IF k < at' THEN 1 ELSE 0)
        BY <3>1 DEF Had
      <4>4. k < at' <=> at' # 0  BY <1>3, <1>11, <3>2, <3>6, SMTT(30)
      <4>. QED  BY <3>1, <3>3, <4>1, <4>2, <4>3, <4>4
    <3>7. CASE k # at
      <4>1. contexts'[left[k]] = contexts[left[k]]  BY <1>4, <3>2, <3>5, <3>7
      <4>2. Had(k) = contexts[left[k]].left + (IF k < at THEN 1 ELSE 0)  BY DEF Had
      <4>3. Had(k)' = contexts[left[k]].left + (IF k < at' THEN 1 ELSE 0)
        BY <3>1, <4>1 DEF Had
      <4>. PICK p \in Nat : p = Len(left)  BY <1>1
      <4>6. /\ k \in 1 .. p /\ at \in 1 .. p
            /\ (at < p /\ at' = at + 1) \/ (at = p /\ at' = 0)
        <5>1. k \in 1 .. Len(left) /\ at \in 1 .. Len(left)  BY <1>11, <3>2
        <5>2. (at < Len(left) /\ at' = at + 1) \/ (at = Len(left) /\ at' = 0)  BY <1>3
        <5>. QED  BY <5>1, <5>2
      <4>. HIDE DEF A, B, C
      <4>4. at' # 0 => (k < at' <=> k < at)  BY <3>7, <4>6
      <4>5. at' = 0 => k < at /\ ~(k < at')  BY <3>7, <4>6
      <4>. QED  BY <3>1, <3>3, <4>2, <4>3, <4>4, <4>5
    <3>. QED  BY <3>6, <3>7, SMTT(30)
  <2>6. \A j, k \in DOMAIN left' :
          left'[j] <= planned /\ left'[k] <= planned => Had(j)' = Had(k)'
    <3>. SUFFICES ASSUME NEW j \in DOMAIN left', NEW k \in DOMAIN left',
                         left'[j] <= planned, left'[k] <= planned
         PROVE  Had(j)' = Had(k)'
      OBVIOUS
    <3>1. Had(j) = Had(k)  BY <1>9, <2>5 DEF CountsOK
    <3>. QED  BY <2>5, <3>1
  <2>7. ASSUME NEW k \in DOMAIN left', left'[k] <= planned, at' # 0, k >= at'
        PROVE  contexts'[left'[k]].left >= 1
    <3>1. k \in DOMAIN left /\ left'[k] = left[k]  BY <2>5, <2>7
    <3>2. k \in A /\ k > at
      <4>1. k \in A /\ at \in A /\ at' = at + 1  BY <1>3, <1>11, <2>7, <3>1
      <4>. QED  BY <1>1, <2>7, <4>1
    <3>3. left[k] # Visited /\ left[k] \in DOMAIN contexts
      <4>1. left[at] < left[k] /\ left[k] \in Int /\ left[at] \in Int  BY <1>11, <1>13, <3>2
      <4>. QED  BY <1>1, <1>11, <3>2, <4>1
    <3>4. contexts'[left[k]] = contexts[left[k]]  BY <1>4, <3>3
    <3>5. contexts[left[k]].left >= 1  BY <1>1, <1>9, <2>7, <3>1, <3>2 DEF CountsOK
    <3>. QED  BY <3>1, <3>4, <3>5
  <2>. QED  BY <1>2, <2>4, <2>6, <2>7 DEF CountsOK
<1>. QED  BY <1>5, <1>6, <1>7, <1>8, <1>9

-----------------------------------------------------------------------------
(***************************************************************************)
(* A round begins with the first context that has to go on.                *)
(***************************************************************************)
LEMMA ElementsAre ==
  ASSUME NEW m, NEW s \in Seq(1 .. m)
  PROVE  \A k \in DOMAIN s : s[k] \in 1 .. m
<1>. PICK S : S = 1 .. m  OBVIOUS
<1>1. s \in Seq(S)  OBVIOUS
<1>2. \A k \in 1 .. Len(s) : s[k] \in S  BY <1>1, ElementOfSeq
<1>3. DOMAIN s = 1 .. Len(s)  BY <1>1
<1>. QED  BY <1>2, <1>3

NoneGoesOn == \A k \in DOMAIN left : ~GoesOn(left[k])
FirstIs(f) ==
  /\ f \in DOMAIN left /\ GoesOn(left[f])
  /\ \A k \in DOMAIN left : k < f => ~GoesOn(left[k])
  /\ Remaining = SubSeq(left, f, Len(left))

LEMMA RemainingIs ==
  ASSUME ListOK
  PROVE  \/ Remaining = <<>> /\ NoneGoesOn
         \/ Remaining # <<>> /\ \E f \in DOMAIN left : FirstIs(f)
<1>. DEFINE going == {k \in DOMAIN left : GoesOn(left[k])}
<1>1. left \in Seq(1 .. known) /\ Len(left) \in Nat /\ DOMAIN left = 1 .. Len(left)
  BY DEF ListOK
<1>2. CASE going = {}
  <2>1. Remaining = <<>>  BY <1>2 DEF Remaining
  <2>2. NoneGoesOn  BY <1>2 DEF NoneGoesOn
  <2>. QED  BY <2>1, <2>2
<1>3. CASE going # {}
  <2>. DEFINE f == CHOOSE k \in going : \A j \in going : k <= j
  <2>1. \E k \in going : \A j \in going : k <= j
    <3>1. going \subseteq Nat  BY <1>1
    <3>. HIDE DEF going
    <3>. QED  BY <1>3, <3>1, LeastNumber
  <2>2. f \in going /\ \A j \in going : f <= j
    <3>. HIDE DEF going
    <3>. QED  BY <2>1
  <2>3. Remaining = SubSeq(left, f, Len(left))
    <3>. HIDE DEF f
    <3>. QED  BY <1>3 DEF Remaining, f
  <2>. HIDE DEF f
  <2>4. f \in DOMAIN left /\ GoesOn(left[f])  BY <2>2
  <2>5. \A k \in DOMAIN left : k < f => ~GoesOn(left[k])
    <3>. SUFFICES ASSUME NEW k \in DOMAIN left, k < f, GoesOn(left[k]) PROVE FALSE  OBVIOUS
    <3>1. k \in going  OBVIOUS
    <3>2. f <= k  BY <2>2, <3>1
    <3>. QED  BY <1>1, <2>4, <3>2
  <2>6. FirstIs(f)  BY <2>3, <2>4, <2>5 DEF FirstIs
  <2>7. Remaining # <<>>
    <3>1. f \in Int /\ Len(left) \in Int /\ f <= Len(left)  BY <1>1, <2>4
    <3>2. \A i \in f .. Len(left) : left[i] \in 1 .. known
      <4>1. \A i \in DOMAIN left : left[i] \in 1 .. known  BY <1>1, ElementsAre
      <4>2. f .. Len(left) \subseteq DOMAIN left  BY <1>1, <2>4
      <4>. QED  BY <4>1, <4>2
    <3>3. Len(Remaining) = Len(left) - f + 1  BY <2>3, <3>1, <3>2, SubSeqProperties
    <3>. QED  BY <3>1, <3>3
  <2>. QED  BY <2>4, <2>6, <2>7
<1>. QED  BY <1>2, <1>3

(* What is left of an ascending list from one of its places on.            *)
Drops(list, s, f, m) ==
  /\ list \in Seq(1 .. m) /\ Len(list) = Len(s) - f + 1
  /\ \A k \in 1 .. Len(s) - f + 1 : list[k] = s[k + f - 1]
  /\ Ascends(list)

LEMMA DroppedIs ==
  ASSUME NEW m \in Nat, NEW s \in Seq(1 .. m), Ascends(s), NEW f \in 1 .. Len(s)
  PROVE  Drops(SubSeq(s, f, Len(s)), s, f, m)
<1>. PICK list, p : list = SubSeq(s, f, Len(s)) /\ p = Len(s)  OBVIOUS
<1>1. p \in Nat /\ f \in 1 .. p /\ DOMAIN s = 1 .. p  OBVIOUS
<1>2. /\ list \in Seq(1 .. m) /\ Len(list) = p - f + 1
      /\ \A k \in 1 .. p - f + 1 : list[k] = s[k + f - 1]
  <2>1. \A i \in f .. p : s[i] \in 1 .. m  BY <1>1
  <2>2. f \in Int /\ p \in Int /\ f <= p  BY <1>1
  <2>3. /\ list \in Seq(1 .. m) /\ Len(list) = p - f + 1
        /\ \A k \in 1 .. p - f + 1 : list[k] = s[f + k - 1]
    BY <2>1, <2>2, SubSeqProperties
  <2>4. \A k \in 1 .. p - f + 1 : f + k - 1 = k + f - 1  BY <2>2
  <2>. QED  BY <2>3, <2>4
<1>3. DOMAIN list = 1 .. p - f + 1  BY <1>1, <1>2
<1>4. ASSUME NEW j \in 1 .. p - f + 1, NEW k \in 1 .. p - f + 1, j < k
      PROVE  list[j] < list[k]
  <2>1. j + f - 1 \in 1 .. p /\ k + f - 1 \in 1 .. p /\ j + f - 1 < k + f - 1
    BY <1>1, <1>4
  <2>2. s[j + f - 1] < s[k + f - 1]  BY <1>1, <2>1 DEF Ascends
  <2>. QED  BY <1>2, <2>2
<1>5. Ascends(list)  BY <1>3, <1>4 DEF Ascends
<1>. QED  BY <1>2, <1>5 DEF Drops

LEMMA StartRoundOK ==
  ASSUME ContextsOK, ListOK, planned \in Nat, planned <= known, StartRound, planned' = planned
  PROVE  ContextsOK' /\ ListOK' /\ planned' <= known' /\ (CountsOK => CountsOK')
<1>1. /\ at = 0 /\ at' = 1 /\ contexts' = contexts /\ known' = known /\ left' = Remaining
      /\ Remaining # <<>>
  BY DEF StartRound
<1>2. PICK f \in DOMAIN left : FirstIs(f)  BY <1>1, RemainingIs
<1>. PICK p, s, list, m : p = Len(left) /\ s = left /\ list = left' /\ m = known  OBVIOUS
<1>3. /\ known \in 0 .. Len(contexts) /\ m \in Nat /\ s \in Seq(1 .. m) /\ Ascends(s)
      /\ p \in Nat /\ p = Len(s) /\ f \in 1 .. p /\ DOMAIN s = 1 .. p /\ Len(contexts) \in Nat
  <2>1. known \in 0 .. Len(contexts) /\ Len(contexts) \in Nat  BY DEF ListOK, ContextsOK
  <2>2. m \in Nat /\ s \in Seq(1 .. m) /\ Ascends(s)  BY <2>1 DEF ListOK
  <2>3. p \in Nat /\ p = Len(s) /\ DOMAIN s = 1 .. p  BY <2>2
  <2>. QED  BY <2>1, <2>2, <2>3
<1>4. Drops(list, s, f, m)  BY <1>1, <1>2, <1>3, DroppedIs DEF FirstIs
<1>5. ContextsOK'  BY <1>1 DEF ContextsOK
<1>. DEFINE B == 1 .. p - f + 1
<1>6. /\ list \in Seq(1 .. m) /\ Len(list) = p - f + 1 /\ DOMAIN list = B
      /\ \A k \in B : list[k] = s[k + f - 1] /\ k + f - 1 \in 1 .. p
      /\ 1 \in B /\ list[1] = s[f] /\ Ascends(list) /\ \A k \in B : list[k] \in 1 .. m
  <2>1. /\ list \in Seq(1 .. m) /\ Len(list) = p - f + 1
        /\ \A k \in B : list[k] = s[k + f - 1] /\ Ascends(list)
    BY <1>3, <1>4 DEF Drops
  <2>2. \A k \in B : k + f - 1 \in 1 .. p  BY <1>3, SMTT(30)
  <2>3. 1 \in B  BY <1>3
  <2>4. DOMAIN list = B  BY <1>3, <2>1
  <2>5. 1 + f - 1 = f  BY <1>3
  <2>6. list[1] = s[f]  BY <2>1, <2>3, <2>5
  <2>7. \A k \in B : list[k] \in 1 .. m  BY <2>1, <2>4, ElementsAre
  <2>. HIDE DEF B
  <2>. QED  BY <2>1, <2>2, <2>3, <2>4, <2>6, <2>7
<1>7. ListOK'
  <2>1. known' \in 0 .. Len(contexts')  BY <1>1, <1>3
  <2>2. at' \in 0 .. Len(list)  BY <1>1, <1>3, <1>6
  <2>3. list \in Seq(1 .. known') /\ Ascends(list)  BY <1>1, <1>6
  <2>. QED  BY <2>1, <2>2, <2>3, Zenon DEF ListOK
<1>8. ASSUME CountsOK PROVE CountsOK'
  <2>. HIDE DEF B
  <2>1. ASSUME NEW i \in DOMAIN contexts', i <= planned
        PROVE  /\ contexts'[i].left >= 0
               /\ i \notin Listed' => contexts'[i].left = 0 \/ ~contexts'[i].alive
    <3>1. i \in DOMAIN contexts /\ contexts'[i] = contexts[i]  BY <1>1, <2>1
    <3>2. contexts[i].left >= 0  BY <1>8, <2>1, <3>1 DEF CountsOK
    <3>3. ASSUME i \notin Listed'
          PROVE  contexts[i].left = 0 \/ ~contexts[i].alive
      <4>1. CASE i \notin Listed  BY <1>8, <2>1, <3>1, <4>1 DEF CountsOK
      <4>2. CASE i \in Listed
        <5>1. PICK k \in 1 .. p : i = s[k]  BY <1>3, <4>2 DEF Listed
        <5>2. k < f
          <6>. SUFFICES ASSUME ~(k < f) PROVE FALSE  OBVIOUS
          <6>. PICK j \in Int : j = k - f + 1  BY <1>3
          <6>1. j \in B /\ j + f - 1 = k  BY <1>3, SMTT(30) DEF B
          <6>2. list[j] = i  BY <1>6, <5>1, <6>1
          <6>3. list[j] \in Listed'  BY <1>6, <6>1 DEF Listed
          <6>. QED  BY <3>3, <6>2, <6>3
        <5>3. ~GoesOn(i)  BY <1>2, <1>3, <5>1, <5>2 DEF FirstIs
        <5>. QED  BY <5>3 DEF GoesOn
      <4>. QED  BY <4>1, <4>2
    <3>. QED  BY <3>1, <3>2, <3>3
  <2>2. ASSUME NEW k \in DOMAIN left'
        PROVE  /\ k + f - 1 \in DOMAIN left /\ left'[k] = left[k + f - 1]
               /\ Had(k)' = Had(k + f - 1)
    <3>1. k \in B /\ k + f - 1 \in DOMAIN left /\ left'[k] = left[k + f - 1]
      BY <1>3, <1>6, <2>2
    <3>2. ~(k < 1) /\ ~(k + f - 1 < 0)  BY <1>3, <3>1, SMTT(30) DEF B
    <3>3. Had(k)' = contexts'[left'[k]].left + (IF k < at' THEN 1 ELSE 0)  BY DEF Had
    <3>4. Had(k + f - 1) = contexts[left[k + f - 1]].left + (IF k + f - 1 < at THEN 1 ELSE 0)
      BY DEF Had
    <3>. QED  BY <1>1, <3>1, <3>2, <3>3, <3>4
  <2>3. \A j, k \in DOMAIN left' :
          left'[j] <= planned /\ left'[k] <= planned => Had(j)' = Had(k)'
    <3>. SUFFICES ASSUME NEW j \in DOMAIN left', NEW k \in DOMAIN left',
                         left'[j] <= planned, left'[k] <= planned
         PROVE  Had(j)' = Had(k)'
      OBVIOUS
    <3>. PICK x, y : x = j + f - 1 /\ y = k + f - 1  OBVIOUS
    <3>1. x \in DOMAIN left /\ left'[j] = left[x] /\ Had(j)' = Had(x)  BY <2>2
    <3>2. y \in DOMAIN left /\ left'[k] = left[y] /\ Had(k)' = Had(y)  BY <2>2
    <3>3. Had(x) = Had(y)  BY <1>8, <3>1, <3>2 DEF CountsOK
    <3>. QED  BY <3>1, <3>2, <3>3
  <2>4. ASSUME NEW k \in DOMAIN left', left'[k] <= planned
        PROVE  contexts'[left'[k]].left >= 1
    <3>1. k \in B /\ 1 \in B /\ DOMAIN left' = B  BY <1>6, <2>4
    <3>2. left'[1] <= planned
      <4>1. list[1] \in 1 .. m /\ list[k] \in 1 .. m  BY <1>6, <3>1
      <4>2. k = 1 \/ list[1] < list[k]
        <5>1. k = 1 \/ 1 < k  BY <1>3, <3>1 DEF B
        <5>. QED  BY <1>6, <3>1, <5>1 DEF Ascends
      <4>. QED  BY <1>3, <2>4, <4>1, <4>2
    <3>3. Had(1)' = Had(k)'  BY <2>3, <2>4, <3>1, <3>2
    <3>4. /\ Had(1)' = contexts'[left'[1]].left + 0 /\ Had(k)' = contexts'[left'[k]].left + 0
      <4>1. ~(1 < at') /\ ~(k < at')  BY <1>1, <1>3, <3>1 DEF B
      <4>2. Had(1)' = contexts'[left'[1]].left + (IF 1 < at' THEN 1 ELSE 0)  BY DEF Had
      <4>3. Had(k)' = contexts'[left'[k]].left + (IF k < at' THEN 1 ELSE 0)  BY DEF Had
      <4>. QED  BY <4>1, <4>2, <4>3
    <3>5. \A j \in {1, k} : left'[j] \in DOMAIN contexts /\ contexts[left'[j]].left \in Int
      <4>1. \A j \in {1, k} : list[j] \in 1 .. m  BY <1>6, <3>1
      <4>2. DOMAIN contexts = 1 .. Len(contexts)  BY DEF ContextsOK
      <4>3. \A j \in {1, k} : list[j] \in DOMAIN contexts  BY <1>3, <4>1, <4>2
      <4>4. \A i \in DOMAIN contexts : contexts[i] \in Contexts  BY DEF ContextsOK
      <4>5. \A c \in Contexts : c.left \in Int  BY DEF Contexts
      <4>6. \A i \in DOMAIN contexts : contexts[i].left \in Int  BY <4>4, <4>5
      <4>. QED  BY <4>3, <4>6
    <3>6. contexts[left'[1]].left >= 1
      <4>1. GoesOn(left'[1])  BY <1>2, <1>6 DEF FirstIs
      <4>2. contexts[left'[1]].left # 0  BY <4>1 DEF GoesOn
      <4>3. contexts[left'[1]].left >= 0  BY <1>8, <3>2, <3>5 DEF CountsOK
      <4>. QED  BY <3>5, <4>2, <4>3
    <3>. QED  BY <1>1, <3>3, <3>4, <3>5, <3>6
  <2>. QED  BY <1>1, <2>1, <2>3, <2>4 DEF CountsOK
<1>. QED  BY <1>1, <1>5, <1>7, <1>8

-----------------------------------------------------------------------------
(***************************************************************************)
(* The contexts that are alive, each of which takes a place of a core.     *)
(***************************************************************************)
AliveIn(cs) == {i \in DOMAIN cs : cs[i].alive}
Places == room + Cardinality(AliveIn(contexts))

LEMMA AliveAre ==
  ASSUME NEW cs \in Seq(Contexts)
  PROVE  /\ IsFiniteSet(AliveIn(cs)) /\ Cardinality(AliveIn(cs)) \in Nat
         /\ Cardinality(AliveIn(cs)) <= Len(cs)
<1>1. AliveIn(cs) \subseteq 1 .. Len(cs)  BY DEF AliveIn
<1>2. IsFiniteSet(1 .. Len(cs)) /\ Cardinality(1 .. Len(cs)) = Len(cs)
  <2>1. 1 \in Int /\ Len(cs) \in Int /\ Len(cs) \in Nat  OBVIOUS
  <2>2. Cardinality(1 .. Len(cs)) = IF 1 > Len(cs) THEN 0 ELSE Len(cs) - 1 + 1
    BY <2>1, FS_Interval
  <2>3. IsFiniteSet(1 .. Len(cs))  BY <2>1, FS_Interval
  <2>. QED  BY <2>1, <2>2, <2>3
<1>. QED  BY <1>1, <1>2, FS_Subset, FS_CardinalityType

(* ds is cs with c at i.                                                   *)
Puts(ds, cs, i, c) ==
  /\ ds \in Seq(Contexts) /\ Len(ds) = Len(cs) /\ ds[i] = c
  /\ \A k \in 1 .. Len(cs) : k # i => ds[k] = cs[k]
  /\ c.alive = cs[i].alive => AliveIn(ds) = AliveIn(cs)
  /\ ~c.alive /\ cs[i].alive => Cardinality(AliveIn(ds)) = Cardinality(AliveIn(cs)) - 1

LEMMA PutIs ==
  ASSUME NEW cs \in Seq(Contexts), NEW i \in 1 .. Len(cs), NEW c \in Contexts
  PROVE  Puts([cs EXCEPT ![i] = c], cs, i, c)
<1>. PICK ds : ds = [cs EXCEPT ![i] = c]  OBVIOUS
<1>1. /\ ds \in Seq(Contexts) /\ Len(ds) = Len(cs) /\ ds[i] = c
      /\ \A k \in 1 .. Len(cs) : k # i => ds[k] = cs[k]
      /\ DOMAIN ds = 1 .. Len(cs) /\ DOMAIN cs = 1 .. Len(cs)
  OBVIOUS
<1>2. ASSUME c.alive = cs[i].alive
      PROVE  AliveIn(ds) = AliveIn(cs)
  <2>1. \A k \in 1 .. Len(cs) : ds[k].alive = cs[k].alive  BY <1>1, <1>2
  <2>. QED  BY <1>1, <2>1 DEF AliveIn
<1>3. ASSUME ~c.alive, cs[i].alive
      PROVE  Cardinality(AliveIn(ds)) = Cardinality(AliveIn(cs)) - 1
  <2>1. i \in AliveIn(cs)  BY <1>1, <1>3 DEF AliveIn
  <2>2. AliveIn(ds) = AliveIn(cs) \ {i}
    <3>1. \A k \in 1 .. Len(cs) : ds[k].alive <=> cs[k].alive /\ k # i  BY <1>1, <1>3
    <3>. QED  BY <1>1, <3>1 DEF AliveIn
  <2>. QED  BY <2>1, <2>2, AliveAre, FS_RemoveElement
<1>. QED  BY <1>1, <1>2, <1>3 DEF Puts

(* ds is cs with c after it.                                               *)
Adds(ds, cs, c) ==
  /\ ds \in Seq(Contexts) /\ Len(ds) = Len(cs) + 1 /\ ds[Len(cs) + 1] = c
  /\ \A k \in 1 .. Len(cs) : ds[k] = cs[k]
  /\ c.alive => Cardinality(AliveIn(ds)) = Cardinality(AliveIn(cs)) + 1

LEMMA AddIs ==
  ASSUME NEW cs \in Seq(Contexts), NEW c \in Contexts
  PROVE  Adds(Append(cs, c), cs, c)
<1>. PICK ds, n : ds = Append(cs, c) /\ n = Len(cs)  OBVIOUS
<1>1. /\ ds \in Seq(Contexts) /\ Len(ds) = n + 1 /\ ds[n + 1] = c
      /\ \A k \in 1 .. n : ds[k] = cs[k]
      /\ n \in Nat /\ DOMAIN cs = 1 .. n
  BY AppendProperties
<1>2. DOMAIN ds = 1 .. n + 1  BY <1>1
<1>3. ASSUME c.alive
      PROVE  Cardinality(AliveIn(ds)) = Cardinality(AliveIn(cs)) + 1
  <2>1. n + 1 \notin AliveIn(cs)  BY <1>1 DEF AliveIn
  <2>2. AliveIn(ds) = AliveIn(cs) \cup {n + 1}
    <3>1. \A k \in 1 .. n + 1 : ds[k].alive <=> k = n + 1 \/ (k \in 1 .. n /\ cs[k].alive)
      BY <1>1, <1>3
    <3>2. 1 .. n \subseteq 1 .. n + 1 /\ n + 1 \in 1 .. n + 1  BY <1>1
    <3>. QED  BY <1>1, <1>2, <3>1, <3>2 DEF AliveIn
  <2>. QED  BY <2>1, <2>2, AliveAre, FS_AddElement
<1>. QED  BY <1>1, <1>3 DEF Adds

-----------------------------------------------------------------------------
(***************************************************************************)
(* The instructions.                                                       *)
(***************************************************************************)
Turn == ContextsOK /\ ListOK /\ room \in Nat /\ planned' = planned
Fair == Visits /\ room' \in Nat /\ Places' = Places

LEMMA TurnIs ==
  ASSUME Turn, at # 0
  PROVE  /\ Visited \in DOMAIN contexts /\ Visited \in 1 .. Len(contexts)
         /\ contexts[Visited] \in Contexts /\ contexts \in Seq(Contexts)
         /\ contexts[Visited].sleep \in Int
         /\ contexts[Visited].sleep > 0 => contexts[Visited].slept
         /\ Visited \in Nat \ {0} /\ Len(contexts) \in Nat
<1>1. Visited \in DOMAIN contexts /\ contexts[Visited] \in Contexts  BY VisitedIs DEF Turn
<1>2. contexts[Visited].sleep > 0 => contexts[Visited].slept  BY <1>1 DEF Turn, ContextsOK
<1>3. contexts \in Seq(Contexts) /\ Len(contexts) \in Nat  BY DEF Turn, ContextsOK
<1>4. contexts[Visited].sleep \in Int  BY <1>1 DEF Contexts
<1>5. DOMAIN contexts = 1 .. Len(contexts)  BY <1>3
<1>. QED  BY <1>1, <1>2, <1>3, <1>4, <1>5

(* A visit that puts another context in the place of the visited one.      *)
LEMMA OneVisit ==
  ASSUME Turn, at # 0, NextVisit, NEW c, Update(c), Proceeds(contexts[Visited], c)
  PROVE  /\ Visits
         /\ c.alive = contexts[Visited].alive /\ UNCHANGED room => Fair
         /\ ~c.alive /\ contexts[Visited].alive /\ room' = room + 1 => Fair
<1>. PICK i : i = Visited  OBVIOUS
<1>1. i \in 1 .. Len(contexts) /\ i \in DOMAIN contexts /\ contexts \in Seq(Contexts)
      /\ Len(contexts) \in Nat /\ DOMAIN contexts = 1 .. Len(contexts)
  BY TurnIs
<1>2. c \in Contexts  BY DEF Proceeds
<1>3. Puts(contexts', contexts, i, c)
  <2>1. contexts' = [contexts EXCEPT ![i] = c]  BY DEF Update
  <2>2. Puts([contexts EXCEPT ![i] = c], contexts, i, c)  BY <1>1, <1>2, PutIs
  <2>. QED  BY <2>1, <2>2
<1>4. /\ contexts' \in Seq(Contexts) /\ Len(contexts') = Len(contexts) /\ contexts'[i] = c
      /\ \A k \in 1 .. Len(contexts) : k # i => contexts'[k] = contexts[k]
  BY <1>3 DEF Puts
<1>5. Visits
  <2>1. Len(contexts) + 1 .. Len(contexts') = {}  BY <1>1, <1>4
  <2>. QED  BY <1>1, <1>4, <2>1 DEF Visits, Turn
<1>6. room \in Nat /\ Cardinality(AliveIn(contexts)) \in Nat  BY <1>1, AliveAre DEF Turn
<1>7. ASSUME c.alive = contexts[Visited].alive, UNCHANGED room PROVE Fair
  <2>1. AliveIn(contexts') = AliveIn(contexts)  BY <1>3, <1>7 DEF Puts
  <2>2. AliveIn(contexts)' = AliveIn(contexts')  BY DEF AliveIn
  <2>. QED  BY <1>5, <1>6, <1>7, <2>1, <2>2 DEF Fair, Places
<1>8. ASSUME ~c.alive, contexts[Visited].alive, room' = room + 1 PROVE Fair
  <2>1. Cardinality(AliveIn(contexts')) = Cardinality(AliveIn(contexts)) - 1
    BY <1>3, <1>8 DEF Puts
  <2>2. AliveIn(contexts)' = AliveIn(contexts')  BY DEF AliveIn
  <2>. QED  BY <1>5, <1>6, <1>8, <2>1, <2>2 DEF Fair, Places
<1>. QED  BY <1>5, <1>7, <1>8

LEMMA StayPendingFair ==
  ASSUME Turn, StayPending
  PROVE  Fair
<1>. PICK c : c = contexts[Visited]  OBVIOUS
<1>1. at # 0 /\ NextVisit /\ UNCHANGED room /\ Update(Pending(c))
  BY DEF StayPending, Visit, Update
<1>2. c \in Contexts /\ (c.sleep > 0 => c.slept)  BY <1>1, TurnIs
<1>3. Proceeds(c, Pending(c)) /\ Pending(c).alive = c.alive  BY <1>2, PendingIs
<1>. QED  BY <1>1, <1>3, OneVisit

LEMMA AsleepFair ==
  ASSUME Turn, Asleep
  PROVE  Fair
<1>. PICK c : c = contexts[Visited]  OBVIOUS
<1>1. at # 0 /\ NextVisit /\ UNCHANGED room /\ Update(Rest(c)) /\ c.sleep > 0
  BY DEF Asleep, Visit, Update
<1>2. c \in Contexts /\ c.slept  BY <1>1, TurnIs
<1>3. Proceeds(c, Rest(c)) /\ Rest(c).alive = c.alive  BY <1>1, <1>2, RestIs
<1>. QED  BY <1>1, <1>3, OneVisit

(* The context of an instruction.                                          *)
LEMMA ExecutesIs ==
  ASSUME Turn, NEW call, Executes(call)
  PROVE  /\ at # 0 /\ contexts[Visited] \in Contexts /\ contexts[Visited].sleep = 0
         /\ call # "none" => contexts[Visited].alive
<1>1. at # 0  BY DEF Executes, Visit
<1>. QED  BY <1>1, TurnIs DEF Executes

LEMMA PlainFair ==
  ASSUME Turn, Plain
  PROVE  Fair
<1>. PICK c : c = contexts[Visited]  OBVIOUS
<1>1. NextVisit /\ UNCHANGED room /\ Update(Executed(c))  BY DEF Plain
<1>2. at # 0 /\ c \in Contexts /\ c.sleep = 0  BY ExecutesIs DEF Plain
<1>3. Proceeds(c, Executed(c)) /\ Executed(c).alive = c.alive  BY <1>2, ExecutedIs
<1>. QED  BY <1>1, <1>2, <1>3, OneVisit

LEMMA WaitFair ==
  ASSUME Turn, Wait
  PROVE  Fair
<1>. PICK c : c = contexts[Visited]  OBVIOUS
<1>1. NextVisit /\ UNCHANGED room  BY DEF Wait
<1>2. PICK child \in DOMAIN contexts : Update([Executed(c) EXCEPT !.waitsFor = child])
  BY DEF Wait
<1>3. at # 0 /\ c \in Contexts /\ c.sleep = 0  BY ExecutesIs DEF Wait
<1>4. child \in Nat
  <2>1. contexts \in Seq(Contexts)  BY DEF Turn, ContextsOK
  <2>. QED  BY <2>1
<1>. PICK x : x = [Executed(c) EXCEPT !.waitsFor = child]  OBVIOUS
<1>5. Proceeds(c, x) /\ x.alive = c.alive  BY <1>3, <1>4, WaitingIs
<1>. QED  BY <1>1, <1>2, <1>3, <1>5, OneVisit

LEMMA SelectFair ==
  ASSUME Turn, Select
  PROVE  Fair
<1>. PICK c : c = contexts[Visited]  OBVIOUS
<1>. PICK x : x = [Executed(c) EXCEPT !.check = SelectTime]  OBVIOUS
<1>1. NextVisit /\ UNCHANGED room /\ Update(x)  BY DEF Select
<1>2. at # 0 /\ c \in Contexts /\ c.sleep = 0  BY ExecutesIs DEF Select
<1>3. Proceeds(c, x) /\ x.alive = c.alive  BY <1>2, SelectingIs
<1>. QED  BY <1>1, <1>2, <1>3, OneVisit

LEMMA SleepFair ==
  ASSUME Turn, Sleep
  PROVE  Fair
<1>. PICK c : c = contexts[Visited]  OBVIOUS
<1>. PICK x : x = [Executed(c) EXCEPT !.sleep = SleepTime, !.slept = TRUE]  OBVIOUS
<1>1. NextVisit /\ UNCHANGED room /\ Update(x)  BY Zenon DEF Sleep
<1>2. at # 0 /\ c \in Contexts /\ c.sleep = 0  BY ExecutesIs DEF Sleep
<1>3. Proceeds(c, x) /\ x.alive = c.alive
  <2>1. /\ Proceeds(c, [Executed(c) EXCEPT !.sleep = SleepTime, !.slept = TRUE])
        /\ [Executed(c) EXCEPT !.sleep = SleepTime, !.slept = TRUE].alive = c.alive
    BY <1>2, SleepingIs, Zenon
  <2>. QED  BY <2>1, Zenon
<1>. QED  BY <1>1, <1>2, <1>3, OneVisit

LEMMA ExitFair ==
  ASSUME Turn, Exit
  PROVE  Fair
<1>. PICK c : c = contexts[Visited]  OBVIOUS
<1>. PICK x : x = [Executed(c) EXCEPT !.alive = FALSE]  OBVIOUS
<1>1. NextVisit /\ room' = room + 1 /\ Update(x)  BY DEF Exit
<1>2. at # 0 /\ c \in Contexts /\ c.sleep = 0 /\ c.alive  BY ExecutesIs DEF Exit
<1>3. Proceeds(c, x) /\ ~x.alive  BY <1>2, ExitingIs
<1>. QED  BY <1>1, <1>2, <1>3, OneVisit

LEMMA ForkFair ==
  ASSUME Turn, Fork
  PROVE  Fair
<1>. PICK c, i, x : c = contexts[Visited] /\ i = Visited /\ x = Executed(c)  OBVIOUS
<1>1. NextVisit /\ room > 0 /\ room' = room - 1  BY DEF Fork
<1>2. at # 0 /\ c \in Contexts /\ c.sleep = 0 /\ c.alive  BY ExecutesIs DEF Fork
<1>3. i \in 1 .. Len(contexts) /\ i \in DOMAIN contexts /\ contexts \in Seq(Contexts)
      /\ Len(contexts) \in Nat /\ DOMAIN contexts = 1 .. Len(contexts) /\ i \in Nat \ {0}
  BY <1>2, TurnIs
<1>4. Proceeds(c, x) /\ x \in Contexts /\ x.alive = c.alive  BY <1>2, ExecutedIs DEF Proceeds
<1>. PICK ch : ch = Child(i)  OBVIOUS
<1>5. ch \in Contexts /\ ch.parent = i /\ ch.sleep = 0 /\ ch.alive  BY <1>2, <1>3, ChildIs
<1>. PICK cs : cs = [contexts EXCEPT ![i] = x]  OBVIOUS
<1>6. contexts' = Append(cs, ch)
  <2>1. contexts' = Append([contexts EXCEPT ![Visited] = Executed(@)], Child(Visited))
    BY DEF Fork
  <2>2. [contexts EXCEPT ![Visited] = Executed(@)]
          = [contexts EXCEPT ![Visited] = Executed(contexts[Visited])]
    OBVIOUS
  <2>. QED  BY <2>1, <2>2
<1>7. Puts(cs, contexts, i, x)  BY <1>3, <1>4, PutIs
<1>8. cs \in Seq(Contexts) /\ Len(cs) = Len(contexts) /\ cs[i] = x
      /\ (\A k \in 1 .. Len(contexts) : k # i => cs[k] = contexts[k])
      /\ AliveIn(cs) = AliveIn(contexts)
  BY <1>4, <1>7 DEF Puts
<1>9. Adds(contexts', cs, ch)  BY <1>5, <1>6, <1>8, AddIs
<1>10. /\ contexts' \in Seq(Contexts) /\ Len(contexts') = Len(contexts) + 1
       /\ contexts'[Len(contexts) + 1] = ch
       /\ \A k \in 1 .. Len(contexts) : contexts'[k] = cs[k]
       /\ Cardinality(AliveIn(contexts')) = Cardinality(AliveIn(contexts)) + 1
  BY <1>5, <1>8, <1>9 DEF Adds
<1>11. Visits
  <2>1. Len(contexts) + 1 .. Len(contexts') = {Len(contexts) + 1}  BY <1>3, <1>10
  <2>2. contexts'[Visited] = x  BY <1>3, <1>8, <1>10
  <2>3. \A k \in DOMAIN contexts : k # Visited => contexts'[k] = contexts[k]
    BY <1>3, <1>8, <1>10
  <2>4. Len(contexts) <= Len(contexts')  BY <1>3, <1>10
  <2>5. ch.parent # 0 /\ ~(ch.sleep > 0)  BY <1>3, <1>5
  <2>. QED  BY <1>1, <1>2, <1>4, <1>10, <2>1, <2>2, <2>3, <2>4, <2>5 DEF Visits, Turn
<1>12. AliveIn(contexts)' = AliveIn(contexts')  BY DEF AliveIn
<1>13. room \in Nat /\ Cardinality(AliveIn(contexts)) \in Nat  BY <1>3, AliveAre DEF Turn
<1>. QED  BY <1>1, <1>10, <1>11, <1>12, <1>13 DEF Fair, Places

-----------------------------------------------------------------------------
(***************************************************************************)
(* What holds between the phases: of the wiring, and of the contexts.      *)
(***************************************************************************)
Idle == {"scan", "options", "parsed", "refused"}
MainOK ==
  /\ phase \in Phases /\ runs \in 1 .. 2 /\ planned \in Nat
  /\ phase \notin Idle => /\ execIndex # 0 /\ scanned \in Nat \ {0} /\ limit \in Nat \ {0}
                          /\ WiringInv
  /\ phase = "exited" => freed = CachesMade

SkipOK ==
  /\ ContextsOK /\ ListOK /\ room \in Nat
  /\ phase \notin Idle => Places = scanned * limit
  /\ phase = "scan" => contexts = <<>>
  /\ phase = "load" => Len(contexts) <= planned
  /\ phase # "skip" => at = 0
  /\ phase \in {"skip", "timed"} => planned <= known /\ (Uniform /\ NeverSlept => CountsOK)
  /\ phase = "timed" => NoneGoesOn

StartupOK == OptionsOK /\ MainOK /\ SkipOK

LEMMA OptionsKept ==
  ASSUME OptionsOK, UNCHANGED <<argv, database, frames, execIndex, dump>>
  PROVE  OptionsOK'
  BY DEF OptionsOK, DatabaseOK, DumpOK, FramesFit

LEMMA MainKept ==
  ASSUME MainOK, UNCHANGED <<database, execIndex, runs, planned, scanned, wiring, limit>>,
         phase \notin Idle, phase' \in Phases, phase' = "exited" => freed' = CachesMade
  PROVE  MainOK'
<1>1. CachesMade' = CachesMade  BY SameWiring
<1>2. WiringInv /\ execIndex # 0 /\ scanned \in Nat \ {0} /\ limit \in Nat \ {0}
  BY DEF MainOK
<1>3. WiringInv'
  <2>1. /\ \A core \in DOMAIN wiring' : core \in Nat /\ Reaches(wiring'[core], core)
        /\ Fastfwd \in Nat
    BY <1>2 DEF WiringInv
  <2>. QED  BY <2>1, AllReachThen
<1>. QED  BY <1>1, <1>2, <1>3 DEF MainOK

LEMMA MainIdle ==
  ASSUME MainOK, UNCHANGED runs, planned' \in Nat, phase' \in Idle
  PROVE  MainOK'
  BY DEF MainOK, Idle, Phases

LEMMA ContextsKept ==
  ASSUME UNCHANGED <<ffVars, planned>>
  PROVE  /\ ContextsOK => ContextsOK'
         /\ ListOK => ListOK'
         /\ CountsOK => CountsOK'
         /\ NeverSlept' => NeverSlept
         /\ NoneGoesOn => NoneGoesOn'
         /\ Places' = Places /\ contexts' = contexts /\ room' = room /\ known' = known
         /\ at' = at /\ left' = left
<1>. USE DEF ffVars
<1>1. ContextsOK => ContextsOK'  BY DEF ContextsOK
<1>2. ListOK => ListOK'  BY DEF ListOK
<1>3. CountsOK => CountsOK'  BY DEF CountsOK, Listed, Had
<1>4. NeverSlept' => NeverSlept  BY DEF NeverSlept
<1>5. NoneGoesOn => NoneGoesOn'  BY DEF NoneGoesOn, GoesOn
<1>6. Places' = Places  BY DEF Places, AliveIn
<1>. QED  BY <1>1, <1>2, <1>3, <1>4, <1>5, <1>6

LEMMA SkipKept ==
  ASSUME SkipOK, UNCHANGED <<ffVars, planned, scanned, limit, database>>,
         phase \notin Idle, phase' \in Phases \ {"scan", "skip", "load"}, at = 0,
         phase' = "timed" => phase \in {"skip", "timed"} /\ NoneGoesOn
  PROVE  SkipOK'
<1>1. Uniform' = Uniform  BY SameWiring
<1>2. ContextsOK' /\ ListOK' /\ room' \in Nat /\ at' = 0  BY ContextsKept DEF SkipOK
<1>3. Places' = scanned' * limit'  BY ContextsKept DEF SkipOK
<1>4. phase' = "timed" => /\ planned' <= known' /\ (Uniform' /\ NeverSlept' => CountsOK')
                          /\ NoneGoesOn'
  BY <1>1, ContextsKept DEF SkipOK
<1>. QED  BY <1>2, <1>3, <1>4 DEF SkipOK

LEMMA SkipIdle ==
  ASSUME SkipOK, UNCHANGED <<ffVars, planned>>, at = 0,
         phase' \in {"options", "parsed", "refused"}
  PROVE  SkipOK'
<1>1. ContextsOK' /\ ListOK' /\ room' \in Nat /\ at' = 0  BY ContextsKept DEF SkipOK
<1>. QED  BY <1>1 DEF SkipOK, Idle

-----------------------------------------------------------------------------
(***************************************************************************)
(* From the command line to the options.                                   *)
(***************************************************************************)
LEMMA ArgsParts ==
  ASSUME NEW args
  PROVE  /\ ArgsFrame(args, 0).at = 1 /\ ArgsFrame(args, 0).kind = "args"
         /\ ArgsFrame(args, 0).toks = args
  BY DEF ArgsFrame

LEMMA ArgsFits ==
  ASSUME NEW args \in Seq(Toks), NEW n
  PROVE  FramesFit(<<ArgsFrame(args, 0)>>, args, n)
<1>. PICK f : f = ArgsFrame(args, 0)  OBVIOUS
<1>1. /\ f = [kind |-> "args", toks |-> args, at |-> 1, depth |-> 0, dumps |-> FALSE, name |-> ""]
      /\ "" \in Texts
  BY DEF ArgsFrame, Texts
<1>2. f \in Frames
  <2>1. 1 \in Nat /\ 0 \in Nat /\ FALSE \in BOOLEAN /\ "args" \in {"args", "file"}  OBVIOUS
  <2>. QED  BY <1>1, <2>1, SuchAFrame, ZenonT(60)
<1>5. f.at = 1 /\ f.kind = "args" /\ f.toks = args  BY ArgsParts
<1>3. FrameFits(f, args, n)
  <2>1. 1 > 0 /\ 1 <= Len(args) + 1  OBVIOUS
  <2>. QED  BY <1>2, <1>5, <2>1 DEF FrameFits
<1>6. <<f>> \in Seq(Frames) /\ DOMAIN <<f>> = {1} /\ <<f>>[1] = f  BY <1>2
<1>. QED  BY <1>3, <1>6 DEF FramesFit

LEMMA PlannedIs ==
  ASSUME NEW args \in Seq(Toks)
  PROVE  Planned(args) \in Nat
<1>. DEFINE P == {k \in DOMAIN args : IsProgram(args[k])}
<1>1. P \subseteq 1 .. Len(args) /\ Len(args) \in Int  OBVIOUS
<1>2. IsFiniteSet(1 .. Len(args))  BY <1>1, FS_Interval
<1>3. Cardinality(P) \in Nat
  <2>. HIDE DEF P
  <2>. QED  BY <1>1, <1>2, FS_Subset, FS_CardinalityType
<1>. QED  BY <1>3 DEF Planned

LEMMA ScanOK ==
  ASSUME StartupOK, Scan
  PROVE  StartupOK'
<1>1. /\ phase = "scan" /\ phase' = "options" /\ execIndex' = 0 /\ argv' = argv /\ dump' = dump
      /\ frames' = <<ArgsFrame(argv, 0)>> /\ planned' = Planned(argv) /\ UNCHANGED <<ffVars, runs>>
      /\ database' = [name \in Tracked(Scanned(argv)) |-> Default(Descriptor[name])]
  BY DEF Scan
<1>2. argv \in Seq(Toks) /\ DumpOK /\ planned' \in Nat
  BY <1>1, PlannedIs DEF StartupOK, OptionsOK
<1>3. DatabaseOK'
  <2>. PICK T : T = Tracked(Scanned(argv))  OBVIOUS
  <2>1. T \subseteq DOMAIN Descriptor  BY DEF Tracked
  <2>2. \A name \in T : ValueOK(Descriptor[name], Default(Descriptor[name]))
    BY <2>1, DefaultOK, FilesAssumption
  <2>3. database' = [name \in T |-> Default(Descriptor[name])]  BY <1>1
  <2>4. DOMAIN database' = T /\ \A name \in T : database'[name] = Default(Descriptor[name])
    BY <2>3
  <2>. QED  BY <2>1, <2>2, <2>4 DEF DatabaseOK
<1>4. OptionsOK'
  <2>1. FramesFit(frames', argv', Len(dump'.lines))  BY <1>1, <1>2, ArgsFits
  <2>2. execIndex' \in 0 .. Len(argv')  BY <1>1, <1>2
  <2>3. DumpOK'  BY <1>1, <1>2 DEF DumpOK
  <2>. QED  BY <1>1, <1>2, <1>3, <2>1, <2>2, <2>3 DEF OptionsOK
<1>5. MainOK'  BY <1>1, <1>2, MainIdle DEF StartupOK, Idle
<1>6. SkipOK'
  <2>1. contexts = <<>> /\ at = 0 /\ room \in Nat /\ ListOK
    BY <1>1 DEF StartupOK, SkipOK
  <2>2. ContextsOK'
    <3>1. contexts' = <<>>  BY <1>1, <2>1 DEF ffVars
    <3>. QED  BY <3>1 DEF ContextsOK
  <2>3. ListOK'  BY <1>1, <2>1 DEF ListOK, ffVars
  <2>. QED  BY <1>1, <2>1, <2>2, <2>3 DEF SkipOK, ffVars, Idle
<1>. QED  BY <1>4, <1>5, <1>6 DEF StartupOK

LEMMA OptionsStepOK ==
  ASSUME StartupOK, Options
  PROVE  StartupOK'
<1>1. ProcessOptions /\ UNCHANGED <<ffVars, argv, runs, planned>>  BY DEF Options, mainVars
<1>2. phase = "options"
  BY <1>1 DEF ProcessOptions, ProcessOption, OpenConfig, NoteDump, Orphan, EndOfArgs, ReadLine,
     CloseFile, AtToken, AtOption, InArgs, InFile
<1>3. OptionsOK' /\ phase' \in {"options", "parsed", "refused"}
  BY <1>1, ProcessOptionsOK DEF StartupOK
<1>4. MainOK'  BY <1>1, <1>3, MainIdle DEF StartupOK, MainOK, Idle
<1>5. SkipOK'
  <2>1. at = 0 /\ SkipOK  BY <1>2 DEF StartupOK, SkipOK
  <2>. QED  BY <1>1, <1>3, <2>1, SkipIdle
<1>. QED  BY <1>3, <1>4, <1>5 DEF StartupOK

(* The state of an accepted configuration, before anything is loaded.      *)
LEMMA NothingLoaded ==
  ASSUME contexts' = <<>>, left' = <<>>, known' = 0, at' = 0
  PROVE  /\ ContextsOK' /\ ListOK'
         /\ room' \in Nat => Places' = room'
<1>1. ContextsOK'  BY DEF ContextsOK
<1>2. ListOK'  BY DEF ListOK, Ascends
<1>3. AliveIn(contexts)' = {}  BY DEF AliveIn
<1>4. room' \in Nat => Places' = room'  BY <1>3, FS_EmptySet DEF Places
<1>. QED  BY <1>1, <1>2, <1>4

LEMMA CheckOK ==
  ASSUME StartupOK, Check
  PROVE  StartupOK'
<1>1. /\ phase = "parsed" /\ UNCHANGED <<argv, runs, planned, scanned>>
      /\ contexts' = <<>> /\ left' = <<>> /\ known' = 0 /\ at' = 0
  BY DEF Check
<1>2. CASE Value(Global("-h")) = 0 /\ execIndex # 0 /\ Accepted(scanned, planned)
  <2>1. /\ phase' = "load" /\ limit' = ContextLimit(planned) /\ wiring' = Wiring(scanned)
        /\ room' = scanned * ContextLimit(planned)
        /\ UNCHANGED <<database, frames, execIndex, dump>>
    BY <1>2 DEF Check
  <2>2. planned \in Nat /\ DatabaseOK /\ runs \in 1 .. 2
    BY DEF StartupOK, MainOK, OptionsOK
  <2>3. /\ scanned \in Nat \ {0} /\ ContextLimit(planned) \in Nat \ {0} /\ Fastfwd \in Nat
        /\ \A i \in 0 .. scanned - 1 : CachesOK(scanned, i)
    BY <1>2, <2>2, AcceptedNumbers
  <2>4. WiringInv'
    <3>1. /\ DOMAIN Wiring(scanned) = 0 .. scanned - 1
          /\ \A core \in 0 .. scanned - 1 : Reaches(Wiring(scanned)[core], core)
      BY <2>3, AllReach
    <3>2. \A core \in DOMAIN wiring' : core \in Nat /\ Reaches(wiring'[core], core)
      <4>. SUFFICES ASSUME NEW core \in DOMAIN wiring'
           PROVE  core \in Nat /\ Reaches(wiring'[core], core)
        OBVIOUS
      <4>1. core \in 0 .. scanned - 1 /\ wiring'[core] = Wiring(scanned)[core]  BY <2>1, <3>1
      <4>. QED  BY <2>3, <3>1, <4>1
    <3>. QED  BY <2>1, <2>3, <3>2, AllReachThen
  <2>5. OptionsOK'  BY <1>1, <2>1, OptionsKept DEF StartupOK
  <2>6. MainOK'  BY <1>1, <1>2, <2>1, <2>2, <2>3, <2>4 DEF MainOK, Phases
  <2>7. room' \in Nat
    <3>. PICK s \in Nat \ {0}, l \in Nat \ {0} : s = scanned /\ l = ContextLimit(planned)
      BY <2>3
    <3>1. s * l \in Nat  BY Multiples
    <3>. QED  BY <2>1, <3>1
  <2>8. SkipOK'
    <3>1. ContextsOK' /\ ListOK' /\ Places' = room'  BY <1>1, <2>7, NothingLoaded
    <3>2. Places' = scanned' * limit'  BY <1>1, <2>1, <3>1
    <3>3. Len(contexts') <= planned'  BY <1>1, <2>2
    <3>. QED  BY <1>1, <2>1, <2>7, <3>1, <3>2, <3>3 DEF SkipOK
  <2>. QED  BY <2>5, <2>6, <2>8 DEF StartupOK
<1>3. CASE ~(Value(Global("-h")) = 0 /\ execIndex # 0 /\ Accepted(scanned, planned))
  <2>1. Refuse /\ UNCHANGED <<limit, wiring, room>>  BY <1>3 DEF Check
  <2>2. OptionsOK'  BY <1>1, <2>1, RefuseOK DEF StartupOK
  <2>3. phase' = "refused"  BY <2>1 DEF Refuse
  <2>4. MainOK'  BY <1>1, <2>3, MainIdle DEF StartupOK, MainOK, Idle
  <2>5. ContextsOK' /\ ListOK' /\ room' \in Nat
    BY <1>1, <2>1, NothingLoaded DEF StartupOK, SkipOK
  <2>6. SkipOK'  BY <1>1, <2>3, <2>5 DEF SkipOK, Idle
  <2>. QED  BY <2>2, <2>4, <2>6 DEF StartupOK
<1>. QED  BY <1>2, <1>3

-----------------------------------------------------------------------------
(***************************************************************************)
(* From the programs to the report.                                        *)
(***************************************************************************)
(* A core that has room for the next program is not full, nor are all.     *)
LEMMA RoomForNext ==
  ASSUME StartupOK, phase = "load", HasRoom(CoreOf(Len(contexts) + 1))
  PROVE  room > 0
<1>1. /\ scanned \in Nat \ {0} /\ limit \in Nat \ {0} /\ contexts \in Seq(Contexts)
      /\ room \in Nat /\ Places = scanned * limit
  BY DEF StartupOK, MainOK, SkipOK, ContextsOK, Idle
<1>. PICK n \in Nat, s \in Nat \ {0}, l \in Nat : n = Len(contexts) /\ s = scanned /\ l = limit
  BY <1>1
<1>2. Cardinality({i \in 1 .. n : (i - 1) % s = n % s}) < l
  <2>1. DOMAIN contexts = 1 .. n  BY <1>1
  <2>2. (n + 1) - 1 = n  OBVIOUS
  <2>3. OnCore(CoreOf(n + 1)) = {i \in 1 .. n : (i - 1) % s = n % s}
    BY <2>1, <2>2 DEF OnCore, CoreOf
  <2>. QED  BY <2>3 DEF HasRoom
<1>3. n < s * l /\ s * l \in Nat
  <2>1. n < s * l  BY <1>2, InTurn
  <2>. QED  BY <2>1, Multiples
<1>4. Cardinality(AliveIn(contexts)) \in Nat /\ Cardinality(AliveIn(contexts)) <= n
  BY <1>1, AliveAre
<1>. QED  BY <1>1, <1>3, <1>4 DEF Places

LEMMA NewIs ==
  ASSUME NEW count \in Int, NEW enters \in BOOLEAN
  PROVE  /\ NewContext(count, enters) \in Contexts /\ NewContext(count, enters).alive
         /\ NewContext(count, enters).parent = 0 /\ NewContext(count, enters).sleep = 0
  BY DEF NewContext, Contexts

LEMMA LoadOK ==
  ASSUME StartupOK, Load
  PROVE  StartupOK'
<1>1. /\ phase = "load" /\ MoreToLoad
      /\ UNCHANGED <<argv, database, frames, execIndex, dump, known, left, at>>
      /\ UNCHANGED <<runs, planned, scanned, wiring, limit>>
  BY DEF Load, mainVars
<1>2. OptionsOK'  BY <1>1, OptionsKept DEF StartupOK
<1>3. CASE Loads /\ LoadProgram(NextProgram.text) /\ UNCHANGED phase
  <2>. PICK name, c, n : /\ name = NextProgram.text /\ n = Len(contexts)
                         /\ c = NewContext(Programs[name].skip, Programs[name].enters)
    OBVIOUS
  <2>1. name \in DOMAIN Programs /\ room > 0
    <3>1. name \in DOMAIN Programs  BY <1>3 DEF Loads, IsProgram
    <3>. QED  BY <1>1, <1>3, <3>1, RoomForNext DEF Loads
  <2>2. c \in Contexts /\ c.alive /\ c.parent = 0 /\ c.sleep = 0
    <3>1. Programs[name].skip \in Int /\ Programs[name].enters \in BOOLEAN
      BY <2>1, StartupAssumption
    <3>. QED  BY <3>1, NewIs
  <2>3. /\ contexts \in Seq(Contexts) /\ n \in Nat /\ DOMAIN contexts = 1 .. n
        /\ planned \in Nat /\ n < planned /\ room \in Nat
        /\ Places = scanned * limit /\ ListOK /\ at = 0
    BY <1>1 DEF StartupOK, MainOK, SkipOK, ContextsOK, MoreToLoad, Idle
  <2>4. contexts' = Append(contexts, c) /\ room' = room - 1  BY <1>3 DEF LoadProgram
  <2>5. Adds(contexts', contexts, c)  BY <2>2, <2>3, <2>4, AddIs
  <2>6. /\ contexts' \in Seq(Contexts) /\ Len(contexts') = n + 1 /\ contexts'[n + 1] = c
        /\ \A k \in 1 .. n : contexts'[k] = contexts[k]
        /\ Cardinality(AliveIn(contexts')) = Cardinality(AliveIn(contexts)) + 1
    BY <2>2, <2>5 DEF Adds
  <2>7. ContextsOK'
    <3>1. DOMAIN contexts' = 1 .. n + 1  BY <2>6
    <3>. SUFFICES ASSUME NEW i \in 1 .. n + 1
         PROVE  /\ contexts'[i].parent = 0 <=> i <= planned
                /\ contexts'[i].sleep > 0 => contexts'[i].slept
      BY <1>1, <2>6, <3>1 DEF ContextsOK
    <3>2. CASE i = n + 1  BY <2>2, <2>3, <2>6, <3>2
    <3>3. CASE i # n + 1
      <4>1. i \in 1 .. n  BY <2>3, <3>3
      <4>2. contexts'[i] = contexts[i] /\ i \in DOMAIN contexts  BY <2>3, <2>6, <4>1
      <4>. QED  BY <4>2 DEF StartupOK, SkipOK, ContextsOK
    <3>. QED  BY <3>2, <3>3
  <2>8. ListOK'
    <3>1. known' \in 0 .. Len(contexts')  BY <1>1, <2>3, <2>6 DEF ListOK
    <3>. QED  BY <1>1, <2>3, <3>1 DEF ListOK
  <2>9. room' \in Nat /\ Places' = scanned' * limit'
    <3>1. AliveIn(contexts)' = AliveIn(contexts')  BY DEF AliveIn
    <3>2. Cardinality(AliveIn(contexts)) \in Nat  BY <2>3, AliveAre
    <3>3. Places' = Places  BY <2>1, <2>3, <2>4, <2>6, <3>1, <3>2 DEF Places
    <3>. QED  BY <1>1, <2>1, <2>3, <2>4, <3>3
  <2>10. Len(contexts') <= planned'  BY <1>1, <2>3, <2>6
  <2>11. SkipOK'  BY <1>1, <1>3, <2>3, <2>7, <2>8, <2>9, <2>10 DEF SkipOK
  <2>12. MainOK'  BY <1>1, <1>3, MainKept DEF StartupOK, Idle, Phases
  <2>. QED  BY <1>2, <2>11, <2>12 DEF StartupOK
<1>4. CASE phase' = "refused" /\ UNCHANGED <<contexts, room, traceVars>>
  <2>1. MainOK'  BY <1>1, <1>4, MainIdle DEF StartupOK, MainOK, Idle
  <2>2. SkipOK'
    <3>1. UNCHANGED ffVars /\ SkipOK /\ at = 0  BY <1>1, <1>4 DEF ffVars, StartupOK, SkipOK
    <3>. QED  BY <1>1, <1>4, <3>1, SkipIdle
  <2>. QED  BY <1>2, <2>1, <2>2 DEF StartupOK
<1>. QED  BY <1>3, <1>4 DEF Load

(* A step to the next phase, or within one, that leaves the loop alone.    *)
LEMMA PhaseOK ==
  ASSUME StartupOK, UNCHANGED <<argv, database, frames, execIndex, dump>>,
         UNCHANGED <<runs, planned, scanned, wiring, limit>>, UNCHANGED ffVars,
         phase \notin Idle, phase' \in Phases \ {"scan", "skip", "load"}, at = 0,
         phase' = "exited" => freed' = CachesMade,
         phase' = "timed" => phase \in {"skip", "timed"} /\ NoneGoesOn
  PROVE  StartupOK'
<1>1. OptionsOK'  BY OptionsKept DEF StartupOK
<1>2. CachesMade' = CachesMade  BY SameWiring
<1>3. MainOK'  BY <1>2, MainKept DEF StartupOK
<1>4. SkipOK'  BY SkipKept DEF StartupOK
<1>. QED  BY <1>1, <1>3, <1>4 DEF StartupOK

LEMMA RegisterStatsOK ==
  ASSUME StartupOK, RegisterStats
  PROVE  StartupOK'
<1>1. /\ phase = "load" /\ UNCHANGED <<argv, database, frames, execIndex, dump>>
      /\ UNCHANGED <<runs, planned, scanned, wiring, limit>> /\ UNCHANGED ffVars
      /\ phase' \in {"registered", "refused"}
  BY DEF RegisterStats, mainVars
<1>2. at = 0  BY <1>1 DEF StartupOK, SkipOK
<1>. QED  BY <1>1, <1>2, PhaseOK DEF Idle, Phases

LEMMA QuitsOK ==
  ASSUME StartupOK, Quits
  PROVE  StartupOK'
<1>1. /\ phase = "registered" /\ UNCHANGED <<argv, database, frames, execIndex, dump>>
      /\ UNCHANGED <<runs, planned, scanned, wiring, limit>> /\ UNCHANGED ffVars
      /\ phase' = "exited" /\ freed' = CachesMade
  BY DEF Quits, mainVars
<1>2. at = 0  BY <1>1 DEF StartupOK, SkipOK
<1>. QED  BY <1>1, <1>2, PhaseOK DEF Idle, Phases

LEMMA ToSkipIs ==
  ASSUME NEW c \in Contexts, Fastfwd \in Int
  PROVE  /\ ToSkip(c) \in Contexts /\ ToSkip(c).alive = c.alive /\ ToSkip(c).parent = c.parent
         /\ ToSkip(c).sleep = c.sleep /\ ToSkip(c).slept = c.slept
         /\ Uniform => ToSkip(c).left = Fastfwd
  BY DEF ToSkip, Contexts

LEMMA StartSkipOK ==
  ASSUME StartupOK, StartSkip
  PROVE  StartupOK'
<1>1. /\ phase = "registered" /\ phase' = IF Crashes THEN "crashed" ELSE "skip"
      /\ contexts' = [i \in DOMAIN contexts |-> ToSkip(contexts[i])]
      /\ left' = [i \in DOMAIN contexts |-> i] /\ known' = Len(contexts)
      /\ UNCHANGED <<argv, database, frames, execIndex, dump>>
      /\ UNCHANGED <<runs, planned, scanned, wiring, limit, at, room>>
  BY DEF StartSkip, mainVars
<1>2. OptionsOK'  BY <1>1, OptionsKept DEF StartupOK
<1>3. MainOK'  BY <1>1, MainKept DEF StartupOK, Idle, Phases
<1>. PICK n : n = Len(contexts)  OBVIOUS
<1>4. /\ contexts \in Seq(Contexts) /\ n \in Nat /\ DOMAIN contexts = 1 .. n
      /\ planned \in Nat /\ room \in Nat /\ Places = scanned * limit /\ at = 0
      /\ Fastfwd \in Nat
  BY <1>1 DEF StartupOK, MainOK, SkipOK, ContextsOK, WiringInv, Idle
<1>5. /\ \A i \in 1 .. n : contexts[i] \in Contexts
      /\ \A i \in 1 .. n : contexts'[i] = ToSkip(contexts[i])
  BY <1>1, <1>4
<1>6. /\ DOMAIN contexts' = 1 .. n /\ contexts' \in Seq(Contexts) /\ Len(contexts') = n
      /\ \A i \in 1 .. n : /\ contexts'[i].alive = contexts[i].alive
                           /\ contexts'[i].parent = contexts[i].parent
                           /\ contexts'[i].sleep = contexts[i].sleep
                           /\ contexts'[i].slept = contexts[i].slept
                           /\ Uniform => contexts'[i].left = Fastfwd
  <2>1. \A i \in 1 .. n : ToSkip(contexts[i]) \in Contexts  BY <1>4, <1>5, ToSkipIs
  <2>2. contexts' \in [1 .. n -> Contexts]  BY <1>1, <1>4, <2>1
  <2>3. contexts' \in Seq(Contexts) /\ Len(contexts') = n /\ DOMAIN contexts' = 1 .. n
    BY <1>4, <2>2
  <2>. QED  BY <1>4, <1>5, <2>3, ToSkipIs
<1>7. ContextsOK'
  <2>1. \A i \in 1 .. n : /\ contexts[i].parent = 0 <=> i <= planned
                          /\ contexts[i].sleep > 0 => contexts[i].slept
    BY <1>4 DEF StartupOK, SkipOK, ContextsOK
  <2>. QED  BY <1>1, <1>6, <2>1, ZenonT(60) DEF ContextsOK
<1>. PICK list : list = [i \in 1 .. n |-> i]  OBVIOUS
<1>8. /\ left' = list /\ list \in Seq(1 .. n) /\ Len(list) = n /\ DOMAIN list = 1 .. n
      /\ \A i \in 1 .. n : list[i] = i
  BY <1>1, <1>4
<1>9. ListOK'
  <2>1. known' = n /\ known' \in 0 .. Len(contexts') /\ at' \in 0 .. Len(list)
    BY <1>1, <1>4, <1>6, <1>8
  <2>2. Ascends(list)  BY <1>8 DEF Ascends
  <2>3. left' \in Seq(1 .. known')  BY <1>8, <2>1
  <2>. QED  BY <1>8, <2>1, <2>2, <2>3, Zenon DEF ListOK
<1>10. Places' = scanned' * limit'
  <2>1. AliveIn(contexts)' = AliveIn(contexts)
    <3>1. AliveIn(contexts)' = {i \in 1 .. n : contexts'[i].alive}  BY <1>6 DEF AliveIn
    <3>2. AliveIn(contexts) = {i \in 1 .. n : contexts[i].alive}  BY <1>4 DEF AliveIn
    <3>. QED  BY <1>6, <3>1, <3>2
  <2>2. Places' = Places  BY <1>1, <2>1 DEF Places
  <2>. QED  BY <1>1, <1>4, <2>2
<1>11. ASSUME phase' = "skip"
       PROVE  planned' <= known' /\ (Uniform' /\ NeverSlept' => CountsOK')
  <2>1. ~Crashes  BY <1>1, <1>11
  <2>2. planned' <= known'
    <3>1. ~(Len(contexts) < planned)  BY <2>1 DEF Crashes
    <3>. QED  BY <1>1, <1>4, <3>1
  <2>3. ASSUME Uniform' PROVE CountsOK'
    <3>1. Uniform  BY <1>1, <2>3, SameWiring
    <3>2. \A i \in 1 .. n : contexts'[i].left = Fastfwd  BY <1>6, <3>1
    <3>3. \A i \in DOMAIN contexts' : contexts'[i].left >= 0 /\ i \in Listed'
      <4>1. Listed' = 1 .. n  BY <1>8 DEF Listed
      <4>. QED  BY <1>4, <1>6, <3>2, <4>1
    <3>4. \A k \in DOMAIN left' : Had(k)' = Fastfwd
      <4>. SUFFICES ASSUME NEW k \in DOMAIN left' PROVE Had(k)' = Fastfwd  OBVIOUS
      <4>1. k \in 1 .. n /\ left'[k] = k  BY <1>8
      <4>2. ~(k < at') /\ contexts'[left'[k]].left = Fastfwd  BY <1>1, <1>4, <3>2, <4>1
      <4>3. Had(k)' = contexts'[left'[k]].left + (IF k < at' THEN 1 ELSE 0)  BY DEF Had
      <4>. QED  BY <1>4, <4>2, <4>3
    <3>5. at' = 0  BY <1>1, <1>4
    <3>. QED  BY <3>3, <3>4, <3>5 DEF CountsOK
  <2>. QED  BY <2>2, <2>3
<1>12. SkipOK'  BY <1>1, <1>4, <1>7, <1>9, <1>10, <1>11 DEF SkipOK
<1>. QED  BY <1>2, <1>3, <1>12 DEF StartupOK

LEMMA SkipStepOK ==
  ASSUME StartupOK, Skip
  PROVE  StartupOK'
<1>1. /\ phase = "skip" /\ FFNext
      /\ UNCHANGED <<phase, argv, database, frames, execIndex, dump>>
      /\ UNCHANGED <<runs, planned, scanned, wiring, limit>>
  BY DEF Skip, optionVars, mainVars
<1>2. OptionsOK'  BY <1>1, OptionsKept DEF StartupOK
<1>3. MainOK'  BY <1>1, MainKept DEF StartupOK, Idle, Phases
<1>4. /\ ContextsOK /\ ListOK /\ room \in Nat /\ planned \in Nat /\ planned <= known
      /\ (Uniform /\ NeverSlept => CountsOK) /\ Places = scanned * limit
  BY <1>1 DEF StartupOK, MainOK, SkipOK, Idle
<1>5. Turn  BY <1>1, <1>4 DEF Turn
<1>6. Uniform' = Uniform  BY <1>1, SameWiring
<1>7. /\ ContextsOK' /\ ListOK' /\ planned' <= known' /\ room' \in Nat /\ Places' = Places
      /\ Uniform' /\ NeverSlept' => CountsOK'
  <2>1. CASE StartRound
    <3>1. ContextsOK' /\ ListOK' /\ planned' <= known' /\ (CountsOK => CountsOK')
      BY <1>1, <1>4, <2>1, StartRoundOK
    <3>2. contexts' = contexts /\ room' = room  BY <2>1 DEF StartRound
    <3>3. Places' = Places /\ (NeverSlept' => NeverSlept)
      BY <3>2 DEF Places, AliveIn, NeverSlept
    <3>. QED  BY <1>4, <1>6, <3>1, <3>2, <3>3
  <2>2. CASE ~StartRound
    <3>1. Fair
      BY <1>1, <1>5, <2>2, StayPendingFair, AsleepFair, PlainFair, ForkFair, WaitFair,
         SelectFair, SleepFair, ExitFair DEF FFNext
    <3>2. Visits /\ room' \in Nat /\ Places' = Places  BY <3>1 DEF Fair
    <3>3. /\ ContextsOK' /\ ListOK' /\ planned' <= known' /\ (NeverSlept' => NeverSlept)
          /\ CountsOK /\ NeverSlept' => CountsOK'
      BY <1>4, <3>2, VisitOK
    <3>. QED  BY <1>4, <1>6, <3>2, <3>3
  <2>. QED  BY <2>1, <2>2
<1>8. SkipOK'  BY <1>1, <1>4, <1>7 DEF SkipOK
<1>. QED  BY <1>2, <1>3, <1>8 DEF StartupOK

LEMMA StartTimingOK ==
  ASSUME StartupOK, StartTiming
  PROVE  StartupOK'
<1>1. /\ phase = "skip" /\ FFDone /\ UNCHANGED <<argv, database, frames, execIndex, dump>>
      /\ UNCHANGED <<runs, planned, scanned, wiring, limit>> /\ UNCHANGED ffVars
      /\ phase' = "timed"
  BY DEF StartTiming, mainVars
<1>2. at = 0 /\ NoneGoesOn  BY <1>1, RemainingIs DEF FFDone, StartupOK, SkipOK
<1>. QED  BY <1>1, <1>2, PhaseOK DEF Idle, Phases

(* The steps of the timed simulation.                                      *)
LEMMA TimedOK ==
  ASSUME StartupOK, Timed \/ TimedTrace \/ SampleCrashes \/ Finish
  PROVE  StartupOK'
<1>1. /\ phase = "timed" /\ UNCHANGED <<argv, database, frames, execIndex, dump>>
      /\ UNCHANGED <<runs, planned, scanned, wiring, limit>> /\ UNCHANGED ffVars
      /\ phase' \in {"timed", "crashed", "exited"}
      /\ phase' = "exited" => freed' = CachesMade
  BY DEF Timed, TimedTrace, SampleCrashes, Finish, optionVars, mainVars
<1>2. at = 0 /\ NoneGoesOn  BY <1>1 DEF StartupOK, SkipOK
<1>. QED  BY <1>1, <1>2, PhaseOK DEF Idle, Phases

LEMMA AgainOK ==
  ASSUME StartupOK, Again
  PROVE  StartupOK'
<1>1. /\ phase \in {"exited", "crashed"} /\ phase' = "scan" /\ runs' = 2 /\ dump' = dump
      /\ argv' = <<Opt("-config", Alone), Word(DumpFile)>> \o SubSeq(argv, execIndex, Len(argv))
      /\ database' = <<>> /\ frames' = <<>> /\ execIndex' = 0
      /\ contexts' = <<>> /\ left' = <<>> /\ known' = 0 /\ at' = 0 /\ room' = 0 /\ planned' = 0
  BY DEF Again, NothingYet
<1>2. argv \in Seq(Toks) /\ execIndex \in 1 .. Len(argv) /\ DumpOK
  BY <1>1 DEF StartupOK, OptionsOK, MainOK, Idle
<1>3. argv' \in Seq(Toks)
  <2>1. Opt("-config", Alone) \in Toks /\ Word(DumpFile) \in Toks
    <3>1. DumpFile \in STRING  BY FilesAssumption
    <3>2. DumpFile \in Texts  BY <3>1 DEF Texts
    <3>3. "-config" \in Texts  BY DEF Texts
    <3>4. Alone \in Int  BY DEF Alone
    <3>. QED  BY <3>2, <3>3, <3>4, SomeTokens
  <2>. PICK a, b, c : /\ a = Opt("-config", Alone) /\ b = Word(DumpFile)
                      /\ c = SubSeq(argv, execIndex, Len(argv))
    OBVIOUS
  <2>2. c \in Seq(Toks)
    <3>1. \A i \in execIndex .. Len(argv) : argv[i] \in Toks  BY <1>2
    <3>2. execIndex \in Int /\ Len(argv) \in Int  BY <1>2
    <3>. QED  BY <3>1, <3>2, SubSeqProperties
  <2>3. <<a, b>> \in Seq(Toks)  BY <2>1
  <2>. QED  BY <1>1, <2>2, <2>3
<1>4. OptionsOK'
  <2>1. DatabaseOK'  BY <1>1 DEF DatabaseOK
  <2>2. DumpOK'  BY <1>1, <1>2 DEF DumpOK
  <2>3. FramesFit(frames', argv', Len(dump'.lines))  BY <1>1 DEF FramesFit
  <2>4. execIndex' \in 0 .. Len(argv')  BY <1>1, <1>3
  <2>. QED  BY <1>3, <2>1, <2>2, <2>3, <2>4 DEF OptionsOK
<1>5. MainOK'  BY <1>1 DEF MainOK, Idle, Phases
<1>6. SkipOK'
  <2>1. ContextsOK' /\ ListOK'  BY <1>1, NothingLoaded
  <2>. QED  BY <1>1, <2>1 DEF SkipOK, Idle
<1>. QED  BY <1>4, <1>5, <1>6 DEF StartupOK

-----------------------------------------------------------------------------
(***************************************************************************)
(* The symbols of a program, and the search among them.                    *)
(***************************************************************************)
(* Ranks number a finite set of numbers.                                   *)
LEMMA Ranks ==
  ASSUME NEW S \in SUBSET Nat, IsFiniteSet(S)
  PROVE  /\ Cardinality(S) \in Nat
         /\ \A n \in S : Rank(S, n) \in 1 .. Cardinality(S) /\ Nth(S, Rank(S, n)) = n
         /\ \A k \in 1 .. Cardinality(S) : Nth(S, k) \in S /\ Rank(S, Nth(S, k)) = k
<1>. DEFINE up(n) == {m \in S : m <= n}
            T == 1 .. Cardinality(S)
            f == [n \in S |-> Rank(S, n)]
<1>1. Cardinality(S) \in Nat  BY FS_CardinalityType
<1>2. ASSUME NEW n \in S PROVE IsFiniteSet(up(n)) /\ Rank(S, n) \in T
  <2>1. up(n) \in SUBSET S /\ n \in up(n)  OBVIOUS
  <2>2. IsFiniteSet(up(n)) /\ Cardinality(up(n)) <= Cardinality(S)  BY <2>1, FS_Subset
  <2>3. Cardinality(up(n)) \in Nat /\ Cardinality(up(n)) # 0
    BY <2>1, <2>2, FS_CardinalityType, FS_EmptySet
  <2>4. Rank(S, n) = Cardinality(up(n))  BY DEF Rank
  <2>. HIDE DEF up
  <2>. QED  BY <1>1, <2>2, <2>3, <2>4
<1>3. ASSUME NEW n \in S, NEW m \in S, n < m PROVE Rank(S, n) < Rank(S, m)
  <2>1. up(n) \in SUBSET up(m) /\ m \in up(m) /\ m \notin up(n)
    <3>1. n \in Nat /\ m \in Nat /\ \A x \in S : x \in Nat  OBVIOUS
    <3>2. \A x \in S : x <= n => x <= m  BY <1>3, <3>1
    <3>3. m <= m  BY <3>1
    <3>5. \A x \in up(n) : x \in up(m)  BY <3>2
    <3>6. m \in up(m)  BY <3>3
    <3>4. ~(m <= n)  BY <1>3, <3>1
    <3>. QED  BY <3>4, <3>5, <3>6
  <2>2. IsFiniteSet(up(m)) /\ IsFiniteSet(up(n))  BY <1>2
  <2>3. Cardinality(up(n)) <= Cardinality(up(m)) /\ Cardinality(up(n)) # Cardinality(up(m))
    <3>. HIDE DEF up
    <3>. QED  BY <2>1, <2>2, FS_Subset
  <2>4. Rank(S, n) = Cardinality(up(n)) /\ Rank(S, m) = Cardinality(up(m))  BY DEF Rank
  <2>5. Cardinality(up(n)) \in Nat /\ Cardinality(up(m)) \in Nat  BY <2>2, FS_CardinalityType
  <2>. HIDE DEF up
  <2>. QED  BY <2>3, <2>4, <2>5
<1>4. \A n, m \in S : Rank(S, n) = Rank(S, m) => n = m
  <2>. SUFFICES ASSUME NEW n \in S, NEW m \in S, Rank(S, n) = Rank(S, m) PROVE n = m
    OBVIOUS
  <2>0. Rank(S, n) = Rank(S, m)  OBVIOUS
  <2>1. ~(Rank(S, n) < Rank(S, m)) /\ ~(Rank(S, m) < Rank(S, n))
    <3>1. Rank(S, n) \in T  BY <1>2
    <3>2. Rank(S, n) \in Int  BY <1>1, <3>1
    <3>. QED  BY <2>0, <3>2
  <2>2. ~(n < m) /\ ~(m < n)  BY <1>3, <2>1
  <2>. QED  BY <2>2
<1>5. IsFiniteSet(T) /\ Cardinality(T) = Cardinality(S)
  <2>1. 1 \in Int /\ Cardinality(S) \in Int  BY <1>1
  <2>2. IsFiniteSet(T) /\ Cardinality(T) = IF 1 > Cardinality(S) THEN 0 ELSE Cardinality(S) - 1 + 1
    BY <2>1, FS_Interval
  <2>. QED  BY <1>1, <2>2
<1>6. f \in Injection(S, T)
  <2>1. f \in [S -> T]  BY <1>2
  <2>2. \A n, m \in S : f[n] = f[m] => n = m  BY <1>4
  <2>. QED  BY <2>1, <2>2 DEF Injection, IsInjective
<1>7. f \in Surjection(S, T)
  <2>. HIDE DEF f, T
  <2>. QED  BY <1>5, <1>6, FS_Injection
<1>8. ASSUME NEW k \in T PROVE \E n \in S : Rank(S, n) = k
  BY <1>7 DEF Surjection
<1>9. \A k \in T : Nth(S, k) \in S /\ Rank(S, Nth(S, k)) = k
  BY <1>8 DEF Nth
<1>10. \A n \in S : Nth(S, Rank(S, n)) = n
  <2>. HIDE DEF T
  <2>. QED  BY <1>2, <1>4, <1>9
<1>. QED  BY <1>1, <1>2, <1>9, <1>10

LEMMA NamesFinite ==
  ASSUME NEW S, IsFiniteSet(S)
  PROVE  IsFiniteSet({s.name : s \in S})
<1>. DEFINE T == {s.name : s \in S}
            f == [s \in S |-> s.name]
<1>1. f \in Surjection(S, T)  BY DEF Surjection
<1>2. IsFiniteSet(T)
  <2>. HIDE DEF f, T
  <2>. QED  BY <1>1, FS_Surjection
<1>. QED  BY <1>2

(* A symbol table has every name once, in ascending order.                 *)
IsTable(table, syms) ==
  /\ Len(table) \in Nat /\ DOMAIN table = 1 .. Len(table)
  /\ \A k \in DOMAIN table : table[k] \in syms
  /\ \A j, k \in DOMAIN table : j < k => table[j].name < table[k].name

LEMMA SortedIs ==
  ASSUME NEW syms, IsFiniteSet(syms), syms \subseteq Symbols
  PROVE  IsTable(SortedByName(syms), syms)
<1>. DEFINE names == {s.name : s \in syms}
            n == Cardinality(names)
            t == SortedByName(syms)
<1>1. names \in SUBSET Nat /\ IsFiniteSet(names)  BY NamesFinite DEF Symbols
<1>2. /\ n \in Nat
      /\ \A k \in 1 .. n : Nth(names, k) \in names /\ Rank(names, Nth(names, k)) = k
  <2>. HIDE DEF names
  <2>. QED  BY <1>1, Ranks
<1>3. t = [k \in 1 .. n |-> CHOOSE s \in syms : s.name = Nth(names, k)]  BY DEF SortedByName
<1>4. t \in Seq(syms) /\ Len(t) = n /\ DOMAIN t = 1 .. n
      /\ \A k \in 1 .. n : t[k] \in syms /\ t[k].name = Nth(names, k)
  <2>1. ASSUME NEW k \in 1 .. n
        PROVE  LET s == CHOOSE s \in syms : s.name = Nth(names, k) IN
               s \in syms /\ s.name = Nth(names, k)
    <3>1. \E s \in syms : s.name = Nth(names, k)  BY <1>2
    <3>. HIDE DEF names
    <3>. QED  BY <3>1
  <2>. HIDE DEF names, n, t
  <2>2. DOMAIN t = 1 .. n /\ \A k \in 1 .. n : t[k] \in syms /\ t[k].name = Nth(names, k)
    BY <1>3, <2>1
  <2>3. t = [k \in 1 .. n |-> t[k]]  BY <1>3
  <2>. QED  BY <1>2, <2>2, <2>3
<1>5. ASSUME NEW j \in 1 .. n, NEW k \in 1 .. n, j < k
      PROVE  Nth(names, j) < Nth(names, k)
  <2>1. SUFFICES ASSUME ~(Nth(names, j) < Nth(names, k)) PROVE FALSE  OBVIOUS
  <2>. DEFINE up(x) == {m \in names : m <= x}
  <2>2. Nth(names, j) \in Nat /\ Nth(names, k) \in Nat /\ Nth(names, k) <= Nth(names, j)
    BY <1>1, <1>2, <2>1, SMTT(30)
  <2>3. up(Nth(names, k)) \subseteq up(Nth(names, j))
    <3>1. \A m \in names : m \in Nat  BY <1>1
    <3>. HIDE DEF names
    <3>. QED  BY <2>2, <3>1
  <2>4. IsFiniteSet(up(Nth(names, j)))
    <3>. HIDE DEF names
    <3>1. up(Nth(names, j)) \subseteq names  OBVIOUS
    <3>. QED  BY <1>1, <3>1, FS_Subset
  <2>5. Cardinality(up(Nth(names, k))) <= Cardinality(up(Nth(names, j)))
    <3>. HIDE DEF up
    <3>. QED  BY <2>3, <2>4, FS_Subset
  <2>6. Cardinality(up(Nth(names, k))) = k /\ Cardinality(up(Nth(names, j))) = j
    BY <1>2 DEF Rank
  <2>. QED  BY <1>5, <2>5, <2>6
<1>. QED  BY <1>2, <1>4, <1>5 DEF IsTable

(* The binary search finds the place of a name (sym_bind_name).            *)
LEMMA BindNameIs ==
  ASSUME NEW table, NEW syms, syms \subseteq Symbols, IsTable(table, syms), NEW name \in Int
  PROVE  LET k == BindName(table, name) IN
         IF k = 0 THEN \A j \in DOMAIN table : table[j].name # name
         ELSE k \in DOMAIN table /\ table[k].name = name
<1>. DEFINE n == Len(table)
            D == (1 .. n + 1) \X (0 .. n)
            Mid(p) == (p[1] + p[2]) \div 2
            At1(p) == {k \in p[1] .. p[2] : table[k].name = name}
            P(g) == g = [part \in D |->
                           LET pos == (part[1] + part[2]) \div 2 IN
                           IF part[1] > part[2] THEN 0
                           ELSE IF table[pos].name = name THEN pos
                           ELSE IF table[pos].name > name THEN g[<<part[1], pos - 1>>]
                                ELSE g[<<pos + 1, part[2]>>]]
            w == [p \in D |-> IF At1(p) = {} THEN 0 ELSE CHOOSE k \in At1(p) : TRUE]
            f == CHOOSE g : P(g)
<1>1. /\ n \in Nat /\ DOMAIN table = 1 .. n
      /\ \A k \in 1 .. n : table[k].name \in Int
      /\ \A j, k \in 1 .. n : j < k => table[j].name < table[k].name
  BY DEF IsTable, Symbols
<1>2. BindName(table, name) = f[<<1, n>>]  BY Zenon DEF BindName
<1>. HIDE DEF n
<1>3. ASSUME NEW p \in D, p[1] <= p[2]
      PROVE  /\ Mid(p) \in p[1] .. p[2] /\ Mid(p) \in 1 .. n
             /\ <<p[1], Mid(p) - 1>> \in D /\ <<Mid(p) + 1, p[2]>> \in D
  BY <1>1, <1>3
<1>4. ASSUME NEW p \in D
      PROVE  /\ At1(p) \subseteq 1 .. n
             /\ \A j, k \in At1(p) : j = k
             /\ p[1] > p[2] => At1(p) = {}
             /\ p[1] <= p[2] /\ table[Mid(p)].name = name => Mid(p) \in At1(p)
             /\ p[1] <= p[2] /\ table[Mid(p)].name > name => At1(p) = At1(<<p[1], Mid(p) - 1>>)
             /\ p[1] <= p[2] /\ table[Mid(p)].name < name => At1(p) = At1(<<Mid(p) + 1, p[2]>>)
  <2>0. p[1] \in 1 .. n + 1 /\ p[2] \in 0 .. n  OBVIOUS
  <2>1. At1(p) \subseteq 1 .. n  BY <1>1, <2>0
  <2>2. \A j, k \in At1(p) : j = k
    <3>. SUFFICES ASSUME NEW j \in At1(p), NEW k \in At1(p) PROVE j = k  OBVIOUS
    <3>1. j \in 1 .. n /\ k \in 1 .. n  BY <2>1
    <3>2. table[j].name = name /\ table[k].name = name  OBVIOUS
    <3>3. ~(j < k) /\ ~(k < j)  BY <1>1, <3>1, <3>2
    <3>. QED  BY <3>1, <3>3
  <2>3. p[1] > p[2] => At1(p) = {}  BY <1>1, <2>0
  <2>4. ASSUME p[1] <= p[2]
        PROVE  /\ table[Mid(p)].name = name => Mid(p) \in At1(p)
               /\ table[Mid(p)].name > name => At1(p) = At1(<<p[1], Mid(p) - 1>>)
               /\ table[Mid(p)].name < name => At1(p) = At1(<<Mid(p) + 1, p[2]>>)
    <3>1. PICK m : m = Mid(p)  OBVIOUS
    <3>2. m \in p[1] .. p[2] /\ m \in 1 .. n  BY <1>3, <2>4, <3>1
    <3>3. ASSUME table[m].name > name, NEW k \in p[1] .. p[2], table[k].name = name
          PROVE  k < m
      BY <1>1, <2>0, <3>2, <3>3
    <3>4. ASSUME table[m].name < name, NEW k \in p[1] .. p[2], table[k].name = name
          PROVE  k > m
      BY <1>1, <2>0, <3>2, <3>4
    <3>5. table[m].name = name => m \in At1(p)  BY <3>2
    <3>6. table[m].name > name => At1(p) = At1(<<p[1], m - 1>>)  BY <1>1, <2>0, <3>2, <3>3
    <3>7. table[m].name < name => At1(p) = At1(<<m + 1, p[2]>>)  BY <1>1, <2>0, <3>2, <3>4
    <3>. QED  BY <3>1, <3>5, <3>6, <3>7
  <2>. QED  BY <2>1, <2>2, <2>3, <2>4
<1>5. \A p \in D : w[p] = IF At1(p) = {} THEN 0 ELSE CHOOSE k \in At1(p) : TRUE  OBVIOUS
<1>. DEFINE Step(g, p) == LET pos == (p[1] + p[2]) \div 2 IN
                          IF p[1] > p[2] THEN 0
                          ELSE IF table[pos].name = name THEN pos
                          ELSE IF table[pos].name > name THEN g[<<p[1], pos - 1>>]
                               ELSE g[<<pos + 1, p[2]>>]
<1>6. ASSUME NEW p \in D PROVE w[p] = Step(w, p)
  <2>1. CASE p[1] > p[2]  BY <1>4, <1>5, <2>1
  <2>2. CASE p[1] <= p[2]
    <3>1. table[Mid(p)].name \in Int  BY <1>1, <1>3, <2>2
    <3>2. CASE table[Mid(p)].name = name
      <4>1. Mid(p) \in At1(p) /\ At1(p) # {}  BY <1>4, <2>2, <3>2
      <4>2. w[p] = Mid(p)
        <5>. HIDE DEF w, At1, Mid
        <5>. QED  BY <1>4, <1>5, <4>1
      <4>. QED  BY <2>2, <3>2, <4>2
    <3>3. CASE table[Mid(p)].name > name
      <4>1. At1(p) = At1(<<p[1], Mid(p) - 1>>) /\ <<p[1], Mid(p) - 1>> \in D
        BY <1>3, <1>4, <2>2, <3>3
      <4>2. w[p] = w[<<p[1], Mid(p) - 1>>]
        <5>. HIDE DEF w, At1, Mid, D
        <5>. QED  BY <1>5, <4>1
      <4>. QED  BY <2>2, <3>3, <4>2
    <3>4. CASE table[Mid(p)].name < name
      <4>1. At1(p) = At1(<<Mid(p) + 1, p[2]>>) /\ <<Mid(p) + 1, p[2]>> \in D
        BY <1>3, <1>4, <2>2, <3>4
      <4>2. w[p] = w[<<Mid(p) + 1, p[2]>>]
        <5>. HIDE DEF w, At1, Mid, D
        <5>. QED  BY <1>5, <4>1
      <4>3. ~(table[Mid(p)].name > name) /\ table[Mid(p)].name # name  BY <3>1, <3>4
      <4>4. ~(p[1] > p[2])  BY <2>2
      <4>. HIDE DEF w
      <4>. QED  BY <4>2, <4>3, <4>4
    <3>5. \A x, y \in Int : x = y \/ x > y \/ x < y  OBVIOUS
    <3>6. table[Mid(p)].name = name \/ table[Mid(p)].name > name \/ table[Mid(p)].name < name
      <4>. HIDE DEF Mid
      <4>. QED  BY <3>1, <3>5
    <3>. QED  BY <3>2, <3>3, <3>4, <3>6, Zenon
  <2>. QED  BY <2>1, <2>2
<1>7. \A g : P(g) <=> g = [p \in D |-> Step(g, p)]  OBVIOUS
<1>8. P(w)
  <2>1. w = [p \in D |-> w[p]]  OBVIOUS
  <2>. HIDE DEF w, P, Step, D
  <2>2. [p \in D |-> w[p]] = [p \in D |-> Step(w, p)]  BY <1>6
  <2>. QED  BY <1>7, <2>1, <2>2
<1>9. P(f)
  <2>. HIDE DEF P
  <2>. QED  BY <1>8
<1>10. \A p \in D : f[p] = Step(f, p)
  <2>1. f = [p \in D |-> Step(f, p)]  BY <1>7, <1>9
  <2>. HIDE DEF f, Step, D
  <2>. QED  BY <2>1, SMTT(30)
<1>. HIDE DEF f, w, P
<1>11. \A p \in D : f[p] = w[p]
  <2>. DEFINE Size(p) == p[2] - p[1] + n + 1
              B == {p \in D : f[p] # w[p]}
  <2>1. \A p \in D : Size(p) \in Nat  BY <1>1
  <2>2. SUFFICES ASSUME B # {} PROVE FALSE  OBVIOUS
  <2>3. PICK p \in B : \A q \in B : Size(p) <= Size(q)
    <3>. DEFINE T == {Size(q) : q \in B}
    <3>1. T \subseteq Nat /\ T # {}  BY <2>1, <2>2
    <3>2. PICK x \in T : \A y \in T : x <= y
      <4>. HIDE DEF T
      <4>. QED  BY <3>1, LeastNumber
    <3>3. PICK p \in B : x = Size(p)  BY <3>2
    <3>4. \A q \in B : Size(q) \in T  OBVIOUS
    <3>. QED  BY <3>2, <3>3, <3>4
  <2>4. p \in D /\ f[p] # w[p]  BY <2>3
  <2>5. ASSUME NEW q \in D, Size(q) < Size(p) PROVE f[q] = w[q]
    <3>1. Size(q) \in Nat /\ Size(p) \in Nat /\ ~(Size(p) <= Size(q))  BY <2>1, <2>4, <2>5
    <3>2. q \notin B  BY <2>3, <3>1
    <3>. QED  BY <3>2
  <2>6. f[p] = Step(f, p) /\ w[p] = Step(w, p)  BY <1>6, <1>10, <2>4
  <2>7. CASE p[1] > p[2]  BY <2>4, <2>6, <2>7
  <2>8. CASE p[1] <= p[2]
    <3>1. /\ <<p[1], Mid(p) - 1>> \in D /\ <<Mid(p) + 1, p[2]>> \in D /\ Mid(p) \in p[1] .. p[2]
      BY <1>3, <2>4, <2>8
    <3>2. /\ Size(<<p[1], Mid(p) - 1>>) < Size(p) /\ Size(<<Mid(p) + 1, p[2]>>) < Size(p)
      <4>. PICK a, b, m : a = p[1] /\ b = p[2] /\ m = Mid(p)  OBVIOUS
      <4>1. a \in Int /\ b \in Int /\ n \in Int  BY <1>1, <2>4
      <4>2. m \in Int /\ a <= m /\ m <= b  BY <3>1, <4>1
      <4>3. Size(p) = b - a + n + 1  OBVIOUS
      <4>4. Size(<<a, m - 1>>) = m - 1 - a + n + 1 /\ Size(<<m + 1, b>>) = b - (m + 1) + n + 1
        OBVIOUS
      <4>5. m - 1 - a + n + 1 < b - a + n + 1 /\ b - (m + 1) + n + 1 < b - a + n + 1
        BY <4>1, <4>2
      <4>. QED  BY <4>3, <4>4, <4>5
    <3>3. /\ f[<<p[1], Mid(p) - 1>>] = w[<<p[1], Mid(p) - 1>>]
          /\ f[<<Mid(p) + 1, p[2]>>] = w[<<Mid(p) + 1, p[2]>>]
      BY <2>5, <3>1, <3>2
    <3>. QED  BY <2>4, <2>6, <3>3
  <2>. QED  BY <1>1, <2>4, <2>7, <2>8
<1>12. <<1, n>> \in D  BY <1>1
<1>13. BindName(table, name) = w[<<1, n>>]  BY <1>2, <1>11, <1>12
<1>14. At1(<<1, n>>) = {k \in 1 .. n : table[k].name = name}  OBVIOUS
<1>15. CASE At1(<<1, n>>) = {}
  <2>1. w[<<1, n>>] = 0  BY <1>5, <1>12, <1>15
  <2>. QED  BY <1>1, <1>13, <1>14, <1>15, <2>1
<1>16. CASE At1(<<1, n>>) # {}
  <2>1. w[<<1, n>>] \in At1(<<1, n>>)
    <3>. HIDE DEF At1
    <3>. QED  BY <1>5, <1>12, <1>16
  <2>2. w[<<1, n>>] \in 1 .. n /\ table[w[<<1, n>>]].name = name  BY <1>14, <2>1
  <2>. QED  BY <1>1, <1>13, <2>2
<1>. QED  BY <1>15, <1>16

-----------------------------------------------------------------------------
(***************************************************************************)
(* The cycles that are traced.                                             *)
(***************************************************************************)
(* What a cycle makes of the first stretch of those in the range.          *)
LEMMA StretchGrows ==
  ASSUME NEW n \in Nat, NEW in \in SUBSET (1 .. n)
  PROVE  /\ FirstStretch(in) \subseteq 0 .. n - 1
         /\ FirstStretch(in \cup {n + 1}) =
              IF in = {} \/ n - 1 \in FirstStretch(in) THEN FirstStretch(in) \cup {n}
              ELSE FirstStretch(in)
<1>. DEFINE First(s) == {i \in s : \A j \in s : j < i => j .. i \subseteq s}
            s2 == in \cup {n + 1}
<1>1. \A s : FirstStretch(s) = {k - 1 : k \in First(s)}  BY DEF FirstStretch
<1>2. First(in) \subseteq 1 .. n  OBVIOUS
<1>3. FirstStretch(in) \subseteq 0 .. n - 1
  <2>. HIDE DEF First
  <2>. QED  BY <1>1, <1>2
<1>4. n - 1 \in FirstStretch(in) <=> n \in First(in)
  <2>. HIDE DEF First
  <2>1. \A k \in First(in) : k - 1 = n - 1 => k = n  BY <1>2
  <2>. QED  BY <1>1, <2>1
<1>5. ASSUME NEW i \in 1 .. n
      PROVE  i \in First(s2) <=> i \in First(in)
  <2>1. i \in s2 <=> i \in in  OBVIOUS
  <2>2. \A j \in s2 : j < i => j \in in  OBVIOUS
  <2>3. \A j \in in : j .. i \subseteq s2 <=> j .. i \subseteq in  OBVIOUS
  <2>. QED  BY <2>1, <2>2, <2>3
<1>6. n + 1 \in First(s2) <=> in = {} \/ n \in First(in)
  <2>1. n + 1 \in First(s2) <=> \A j \in in : j .. n \subseteq in
    <3>1. \A j \in s2 : j < n + 1 <=> j \in in  OBVIOUS
    <3>2. \A j \in in : j .. n + 1 \subseteq s2 <=> j .. n \subseteq in
      <4>. SUFFICES ASSUME NEW j \in in
           PROVE  j .. n + 1 \subseteq s2 <=> j .. n \subseteq in
        OBVIOUS
      <4>1. j .. n + 1 = (j .. n) \cup {n + 1}  OBVIOUS
      <4>2. n + 1 \notin j .. n  OBVIOUS
      <4>. QED  BY <4>1, <4>2
    <3>. QED  BY <3>1, <3>2
  <2>2. ASSUME \A j \in in : j .. n \subseteq in, in # {} PROVE n \in First(in)
    <3>1. PICK j \in in : TRUE  BY <2>2
    <3>2. n \in j .. n  OBVIOUS
    <3>3. n \in in  BY <2>2, <3>2
    <3>. QED  BY <2>2, <3>3
  <2>3. ASSUME n \in First(in) PROVE \A j \in in : j .. n \subseteq in
    <3>. SUFFICES ASSUME NEW j \in in PROVE j .. n \subseteq in  OBVIOUS
    <3>1. n \in in /\ (j < n => j .. n \subseteq in)  BY <2>3
    <3>2. j \in 1 .. n  OBVIOUS
    <3>3. CASE j = n  BY <3>1, <3>3
    <3>. QED  BY <3>1, <3>2, <3>3
  <2>. QED  BY <2>1, <2>2, <2>3
<1>7. First(s2) \subseteq 1 .. n + 1
  <2>1. s2 \subseteq 1 .. n + 1  OBVIOUS
  <2>2. First(s2) \subseteq s2  OBVIOUS
  <2>. HIDE DEF First, s2
  <2>. QED  BY <2>1, <2>2
<1>8. First(s2) = IF in = {} \/ n \in First(in) THEN First(in) \cup {n + 1} ELSE First(in)
  <2>1. n + 1 \notin 1 .. n /\ 1 .. n + 1 = (1 .. n) \cup {n + 1}  OBVIOUS
  <2>. HIDE DEF First
  <2>. QED  BY <1>2, <1>5, <1>6, <1>7, <2>1
<1>9. {k - 1 : k \in First(in) \cup {n + 1}} = {k - 1 : k \in First(in)} \cup {n}
  <2>1. n + 1 - 1 = n  OBVIOUS
  <2>. HIDE DEF First
  <2>. QED  BY <2>1
<1>. HIDE DEF First
<1>. QED  BY <1>1, <1>3, <1>4, <1>8, <1>9

Marks == [addr : 0 .. Endless, cycle : 0 .. Endless, inst : 0 .. Endless]
InRange == {k \in DOMAIN visited : Inside(trace.range, visited[k])}
VisitsOK ==
  /\ visited \in Seq(Marks)
  /\ trace \in [open : BOOLEAN, range : {trace.range}, active : BOOLEAN, oneshot : BOOLEAN]
  /\ traced = FirstStretch(InRange)
  /\ trace.oneshot <=> InRange # {}
  /\ trace.active <=> Len(visited) - 1 \in traced

LEMMA NoVisits ==
  ASSUME visited = <<>>, traced = {}, ~trace.active, ~trace.oneshot,
         trace \in [open : BOOLEAN, range : {trace.range}, active : BOOLEAN, oneshot : BOOLEAN]
  PROVE  VisitsOK
<1>1. InRange = {}  BY DEF InRange
<1>2. FirstStretch({}) = {}  BY DEF FirstStretch
<1>. QED  BY <1>1, <1>2 DEF VisitsOK

LEMMA CycleOK ==
  ASSUME VisitsOK, NEW pc \in Addresses, NEW n \in Renames, TraceCycle(pc, n)
  PROVE  VisitsOK' /\ trace'.open = trace.open /\ trace'.range = trace.range
<1>. DEFINE m == Len(visited)
            mark == At(pc, n)
            inside == Inside(trace.range, mark)
<1>1. /\ visited \in Seq(Marks) /\ m \in Nat /\ DOMAIN visited = 1 .. m /\ m < MostCycles
      /\ visited' = Append(visited, mark) /\ mark.inst <= Endless
      /\ trace' = [trace EXCEPT !.active = Active(inside), !.oneshot = @ \/ inside]
      /\ traced' = IF Active(inside) THEN traced \cup {m} ELSE traced
  BY DEF VisitsOK, TraceCycle
<1>. HIDE DEF mark
<1>2. mark \in Marks
  <2>1. pc \in 0 .. Endless  BY StartupAssumption
  <2>2. m \in 0 .. Endless
    <3>1. MostCycles \in Nat /\ Endless \in Nat /\ MostCycles <= Endless  BY TraceAssumption
    <3>. HIDE DEF m
    <3>. QED  BY <1>1, <3>1
  <2>3. (IF visited = <<>> THEN 0 ELSE visited[m].inst + n) \in Nat
    <3>1. n \in Nat  BY TraceAssumption
    <3>2. CASE visited # <<>>
      <4>1. m \in DOMAIN visited  BY <1>1, <3>2
      <4>2. visited[m] \in Marks  BY <1>1, <4>1
      <4>3. visited[m].inst \in Nat  BY <4>2 DEF Marks
      <4>. QED  BY <3>1, <3>2, <4>3
    <3>. QED  BY <3>2
  <2>4. mark.inst \in 0 .. Endless
    <3>1. mark.inst = IF visited = <<>> THEN 0 ELSE visited[m].inst + n  BY DEF mark, At
    <3>2. Endless \in Nat  BY TraceAssumption
    <3>. QED  BY <1>1, <2>3, <3>1, <3>2
  <2>5. mark = [addr |-> pc, cycle |-> m, inst |-> mark.inst]  BY DEF mark, At
  <2>. HIDE DEF m
  <2>. QED  BY <2>1, <2>2, <2>4, <2>5 DEF Marks
<1>3. inside \in BOOLEAN  BY DEF Inside
<1>4. /\ trace'.open = trace.open /\ trace'.range = trace.range
      /\ trace'.active = Active(inside) /\ trace'.oneshot = (trace.oneshot \/ inside)
      /\ trace' \in [open : BOOLEAN, range : {trace'.range}, active : BOOLEAN, oneshot : BOOLEAN]
  <2>1. Active(inside) \in BOOLEAN /\ (trace.oneshot \/ inside) \in BOOLEAN
    BY <1>3 DEF Active
  <2>. HIDE DEF inside
  <2>2. trace \in [open : BOOLEAN, range : {trace.range}, active : BOOLEAN, oneshot : BOOLEAN]
    BY DEF VisitsOK
  <2>. QED  BY <1>1, <2>1, <2>2
<1>5. /\ visited' \in Seq(Marks) /\ Len(visited') = m + 1 /\ DOMAIN visited' = 1 .. m + 1
      /\ visited'[m + 1] = mark /\ \A k \in 1 .. m : visited'[k] = visited[k]
  BY <1>1, <1>2, AppendProperties
<1>6. InRange \in SUBSET (1 .. m)  BY <1>1 DEF InRange
<1>7. InRange' = IF inside THEN InRange \cup {m + 1} ELSE InRange
  <2>1. InRange' = {k \in 1 .. m + 1 : Inside(trace.range, visited'[k])}
    BY <1>4, <1>5 DEF InRange, Inside
  <2>2. InRange = {k \in 1 .. m : Inside(trace.range, visited[k])}  BY <1>1 DEF InRange
  <2>3. 1 .. m + 1 = (1 .. m) \cup {m + 1} /\ m + 1 \notin 1 .. m  BY <1>1
  <2>. HIDE DEF m
  <2>. QED  BY <1>5, <2>1, <2>2, <2>3
<1>8. /\ FirstStretch(InRange) \subseteq 0 .. m - 1
      /\ FirstStretch(InRange \cup {m + 1}) =
           IF InRange = {} \/ m - 1 \in FirstStretch(InRange) THEN FirstStretch(InRange) \cup {m}
           ELSE FirstStretch(InRange)
  <2>. HIDE DEF m
  <2>. QED  BY <1>1, <1>6, StretchGrows
<1>9. Active(inside) <=> inside /\ (InRange = {} \/ m - 1 \in FirstStretch(InRange))
  BY DEF Active, VisitsOK
<1>10. traced = FirstStretch(InRange) /\ (trace.oneshot <=> InRange # {})  BY DEF VisitsOK
<1>. HIDE DEF inside
<1>11. traced' = FirstStretch(InRange')  BY <1>1, <1>7, <1>8, <1>9, <1>10
<1>12. trace'.oneshot <=> InRange' # {}  BY <1>4, <1>7, <1>10
<1>13. trace'.active <=> Len(visited') - 1 \in traced'
  <2>1. m \notin FirstStretch(InRange) /\ m + 1 - 1 = m  BY <1>1, <1>8
  <2>. QED  BY <1>1, <1>4, <1>5, <1>10, <2>1
<1>14. FirstStretch(InRange)' = FirstStretch(InRange')  BY DEF FirstStretch
<1>. QED  BY <1>4, <1>5, <1>11, <1>12, <1>13, <1>14 DEF VisitsOK

(* What a range says, and what it was meant to.                            *)
LEMMA TableIs ==
  ASSUME NEW program \in DOMAIN SymbolsOf
  PROVE  IsTable(TableOf(program), ToSet(SymbolsOf[program])) /\ ToSet(SymbolsOf[program]) \subseteq Symbols
<1>. DEFINE s == SymbolsOf[program]
            R == {x \in ToSet(s) : Relevant(x)}
<1>1. s \in Seq(Symbols)  BY TraceAssumption
<1>. HIDE DEF s
<1>2. ToSet(s) = {s[i] : i \in DOMAIN s}  BY DEF ToSet
<1>3. ToSet(s) \subseteq Symbols  BY <1>1, <1>2
<1>4. IsFiniteSet(ToSet(s))
  <2>1. IsFiniteSet(DOMAIN s)
    <3>1. Len(s) \in Nat /\ DOMAIN s = 1 .. Len(s)  BY <1>1
    <3>2. 1 \in Int /\ Len(s) \in Int  BY <3>1
    <3>. QED  BY <3>1, <3>2, FS_Interval
  <2>2. s \in Surjection(DOMAIN s, ToSet(s))
    <3>1. s \in [DOMAIN s -> ToSet(s)]  BY <1>1, <1>2
    <3>. QED  BY <1>2, <3>1 DEF Surjection
  <2>. QED  BY <2>1, <2>2, FS_Surjection
<1>5. R \subseteq ToSet(s) /\ IsFiniteSet(R)  BY <1>4, FS_Subset
<1>6. TableOf(program) = SortedByName(R)  BY DEF TableOf, s
<1>. HIDE DEF R
<1>7. IsTable(SortedByName(R), R)  BY <1>3, <1>5, SortedIs
<1>8. IsTable(TableOf(program), ToSet(s))  BY <1>5, <1>6, <1>7 DEF IsTable
<1>. QED  BY <1>3, <1>8 DEF s

LEMMA EndStands ==
  ASSUME NEW end \in Ends, NEW program \in DOMAIN SymbolsOf, NEW table, Parses(end, table),
         end.kind = "symbol" => table = TableOf(program)
  PROVE  /\ ParsePos(end, table) = Position(TypeOf(end.sort), Stands(end, program))
         /\ Stands(end, program) \in Int
<1>0. end.v \in Int  BY DEF Ends
<1>1. CASE end.kind # "symbol"  BY <1>0, <1>1 DEF ParsePos, Stands
<1>2. CASE end.kind = "symbol"
  <2>. DEFINE s == SymbolsOf[program]
              k == BindName(table, end.v)
  <2>1. /\ IsTable(table, ToSet(s)) /\ ToSet(s) \subseteq Symbols /\ k # 0
        /\ s \in Seq(Symbols) /\ \A i, j \in DOMAIN s : s[i].name = s[j].name => i = j
    BY <1>2, TableIs, TraceAssumption DEF Parses
  <2>2. k \in DOMAIN table /\ table[k].name = end.v
    <3>. HIDE DEF s
    <3>. QED  BY <1>0, <2>1, BindNameIs
  <2>3. table[k] \in ToSet(s) /\ table[k] \in Symbols  BY <2>1, <2>2 DEF IsTable
  <2>. HIDE DEF s, k
  <2>4. \A x, y \in ToSet(s) : x.name = y.name => x = y  BY <2>1 DEF ToSet
  <2>5. (CHOOSE x \in ToSet(s) : x.name = end.v) = table[k]  BY <2>2, <2>3, <2>4
  <2>6. Stands(end, program) = table[k].addr  BY <1>2, <2>5 DEF Stands, s
  <2>7. ParsePos(end, table) = Position(TypeOf(end.sort), table[k].addr)
    BY <1>2 DEF ParsePos, k
  <2>. QED  BY <2>3, <2>6, <2>7 DEF Symbols
<1>. QED  BY <1>1, <1>2

LEMMA ReadAsMeant ==
  ASSUME NEW word \in DOMAIN Ranges, NEW program \in DOMAIN SymbolsOf, NEW table,
         CanTrace(word, table), NeedsSymbols(Ranges[word]) => table = TableOf(program),
         NEW mark \in Marks
  PROVE  Inside([start |-> Start(Ranges[word], table), end |-> End(Ranges[word], table)], mark)
           <=> MeantBy(Ranges[word], program, mark)
<1>. DEFINE range == Ranges[word]
            type == TypeOf(range.from.sort)
            from == MeantStart(range, program)
            to == Stands(range.to, program)
<1>1. /\ range.from \in Ends /\ range.to \in Ends
      /\ range.from.kind = "blank" => range.from.sort = ""
      /\ Parses(range.from, table) /\ Parses(range.to, table)
      /\ range.from.kind = "symbol" \/ range.to.kind = "symbol" => table = TableOf(program)
  <2>1. range \in [from : Ends, to : Ends] /\ (range.from.kind = "blank" => range.from.sort = "")
    BY TraceAssumption
  <2>. QED  BY <2>1 DEF CanTrace, NeedsSymbols
<1>. HIDE DEF range
<1>2. Start(range, table) = Position(type, from) /\ from \in Int
  <2>1. CASE range.from.kind = "blank"
    <3>1. TypeOf("") = "inst"  BY DEF TypeOf
    <3>2. type = "inst"  BY <1>1, <2>1, <3>1
    <3>3. from = 0 /\ Start(range, table) = Position("inst", 0)  BY <2>1 DEF Start, MeantStart
    <3>. QED  BY <3>2, <3>3
  <2>2. CASE range.from.kind # "blank"
    BY <1>1, <2>2, EndStands DEF Start, MeantStart
  <2>. QED  BY <2>1, <2>2
<1>3. range.to.kind # "blank" => /\ ParsePos(range.to, table) = Position(TypeOf(range.to.sort), to)
                                 /\ to \in Int
  BY <1>1, EndStands
<1>4. mark[type] \in 0 .. Endless /\ Endless \in Nat
  <2>1. range.from.sort \in {"@", "#", "+", ""}  BY <1>1 DEF Ends
  <2>2. type \in {"addr", "cycle", "inst"}  BY <2>1 DEF TypeOf
  <2>. HIDE DEF type
  <2>. QED  BY <2>2, TraceAssumption DEF Marks
<1>. HIDE DEF type, from, to
<1>5. Start(range, table).type = type /\ Start(range, table).pos = from  BY <1>2 DEF Position
<1>6. End(range, table).pos = IF range.to.kind = "blank" THEN Endless
                              ELSE IF range.to.sort = "+" THEN from + to ELSE to
  <2>1. CASE range.to.kind = "blank"  BY <2>1 DEF End, Position
  <2>2. CASE range.to.kind # "blank" /\ range.to.sort = "+"
    <3>1. range.to.kind = "number"  BY <1>1, <2>2 DEF Parses
    <3>2. to = range.to.v  BY <3>1 DEF to, Stands
    <3>3. End(range, table).pos = Start(range, table).pos + range.to.v  BY <2>2 DEF End, Position
    <3>. QED  BY <1>5, <2>2, <3>2, <3>3
  <2>3. CASE range.to.kind # "blank" /\ range.to.sort # "+"
    <3>1. End(range, table) = ParsePos(range.to, table)  BY <2>3 DEF End
    <3>. QED  BY <1>3, <2>3, <3>1 DEF Position
  <2>. QED  BY <2>1, <2>2, <2>3
<1>7. Inside([start |-> Start(range, table), end |-> End(range, table)], mark)
        <=> mark[type] \in from .. End(range, table).pos
  BY <1>5 DEF Inside
<1>8. MeantBy(range, program, mark)
        <=> /\ mark[type] >= from
            /\ range.to.kind # "blank" => mark[type] <= to + IF range.to.sort = "+" THEN from ELSE 0
  BY DEF MeantBy, type, from, to
<1>9. mark[type] \in from .. End(range, table).pos
        <=> /\ mark[type] >= from
            /\ range.to.kind # "blank" => mark[type] <= to + IF range.to.sort = "+" THEN from ELSE 0
  <2>1. CASE range.to.kind = "blank"  BY <1>2, <1>4, <1>6, <2>1
  <2>2. CASE range.to.kind # "blank"  BY <1>2, <1>3, <1>4, <1>6, <2>2
  <2>. QED  BY <2>1, <2>2
<1>. QED  BY <1>7, <1>8, <1>9 DEF range

-----------------------------------------------------------------------------
(***************************************************************************)
(* The trace, from the range that is read to the cycles that are traced.   *)
(***************************************************************************)
Asked == Ptrace.vals[2].text
FirstProgram == argv[execIndex].text

(* The first program that is loaded is the one whose symbols count.        *)
RangeOK ==
  /\ symbols \in {NoSymbols, [loaded |-> TRUE, byName |-> TableOf(FirstProgram)]}
  /\ phase = "load" /\ contexts = <<>> => symbols = NoSymbols /\ ~trace.open
  /\ phase = "load" /\ contexts # <<>> /\ Ptrace.nelt # 0 => trace.open
  /\ trace.open =>
        /\ FirstProgram \in DOMAIN Programs /\ CanTrace(Asked, symbols.byName)
        /\ NeedsSymbols(Ranges[Asked]) => symbols.loaded
        /\ trace.range = [start |-> Start(Ranges[Asked], symbols.byName),
                          end |-> End(Ranges[Asked], symbols.byName)]

TraceOK ==
  /\ VisitsOK
  /\ phase \notin {"timed", "crashed", "exited"} => visited = <<>> /\ ~trace.active /\ ~trace.oneshot
  /\ phase \in Idle => phase = "refused" \/ (symbols = NoSymbols /\ trace = NoTrace)
  /\ phase \in {"load", "registered", "skip", "timed"} => RangeOK

(* Nothing is traced before the first cycle.                               *)
LEMMA TraceReset ==
  ASSUME symbols' = NoSymbols, trace' = NoTrace, visited' = <<>>, traced' = {},
         phase' \in {"scan", "options", "parsed", "refused"}
           \/ (phase' = "load" /\ contexts' = <<>>)
  PROVE  TraceOK'
<1>1. ~NoTrace.open /\ ~NoTrace.active /\ ~NoTrace.oneshot
      /\ NoTrace \in [open : BOOLEAN, range : {NoTrace.range}, active : BOOLEAN, oneshot : BOOLEAN]
  BY DEF NoTrace
<1>2. InRange' = {} /\ FirstStretch({}) = {}  BY DEF InRange, FirstStretch
<1>3. FirstStretch(InRange)' = {}  BY <1>2 DEF FirstStretch
<1>4. VisitsOK'  BY <1>1, <1>2, <1>3 DEF VisitsOK
<1>5. phase' = "load" => RangeOK'  BY <1>1 DEF RangeOK
<1>. QED  BY <1>1, <1>4, <1>5 DEF TraceOK, Idle

LEMMA TraceEarly ==
  ASSUME TraceOK, UNCHANGED traceVars, phase \in {"scan", "options", "parsed"},
         phase' \in {"options", "parsed", "refused"} \/ (phase' = "load" /\ contexts' = <<>>)
  PROVE  TraceOK'
<1>1. symbols = NoSymbols /\ trace = NoTrace /\ visited = <<>>  BY DEF TraceOK, Idle
<1>2. traced = {}
  <2>1. InRange = {} /\ FirstStretch({}) = {}  BY <1>1 DEF InRange, FirstStretch
  <2>. QED  BY <2>1 DEF TraceOK, VisitsOK
<1>. QED  BY <1>1, <1>2, TraceReset DEF traceVars

LEMMA SameVisits ==
  ASSUME VisitsOK, UNCHANGED <<trace, visited, traced>>
  PROVE  VisitsOK'
<1>1. InRange' = InRange  BY DEF InRange, Inside
<1>2. FirstStretch(InRange)' = FirstStretch(InRange)  BY <1>1 DEF FirstStretch
<1>. QED  BY <1>1, <1>2 DEF VisitsOK

Simulates == {"load", "registered", "skip", "timed"}
LEMMA SameRange ==
  ASSUME RangeOK, UNCHANGED <<symbols, argv, execIndex, database>>, trace'.open = trace.open,
         trace'.range = trace.range, phase' # "load"
  PROVE  RangeOK'
<1>1. FirstProgram' = FirstProgram  BY DEF FirstProgram
<1>2. TableOf(FirstProgram)' = TableOf(FirstProgram)  BY <1>1 DEF TableOf, SortedByName
<1>3. Ptrace' = Ptrace /\ Asked' = Asked  BY DEF Ptrace, Asked, Values
<1>4. CanTrace(Asked, symbols.byName)' = CanTrace(Asked, symbols.byName)
  BY <1>3 DEF CanTrace
<1>. QED  BY <1>1, <1>2, <1>3, <1>4 DEF RangeOK

LEMMA TraceKept ==
  ASSUME TraceOK, UNCHANGED traceVars, UNCHANGED <<argv, execIndex, database>>,
         phase \notin Idle,
         \/ phase' \in {"registered", "skip", "refused"} /\ phase \in {"load", "registered", "skip"}
         \/ phase' = "timed" /\ phase \in Simulates
         \/ phase' \in {"crashed", "exited"}
  PROVE  TraceOK'
<1>. USE DEF traceVars
<1>1. VisitsOK'  BY SameVisits DEF TraceOK
<1>2. phase' \in Simulates => RangeOK'
  BY SameRange DEF TraceOK, Simulates
<1>. QED  BY <1>1, <1>2 DEF TraceOK, Idle, Simulates

LEMMA LoadTrace ==
  ASSUME StartupOK, TraceOK, Load
  PROVE  TraceOK'
<1>1. /\ phase = "load" /\ UNCHANGED <<argv, database, execIndex>>
      /\ VisitsOK /\ RangeOK /\ visited = <<>> /\ ~trace.active /\ ~trace.oneshot
      /\ contexts \in Seq(Contexts)
  BY DEF Load, mainVars, TraceOK, StartupOK, SkipOK, ContextsOK
<1>2. CASE phase' = "refused" /\ UNCHANGED traceVars
  <2>1. VisitsOK'  BY <1>1, <1>2, SameVisits DEF traceVars
  <2>. QED  BY <1>1, <1>2, <2>1 DEF TraceOK, traceVars, Idle
<1>3. CASE Loads /\ LoadProgram(NextProgram.text) /\ UNCHANGED phase
  <2>. PICK name : name = NextProgram.text  OBVIOUS
  <2>1. Ptrace' = Ptrace /\ Asked' = Asked /\ FirstProgram' = FirstProgram
    BY <1>1 DEF Ptrace, Asked, Values, FirstProgram
  <2>2. TableOf(FirstProgram)' = TableOf(FirstProgram)  BY <2>1 DEF TableOf, SortedByName
  <2>3. name \in DOMAIN Programs /\ (contexts = <<>> => name = FirstProgram)
    <3>1. name \in DOMAIN Programs  BY <1>3 DEF Loads, IsProgram
    <3>2. execIndex \in Nat /\ Len(<<>>) = 0  BY DEF StartupOK, OptionsOK
    <3>. QED  BY <3>1, <3>2 DEF NextProgram, FirstProgram
  <2>4. contexts' # <<>>
    <3>1. contexts' = Append(contexts, NewContext(Programs[name].skip, Programs[name].enters))
      BY <1>3 DEF LoadProgram
    <3>2. Programs[name].skip \in Int /\ Programs[name].enters \in BOOLEAN
      BY <2>3, StartupAssumption
    <3>3. NewContext(Programs[name].skip, Programs[name].enters) \in Contexts  BY <3>2, NewIs
    <3>4. Len(contexts') = Len(contexts) + 1  BY <1>1, <3>1, <3>3, AppendProperties
    <3>. QED  BY <1>1, <3>4
  <2>5. CASE Ptrace.nelt = 0
    <3>1. UNCHANGED traceVars  BY <1>3, <2>5 DEF LoadProgram
    <3>2. VisitsOK'  BY <1>1, <3>1, SameVisits DEF traceVars
    <3>3. CanTrace(Asked, symbols.byName)' = CanTrace(Asked, symbols.byName)
      BY <2>1, <3>1 DEF CanTrace, traceVars
    <3>4. RangeOK'  BY <1>1, <1>3, <2>1, <2>2, <2>4, <2>5, <3>1, <3>3 DEF RangeOK, traceVars
    <3>. QED  BY <1>1, <1>3, <3>1, <3>2, <3>4 DEF TraceOK, traceVars, Idle
  <2>6. CASE Ptrace.nelt # 0
    <3>. DEFINE asked == Asked \in DOMAIN Ranges /\ NeedsSymbols(Ranges[Asked])
                after == IF asked THEN Loaded(name) ELSE symbols
    <3>1. PtraceOpen(Asked, name)  BY <1>3, <2>6 DEF LoadProgram, Asked
    <3>2. /\ CanTrace(Asked, after.byName) /\ symbols' = after
          /\ trace' = [trace EXCEPT !.open = TRUE, !.active = FALSE,
                          !.range = [start |-> Start(Ranges[Asked], after.byName),
                                     end |-> End(Ranges[Asked], after.byName)]]
          /\ UNCHANGED <<visited, traced>>
      BY <3>1 DEF PtraceOpen
    <3>3. /\ after \in {NoSymbols, [loaded |-> TRUE, byName |-> TableOf(FirstProgram)]}
          /\ asked => after.loaded
          /\ FirstProgram \in DOMAIN Programs
      <4>1. CASE contexts = <<>>
        <5>1. symbols = NoSymbols /\ name = FirstProgram  BY <1>1, <2>3, <4>1 DEF RangeOK
        <5>2. Loaded(name) = [loaded |-> TRUE, byName |-> TableOf(FirstProgram)]
          BY <5>1 DEF Loaded, NoSymbols
        <5>. QED  BY <2>3, <5>1, <5>2
      <4>2. CASE contexts # <<>>
        <5>1. trace.open  BY <1>1, <2>6, <4>2 DEF RangeOK
        <5>2. asked => symbols.loaded  BY <1>1, <5>1 DEF RangeOK
        <5>3. after = symbols  BY <5>2 DEF Loaded
        <5>. QED  BY <1>1, <5>1, <5>2, <5>3 DEF RangeOK
      <4>. QED  BY <4>1, <4>2
    <3>. HIDE DEF after
    <3>4. /\ trace'.open /\ ~trace'.active /\ ~trace'.oneshot
          /\ trace'.range = [start |-> Start(Ranges[Asked], after.byName),
                             end |-> End(Ranges[Asked], after.byName)]
          /\ trace' \in [open : BOOLEAN, range : {trace'.range}, active : BOOLEAN, oneshot : BOOLEAN]
      <4>1. trace \in [open : BOOLEAN, range : {trace.range}, active : BOOLEAN, oneshot : BOOLEAN]
        BY <1>1 DEF VisitsOK
      <4>. QED  BY <1>1, <3>2, <4>1
    <3>5. VisitsOK'
      <4>1. InRange = {} /\ InRange' = {} /\ FirstStretch({}) = {}
        BY <1>1, <3>2 DEF InRange, FirstStretch
      <4>2. traced = {}  BY <1>1, <4>1 DEF VisitsOK
      <4>3. FirstStretch(InRange)' = {}  BY <4>1 DEF FirstStretch
      <4>. QED  BY <1>1, <3>2, <3>4, <4>1, <4>2, <4>3 DEF VisitsOK
    <3>6. CanTrace(Asked, symbols.byName)' = CanTrace(Asked, after.byName)
      BY <2>1, <3>2 DEF CanTrace
    <3>7. CanTrace(Asked, after.byName) => Asked \in DOMAIN Ranges  BY DEF CanTrace
    <3>8. RangeOK'
      BY <1>3, <2>1, <2>2, <2>4, <3>2, <3>3, <3>4, <3>6, <3>7 DEF RangeOK
    <3>. QED  BY <1>1, <1>3, <3>2, <3>4, <3>5, <3>8 DEF TraceOK, Idle
  <2>. QED  BY <2>5, <2>6
<1>. QED  BY <1>2, <1>3 DEF Load, traceVars

LEMMA TraceStep ==
  ASSUME TraceOK, TimedTrace
  PROVE  TraceOK'
<1>1. PICK pc \in Addresses, n \in Renames : TraceCycle(pc, n)  BY DEF TimedTrace
<1>2. /\ phase = "timed" /\ phase' = "timed" /\ VisitsOK /\ RangeOK
      /\ UNCHANGED <<symbols, argv, execIndex, database>>
  BY <1>1 DEF TimedTrace, TraceOK, optionVars, mainVars, TraceCycle
<1>3. VisitsOK' /\ trace'.open = trace.open /\ trace'.range = trace.range
  BY <1>1, <1>2, CycleOK
<1>4. RangeOK'  BY <1>2, <1>3, SameRange
<1>. QED  BY <1>2, <1>3, <1>4 DEF TraceOK, Idle

LEMMA TraceStutter ==
  ASSUME TraceOK, UNCHANGED <<traceVars, phase, argv, execIndex, database, contexts>>
  PROVE  TraceOK'
<1>. USE DEF traceVars
<1>1. VisitsOK'  BY SameVisits DEF TraceOK
<1>2. RangeOK => RangeOK'
  <2>1. FirstProgram' = FirstProgram /\ Ptrace' = Ptrace /\ Asked' = Asked
    BY DEF FirstProgram, Ptrace, Asked, Values
  <2>2. TableOf(FirstProgram)' = TableOf(FirstProgram)  BY <2>1 DEF TableOf, SortedByName
  <2>3. CanTrace(Asked, symbols.byName)' = CanTrace(Asked, symbols.byName)
    BY <2>1 DEF CanTrace
  <2>. QED  BY <2>1, <2>2, <2>3 DEF RangeOK
<1>. QED  BY <1>1, <1>2 DEF TraceOK

LEMMA TraceNext ==
  ASSUME StartupOK, TraceOK, [Next]_vars
  PROVE  TraceOK'
<1>1. CASE Scan
  <2>1. UNCHANGED traceVars /\ phase = "scan" /\ phase' = "options"  BY <1>1 DEF Scan
  <2>. QED  BY <2>1, TraceEarly
<1>2. CASE Options
  <2>1. ProcessOptions /\ UNCHANGED traceVars /\ argv' = argv  BY <1>2 DEF Options, mainVars
  <2>2. phase = "options"
    BY <2>1 DEF ProcessOptions, ProcessOption, OpenConfig, NoteDump, Orphan, EndOfArgs, ReadLine,
       CloseFile, AtToken, AtOption, InArgs, InFile
  <2>3. phase' \in {"options", "parsed", "refused"}
    BY <2>1, <2>2, ProcessOptionsOK DEF StartupOK
  <2>. QED  BY <2>1, <2>2, <2>3, TraceEarly
<1>3. CASE Check
  <2>1. UNCHANGED traceVars /\ phase = "parsed" /\ contexts' = <<>> /\ phase' \in {"load", "refused"}
    BY <1>3 DEF Check, Refuse
  <2>. QED  BY <2>1, TraceEarly
<1>4. CASE Load  BY <1>4, LoadTrace
<1>5. CASE RegisterStats \/ Quits \/ StartSkip \/ StartTiming
  <2>1. UNCHANGED traceVars /\ UNCHANGED <<argv, execIndex, database>>
        /\ \/ phase = "load" /\ phase' \in {"registered", "refused"}
           \/ phase = "registered" /\ phase' = "exited"
           \/ phase = "registered" /\ phase' \in {"crashed", "skip"}
           \/ phase = "skip" /\ phase' = "timed"
    BY <1>5 DEF RegisterStats, Quits, StartSkip, StartTiming, mainVars
  <2>. QED  BY <2>1, TraceKept DEF Idle, Simulates
<1>6. CASE Skip
  <2>1. UNCHANGED traceVars /\ UNCHANGED <<argv, execIndex, database>> /\ phase = "skip" /\ phase' = "skip"
    BY <1>6 DEF Skip, optionVars, mainVars
  <2>. QED  BY <2>1, TraceKept DEF Idle, Simulates
<1>7. CASE Timed \/ SampleCrashes \/ Finish
  <2>1. UNCHANGED traceVars /\ UNCHANGED <<argv, execIndex, database>>
        /\ phase = "timed" /\ phase' \in {"timed", "crashed", "exited"}
    BY <1>7 DEF Timed, SampleCrashes, Finish, optionVars, mainVars
  <2>. QED  BY <2>1, TraceKept DEF Idle, Simulates
<1>8. CASE TimedTrace  BY <1>8, TraceStep
<1>9. CASE Again
  <2>1. symbols' = NoSymbols /\ trace' = NoTrace /\ visited' = <<>> /\ traced' = {} /\ phase' = "scan"
    BY <1>9 DEF Again, NothingYet
  <2>. QED  BY <2>1, TraceReset
<1>10. CASE UNCHANGED vars
  <2>1. UNCHANGED <<traceVars, phase, argv, execIndex, database, contexts>>
    BY <1>10 DEF vars, optionVars, mainVars, ffVars
  <2>. QED  BY <2>1, TraceStutter
<1>. QED  BY <1>1, <1>2, <1>3, <1>4, <1>5, <1>6, <1>7, <1>8, <1>9, <1>10 DEF Next, Work

LEMMA TraceInit ==
  ASSUME Init
  PROVE  TraceOK
<1>1. symbols = NoSymbols /\ trace = NoTrace /\ visited = <<>> /\ traced = {} /\ phase = "scan"
  BY DEF Init
<1>2. ~NoTrace.active /\ ~NoTrace.oneshot
      /\ NoTrace \in [open : BOOLEAN, range : {NoTrace.range}, active : BOOLEAN, oneshot : BOOLEAN]
  BY DEF NoTrace
<1>3. VisitsOK  BY <1>1, <1>2, NoVisits
<1>. QED  BY <1>1, <1>2, <1>3 DEF TraceOK

LEMMA FirstVisitIs ==
  ASSUME TraceOK
  PROVE  TraceIsFirstVisit
<1>. SUFFICES ASSUME phase = "timed", trace.open PROVE FirstVisit(Ranges[Asked], FirstProgram)
  BY DEF TraceIsFirstVisit, Asked, FirstProgram
<1>1. RangeOK /\ VisitsOK  BY DEF TraceOK
<1>2. /\ FirstProgram \in DOMAIN SymbolsOf /\ CanTrace(Asked, symbols.byName)
      /\ NeedsSymbols(Ranges[Asked]) => symbols.byName = TableOf(FirstProgram)
      /\ trace.range = [start |-> Start(Ranges[Asked], symbols.byName),
                        end |-> End(Ranges[Asked], symbols.byName)]
      /\ Asked \in DOMAIN Ranges
  <2>1. NoSymbols.loaded = FALSE  BY DEF NoSymbols
  <2>2. Asked \in DOMAIN Ranges  BY <1>1 DEF RangeOK, CanTrace
  <2>. QED  BY <1>1, <2>1, <2>2, StartupAssumption DEF RangeOK
<1>3. ASSUME NEW k \in DOMAIN visited
      PROVE  Inside(trace.range, visited[k]) <=> MeantBy(Ranges[Asked], FirstProgram, visited[k])
  <2>1. visited[k] \in Marks  BY <1>1 DEF VisitsOK
  <2>. QED  BY <1>2, <2>1, ReadAsMeant
<1>4. InRange = {k \in DOMAIN visited : MeantBy(Ranges[Asked], FirstProgram, visited[k])}
  BY <1>3 DEF InRange
<1>. QED  BY <1>1, <1>4 DEF FirstVisit, VisitsOK

-----------------------------------------------------------------------------
(***************************************************************************)
(* The invariants of a run.                                                *)
(***************************************************************************)
LEMMA InitOK ==
  ASSUME Init
  PROVE  StartupOK
<1>1. /\ argv \in Seq(Toks) /\ runs = 1 /\ phase = "scan" /\ database = <<>> /\ frames = <<>>
      /\ execIndex = 0 /\ dump = [lines |-> <<>>, from |-> <<>>] /\ planned = 0
      /\ contexts = <<>> /\ known = 0 /\ left = <<>> /\ at = 0 /\ room = 0
  BY StartupAssumption, TokensAreToks DEF Init
<1>2. OptionsOK
  <2>1. DatabaseOK  BY <1>1 DEF DatabaseOK
  <2>2. DumpOK  BY <1>1 DEF DumpOK
  <2>3. FramesFit(frames, argv, Len(dump.lines))  BY <1>1 DEF FramesFit
  <2>4. execIndex \in 0 .. Len(argv)  BY <1>1
  <2>. QED  BY <1>1, <2>1, <2>2, <2>3, <2>4 DEF OptionsOK
<1>3. MainOK  BY <1>1 DEF MainOK, Idle, Phases
<1>4. SkipOK
  <2>1. ContextsOK  BY <1>1 DEF ContextsOK
  <2>2. ListOK  BY <1>1 DEF ListOK, Ascends
  <2>. QED  BY <1>1, <2>1, <2>2 DEF SkipOK, Idle
<1>. QED  BY <1>2, <1>3, <1>4 DEF StartupOK

LEMMA StutterOK ==
  ASSUME StartupOK, UNCHANGED vars
  PROVE  StartupOK'
<1>1. /\ UNCHANGED <<argv, database, frames, execIndex, dump>>
      /\ UNCHANGED <<phase, runs, planned, scanned, wiring, limit, freed>> /\ UNCHANGED ffVars
  BY DEF vars, optionVars, mainVars
<1>2. OptionsOK'  BY <1>1, OptionsKept DEF StartupOK
<1>3. MainOK'
  <2>1. CASE phase \in Idle  BY <1>1, <2>1, MainIdle DEF StartupOK, MainOK
  <2>2. CASE phase \notin Idle
    <3>1. CachesMade' = CachesMade  BY <1>1, SameWiring
    <3>. QED  BY <1>1, <2>2, <3>1, MainKept DEF StartupOK, MainOK
  <2>. QED  BY <2>1, <2>2
<1>4. SkipOK'
  <2>1. Uniform' = Uniform  BY <1>1, SameWiring
  <2>2. SkipOK /\ ContextsOK' /\ ListOK' /\ room' \in Nat  BY <1>1, ContextsKept DEF StartupOK, SkipOK
  <2>3. phase' \in {"skip", "timed"} =>
          planned' <= known' /\ (Uniform' /\ NeverSlept' => CountsOK')
    BY <1>1, <2>1, <2>2, ContextsKept DEF SkipOK
  <2>4. /\ phase' \notin Idle => Places' = scanned' * limit'
        /\ phase' = "timed" => NoneGoesOn'
        /\ phase' # "skip" => at' = 0
        /\ phase' = "scan" => contexts' = <<>>
        /\ phase' = "load" => Len(contexts') <= planned'
    BY <1>1, <2>2, ContextsKept DEF SkipOK
  <2>. QED  BY <2>2, <2>3, <2>4 DEF SkipOK
<1>. QED  BY <1>2, <1>3, <1>4 DEF StartupOK

LEMMA NextOK ==
  ASSUME StartupOK, [Next]_vars
  PROVE  StartupOK'
<1>1. CASE Next
  BY <1>1, ScanOK, OptionsStepOK, CheckOK, LoadOK, RegisterStatsOK, QuitsOK, StartSkipOK,
     SkipStepOK, StartTimingOK, TimedOK, AgainOK DEF Next, Work
<1>2. CASE UNCHANGED vars  BY <1>2, StutterOK
<1>. QED  BY <1>1, <1>2

LEMMA StartupTypes ==
  ASSUME StartupOK
  PROVE  StartupTypeOK
<1>1. phase \in Phases /\ runs \in 1 .. 2  BY DEF StartupOK, MainOK
<1>2. \A name \in DOMAIN database : /\ Len(database[name].vals) = Descriptor[name].nvars
                                    /\ database[name].nelt \in 0 .. Descriptor[name].nvars
  BY DEF StartupOK, OptionsOK, DatabaseOK, ValueOK
<1>3. ASSUME NEW k \in DOMAIN frames
      PROVE  frames[k].at - 1 \in 0 .. Len(IF frames[k].kind = "args" THEN frames[k].toks
                                            ELSE LinesOf(frames[k].name))
  <2>. PICK f : f = frames[k]  OBVIOUS
  <2>1. FrameFits(f, argv, Len(dump.lines)) /\ DumpOK
    BY <1>3 DEF StartupOK, OptionsOK, FramesFit
  <2>2. f \in Frames /\ f.at > 0  BY <2>1 DEF FrameFits
  <2>3. f.at \in Nat /\ f.kind \in {"args", "file"} /\ f.toks \in Seq(Toks)
    BY <2>2, FrameParts
  <2>4. CASE f.kind = "args"
    <3>1. f.at <= Len(f.toks) + 1 /\ Len(f.toks) \in Nat  BY <2>1, <2>3, <2>4 DEF FrameFits
    <3>. QED  BY <2>2, <2>3, <2>4, <3>1
  <2>5. CASE f.kind = "file"
    <3>1. f.name \in DOMAIN Files \cup {DumpFile} /\ f.at <= LinesIn(f.name, Len(dump.lines)) + 1
      BY <2>1, <2>5 DEF FrameFits
    <3>2. LinesOf(f.name) \in Seq(Seq(Toks)) /\ Len(LinesOf(f.name)) = LinesIn(f.name, Len(dump.lines))
      BY <2>1, <3>1, LinesAre
    <3>3. Len(LinesOf(f.name)) \in Nat  BY <3>2
    <3>. QED  BY <2>2, <2>3, <2>5, <3>1, <3>2, <3>3
  <2>. QED  BY <2>3, <2>4, <2>5
<1>4. execIndex \in 0 .. Len(argv)  BY DEF StartupOK, OptionsOK
<1>5. /\ contexts \in Seq(Contexts) /\ Len(contexts) \in Nat /\ DOMAIN contexts = 1 .. Len(contexts)
      /\ planned \in Nat /\ room \in Nat
      /\ \A i \in DOMAIN contexts : contexts[i].parent = 0 => i <= planned
      /\ known \in 0 .. Len(contexts) /\ left \in Seq(1 .. known) /\ at \in 0 .. Len(left)
  BY DEF StartupOK, MainOK, SkipOK, ContextsOK, ListOK
<1>6. known <= Len(contexts) /\ at \in 0 .. Len(left) /\ room >= 0  BY <1>5
<1>7. \A k \in DOMAIN left : left[k] \in 1 .. known  BY <1>5, ElementsAre
<1>8. Cardinality({i \in DOMAIN contexts : contexts[i].parent = 0}) <= planned
  <2>1. {i \in DOMAIN contexts : contexts[i].parent = 0} \subseteq 1 .. planned  BY <1>5
  <2>2. IsFiniteSet(1 .. planned) /\ Cardinality(1 .. planned) = planned
    <3>1. 1 \in Int /\ planned \in Int /\ planned \in Nat  BY <1>5
    <3>2. Cardinality(1 .. planned) = IF 1 > planned THEN 0 ELSE planned - 1 + 1
      BY <3>1, FS_Interval
    <3>3. IsFiniteSet(1 .. planned)  BY <3>1, FS_Interval
    <3>. QED  BY <3>1, <3>2, <3>3
  <2>. QED  BY <2>1, <2>2, FS_Subset
<1>9. ASSUME phase \in {"load", "skip"}
      PROVE  Cardinality({i \in DOMAIN contexts : contexts[i].alive}) <= scanned * limit
  <2>1. Places = scanned * limit  BY <1>9 DEF StartupOK, SkipOK, Idle
  <2>2. Cardinality(AliveIn(contexts)) \in Nat  BY <1>5, AliveAre
  <2>3. Cardinality(AliveIn(contexts)) <= Places  BY <1>5, <2>2 DEF Places
  <2>. QED  BY <2>1, <2>3 DEF AliveIn
<1>. QED  BY <1>1, <1>2, <1>3, <1>4, <1>6, <1>7, <1>8, <1>9 DEF StartupTypeOK

(* The options, the lists of contexts and the limits of the cores are as   *)
(* they must be, and every core is wired to memory through caches that are *)
(* all accounted for (main, options.c, sim_check_options, sim_uninit).     *)
LEMMA StartupInvHolds ==
  ASSUME StartupOK
  PROVE  StartupInv
<1>1. StartupTypeOK  BY StartupTypes
<1>2. MissesReachMemory
  <2>1. phase \notin Idle => WiringInv  BY DEF StartupOK, MainOK
  <2>2. CASE WiringInv  BY <2>2, MissesReach
  <2>3. CASE ~WiringInv  BY <2>1, <2>3 DEF Idle, MissesReachMemory
  <2>. QED  BY <2>2, <2>3
<1>3. NoCacheForgotten
  <2>1. phase = "exited" => WiringInv /\ freed = CachesMade  BY DEF StartupOK, MainOK, Idle
  <2>2. CASE phase = "exited"  BY <2>1, <2>2, NoneForgotten
  <2>3. CASE phase # "exited"  BY <2>3 DEF NoCacheForgotten
  <2>. QED  BY <2>2, <2>3
<1>. QED  BY <1>1, <1>2, <1>3 DEF StartupInv

LEMMA SkipExactly ==
  ASSUME StartupOK
  PROVE  LoadedSkipExactly
<1>. SUFFICES ASSUME phase \in {"skip", "timed"}, Uniform, NeverSlept,
                     NEW i \in DOMAIN contexts, contexts[i].parent = 0
     PROVE  /\ contexts[i].left >= 0
            /\ phase = "timed" /\ contexts[i].alive => contexts[i].left = 0
  BY DEF LoadedSkipExactly, NeverSlept
<1>1. CountsOK /\ i <= planned  BY DEF StartupOK, SkipOK, ContextsOK
<1>2. contexts[i].left >= 0 /\ (i \notin Listed => contexts[i].left = 0 \/ ~contexts[i].alive)
  BY <1>1 DEF CountsOK
<1>3. ASSUME phase = "timed", contexts[i].alive
      PROVE  contexts[i].left = 0
  <2>1. CASE i \notin Listed  BY <1>2, <1>3, <2>1
  <2>2. CASE i \in Listed
    <3>1. PICK k \in DOMAIN left : i = left[k]  BY <2>2 DEF Listed
    <3>2. ~GoesOn(i)  BY <1>3, <3>1 DEF StartupOK, SkipOK, NoneGoesOn
    <3>. QED  BY <1>3, <3>2 DEF GoesOn
  <2>. QED  BY <2>1, <2>2
<1>. QED  BY <1>2, <1>3

(* From the options to the end: every value has its place, no core has more *)
(* contexts than its limit, a miss of any core reaches memory, and every   *)
(* cache is printed and deleted at the end.                                *)
THEOREM StartupInvariant == Spec => []StartupInv
<1>1. Init => StartupOK  BY InitOK
<1>2. StartupOK /\ [Next]_vars => StartupOK'  BY NextOK
<1>3. StartupOK => StartupInv  BY StartupInvHolds
<1>. QED  BY <1>1, <1>2, <1>3, PTL DEF Spec

(* With one count for all, while no context has slept, the programs that   *)
(* were loaded skip exactly that many instructions (sim_main).             *)
THEOREM SkippedExactly == Spec => []LoadedSkipExactly
<1>1. Init => StartupOK  BY InitOK
<1>2. StartupOK /\ [Next]_vars => StartupOK'  BY NextOK
<1>3. StartupOK => LoadedSkipExactly  BY SkipExactly
<1>. QED  BY <1>1, <1>2, <1>3, PTL DEF Spec

(* The cycles that are traced are the first stretch of those in the range   *)
(* that was asked for, with the symbols of the first program, and no other  *)
(* (ptrace_check_active, range_parse_range, sym_bind_name).                 *)
THEOREM TracedOnce == Spec => []TraceIsFirstVisit
<1>1. Init => StartupOK /\ TraceOK  BY InitOK, TraceInit
<1>2. StartupOK /\ TraceOK /\ [Next]_vars => (StartupOK /\ TraceOK)'  BY NextOK, TraceNext
<1>3. TraceOK => TraceIsFirstVisit  BY FirstVisitIs
<1>. QED  BY <1>1, <1>2, <1>3, PTL DEF Spec

=============================================================================
