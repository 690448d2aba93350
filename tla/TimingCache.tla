------------------------------ MODULE TimingCache -----------------------------
(***************************************************************************)
(* The timing-only caches of targets/hetero/timing_cache.cpp as soc.py     *)
(* wires them for the host: an instruction and a data cache, write-through *)
(* and without write allocation, in front of one L2, which is write-back   *)
(* when main memory is a device.  The caches hold no data: their state is  *)
(* what they would hold, when, and what the next level gets to see of it.  *)
(* A request is one step, as it is one call down the chain of req().       *)
(*                                                                         *)
(* A request is the lines it touches; its bytes make no difference.        *)
(* Debug requests return before any state is touched and are left out, and *)
(* so are next levels that answer later: nothing in the SoC does.          *)
(***************************************************************************)
EXTENDS Integers

CONSTANTS
  L1s,          \* the first-level caches
  L2,           \* the cache behind them
  G,            \* geometry and timing of every cache
  Lines,        \* line numbers the host uses
  Spans,        \* how many lines one request touches
  Gaps,         \* cycles between two requests
  MemLatencies, \* what main memory may report
  MaxRequests   \* bound: requests in a behaviour

Caches == L1s \cup {L2}

ASSUME CachesAssumption ==
  /\ L2 \notin L1s
  /\ Lines \subseteq Nat /\ Spans \subseteq Nat \ {0}
  /\ Gaps \subseteq Nat /\ MemLatencies \subseteq Nat /\ MaxRequests \in Nat
  /\ \A id \in Caches :
       /\ G[id] \in [sets : Nat \ {0}, ways : Nat \ {0}, hit : Nat, miss : Nat, refill : Nat,
                     write : Nat, buffer : Nat, allocate : BOOLEAN, writeback : BOOLEAN,
                     data : BOOLEAN]
       /\ G[id].writeback => G[id].allocate    \* the constructor refuses anything else
  /\ \A id \in L1s : ~G[id].writeback
  /\ \A span \in Spans : span <= G[L2].sets   \* a request's lines are in different sets

VARIABLES
  cache,    \* per cache: sets of ways, lru_counter, next_level_free
  now,      \* clock cycle of the last request
  seen,     \* what L2 and memory saw of the last request, and what it took
  stores,   \* history: stores per line
  written,  \* history: how many of them the main memory has absorbed
  used,     \* history: per cache, when each line was last used, 0 for never
  uses,     \* history: what used counts in
  n         \* requests so far

vars == <<cache, now, seen, stores, written, used, uses, n>>

Invalid == -1   \* LINE_INVALID
Later(x, y) == IF x >= y THEN x ELSE y

Way0 == [tag |-> Invalid, lru |-> 0, ready |-> 0, dirty |-> FALSE]
Cache0(g) == [way |-> [s \in 0..(g.sets - 1) |-> [w \in 1..g.ways |-> Way0]],
              lru_counter |-> 0, free |-> 0]

SetOf(g, line) == line % g.sets
HoldsFirst(c, g, line) == c.way[SetOf(g, line)][1].tag = line
Holds(c, g, line) == \E w \in 1..g.ways : c.way[SetOf(g, line)][w].tag = line
WayOf(c, g, line) == CHOOSE w \in 1..g.ways : c.way[SetOf(g, line)][w].tag = line

(* The cycle a line that is there can be read. *)
ReadyAtOnce(c, g, line) == 0
LineReady(c, g, line) == c.way[SetOf(g, line)][WayOf(c, g, line)].ready

(* The way lookup() evicts: the first of those used longest ago.           *)
Victim(c, g, line) ==
  LET set == c.way[SetOf(g, line)]
      oldest == {w \in 1..g.ways : \A v \in 1..g.ways : set[w].lru <= set[v].lru}
  IN  CHOOSE w \in oldest : \A v \in oldest : w <= v

Resident(c, g, lines) == \A line \in lines : Holds(c, g, line)

(* lookup() of a line that is there, and of one that is brought in. *)
NotTouched(c, g, line) == c
Touched(c, g, line) ==
  [c EXCEPT !.lru_counter = @ + 1,
            !.way[SetOf(g, line)][WayOf(c, g, line)].lru = c.lru_counter + 1]

Installed(c, g, line, ready) ==
  [c EXCEPT !.lru_counter = @ + 1,
            !.way[SetOf(g, line)][Victim(c, g, line)] =
               [tag |-> line, lru |-> c.lru_counter + 1, ready |-> ready, dirty |-> FALSE]]

(* The victim, if it must be written back. *)
EvictedClean(c, g, line) ==
  LET old == c.way[SetOf(g, line)][Victim(c, g, line)]
  IN  IF g.writeback /\ old.tag # Invalid THEN {old.tag} ELSE {}
Evicted(c, g, line) ==
  LET old == c.way[SetOf(g, line)][Victim(c, g, line)]
  IN  IF g.writeback /\ old.tag # Invalid /\ old.dirty THEN {old.tag} ELSE {}

(* access(), one line of it, at time t; below: the next level's latency.   *)
OneLine(s, g, t, line, w, below) ==
  LET start == Later(t, s.c.free)
      done  == start + below + g.miss + g.refill
  IN  CASE Holds(s.c, g, line) ->
             [s EXCEPT !.c = Touched(@, g, line), !.ready = Later(@, LineReady(s.c, g, line))]
        [] ~Holds(s.c, g, line) /\ w /\ ~g.allocate -> s
        [] OTHER ->
             [s EXCEPT !.c = [Installed(@, g, line, done) EXCEPT !.free = start + g.refill],
                       !.victims = @ \cup Evicted(s.c, g, line),
                       !.ready = Later(@, done)]

(* mark_dirty() of the lines that are still there. *)
Kept(c, g, lines) == c
Marked(c, g, lines) ==
  LET marked(way) == [way EXCEPT !.dirty = @ \/ way.tag \in lines]
  IN  [c EXCEPT !.way = [s \in DOMAIN c.way |-> [w \in DOMAIN c.way[s] |-> marked(c.way[s][w])]]]

(* The store buffer: the master waits only for what no longer fits in it.  *)
Buffered(s, g, t) ==
  LET free == Later(t, s.c.free) + g.write
  IN  [s EXCEPT !.c.free = free, !.ready = Later(@, free - g.buffer * g.write)]

(* access(): the lines of a request from the first on, then the store. It  *)
(* returns the cache after it, the dirty victims and when the answer is    *)
(* ready.                                                                  *)
Walked(c, g, t, first, span, w, below) ==
  LET after[k \in 0..span] ==
        IF k = 0 THEN [c |-> c, ready |-> t + g.hit, victims |-> {}]
                 ELSE OneLine(after[k - 1], g, t, first + k - 1, w, below)
  IN  after[span]

LinesOf(first, span) == first..(first + span - 1)

Accessed(c, g, t, first, span, w, below) ==
  LET s == Walked(c, g, t, first, span, w, below)
  IN  CASE w /\ g.writeback  -> [s EXCEPT !.c = Marked(@, g, LinesOf(first, span))]
        [] w /\ ~g.writeback -> Buffered(s, g, t)
        [] OTHER -> s

------------------------------------------------------------------------------
(* What a level sends down: real reads and writes, each a set of lines.    *)
Real(w, lines) == [w |-> w, lines |-> lines]

(* req() of the L2 and of what is behind it.  In write-back mode, reads    *)
(* that miss go down as they are, stores that miss as a timed read of      *)
(* their lines, dirty victims as writes, and nothing else as a real access. *)
GoesDown(c, g, lines, w) == IF g.writeback THEN ~Resident(c, g, lines)
                                           ELSE w \/ ~Resident(c, g, lines)

L2Request(t, first, span, w, latency) ==
  LET c == cache[L2]
      g == G[L2]
      lines == LinesOf(first, span)
      down == GoesDown(c, g, lines, w)
      a == Accessed(c, g, t, first, span, w, IF down THEN latency ELSE 0)
      request == IF down THEN {Real(w /\ ~g.writeback, lines)} ELSE {}
  IN  [c |-> a.c, latency |-> a.ready - t,
       traffic |-> request \cup {Real(TRUE, {x}) : x \in a.victims}]

(* A read that every line of is in the first-level cache is forwarded as a *)
(* debug access, which the L2 passes on without looking.                   *)
ServedHere(c, g, lines, w) == ~w /\ Resident(c, g, lines)

(* The last uses after a request; a store that misses a cache that does    *)
(* not allocate is no use of the line.                                     *)
UsedAfter(id, first, span, w) ==
  [x \in DOMAIN used[id] |->
     IF x \in LinesOf(first, span) /\ (~w \/ G[id].allocate \/ Holds(cache[id], G[id], x))
       THEN uses + (x - first) + 1 ELSE used[id][x]]

Request(id, gap, first, span, w, latency) ==
  LET c == cache[id]
      lines == LinesOf(first, span)
      t == now + gap
      served == ServedHere(c, G[id], lines, w)
      l2 == L2Request(t, first, span, w, latency)
      a == Accessed(c, G[id], t, first, span, w, IF served THEN 0 ELSE l2.latency)
      traffic == IF served THEN {} ELSE l2.traffic
      absorbed == {r \in traffic : r.w}
  IN  /\ n < MaxRequests /\ n' = n + 1
      /\ now' = t
      /\ cache' = [cache EXCEPT ![id] = a.c, ![L2] = IF served THEN @ ELSE l2.c]
      /\ seen' = [id |-> id, lines |-> lines, w |-> w, traffic |-> traffic,
                  latency |-> a.ready - t]
      /\ stores' = [x \in DOMAIN stores |->
                      IF w /\ x \in lines THEN stores[x] + 1 ELSE stores[x]]
      /\ written' = [x \in DOMAIN written |->
                       IF \E r \in absorbed : x \in r.lines THEN stores'[x] ELSE written[x]]
      /\ used' = [used EXCEPT ![id] = UsedAfter(id, first, span, w),
                              ![L2] = IF served THEN @ ELSE UsedAfter(L2, first, span, w)]
      /\ uses' = uses + span

AllLines == UNION {LinesOf(x, span) : x \in Lines, span \in Spans}

(* reset() *)
Init ==
  /\ cache = [id \in Caches |-> Cache0(G[id])]
  /\ now = 0 /\ n = 0
  /\ seen = [id |-> L2, lines |-> {}, w |-> FALSE, traffic |-> {}, latency |-> 0]
  /\ stores = [x \in AllLines |-> 0] /\ written = [x \in AllLines |-> 0]
  /\ used = [id \in Caches |-> [x \in AllLines |-> 0]] /\ uses = 0

Next == \E id \in L1s, gap \in Gaps, x \in Lines, span \in Spans, w \in BOOLEAN,
           latency \in MemLatencies :
          /\ w => G[id].data       \* an instruction cache gets no stores
          /\ Request(id, gap, x, span, w, latency)

Spec == Init /\ [][Next]_vars

------------------------------------------------------------------------------
LinesIn(id) == {cache[id].way[s][w].tag : s \in DOMAIN cache[id].way,
                                          w \in 1..G[id].ways} \ {Invalid}

(* Every set holds exactly the lines of it used last, as many as it has    *)
(* ways and each in one way only, whatever the mix of hits, misses and     *)
(* stores (lookup(), 322-369).                                             *)
OneWayEach(ways) == \A v, w \in DOMAIN ways :
  ways[v].tag = ways[w].tag /\ ways[w].tag # Invalid => v = w
UsedLast(u, ways, mine) ==
  /\ \A w \in DOMAIN ways : ways[w].tag # Invalid => ways[w].tag \in mine /\ u[ways[w].tag] > 0
  /\ \A x \in mine : u[x] = 0 \/ \/ \E w \in DOMAIN ways : ways[w].tag = x
                                 \/ \A w \in DOMAIN ways : /\ ways[w].tag # Invalid
                                                           /\ u[ways[w].tag] > u[x]
LruIsExact ==
  \A id \in Caches : \A s \in DOMAIN cache[id].way :
    /\ OneWayEach(cache[id].way[s])
    /\ UsedLast(used[id], cache[id].way[s], {x \in AllLines : SetOf(G[id], x) = s})

(* No store is lost on the way to memory: either memory has absorbed it as *)
(* a timed write, or its line is in the L2, dirty (timing_cache.cpp:35-46). *)
StoresReachMemory ==
  \A x \in DOMAIN stores : written[x] # stores[x] =>
    /\ G[L2].writeback
    /\ \E s \in DOMAIN cache[L2].way, w \in 1..G[L2].ways :
         cache[L2].way[s][w].tag = x /\ cache[L2].way[s][w].dirty

(* Memory is written only what it does not have: no line is written back   *)
(* unless it was stored to since the last time it was.                     *)
OnlyStoresAreWritten ==
  [][\A r \in seen'.traffic : n' # n /\ r.w =>
       \A x \in r.lines : written[x] < stores'[x]]_vars

(* A read that hits the first level is invisible to the L2 and to memory,  *)
(* and one that hits the L2 to memory (timing_cache.cpp:649-652).          *)
HitsStayAbove ==
  [][n' # n /\ ~seen'.w =>
       /\ seen'.lines \subseteq LinesIn(seen'.id)
            => cache'[L2] = cache[L2] /\ seen'.traffic = {}
       /\ seen'.lines \subseteq LinesIn(L2) => seen'.traffic = {}]_vars

(* A load gets its data no earlier than the refill that brings the line,   *)
(* also when that refill was started by an earlier request and the load    *)
(* hits (timing_cache.cpp:453).                                            *)
LoadsWaitForRefills ==
  \A s \in DOMAIN cache[seen.id].way, w \in 1..G[seen.id].ways :
    LET way == cache[seen.id].way[s][w] IN
    way.tag \in seen.lines => seen.latency >= way.ready - now

==============================================================================
