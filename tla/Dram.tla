--------------------------------- MODULE Dram ---------------------------------
(***************************************************************************)
(* The timing engine of targets/hetero/dram_core.hpp for the LPDDR family: *)
(* an in-order controller with an open-page policy, a data bus per channel,*)
(* all-bank refresh and a write queue.  An access is one step, as it is    *)
(* one call of Engine::access(); all the commands it makes the controller  *)
(* issue, then and for writes queued before, are worked out in that call.  *)
(*                                                                         *)
(* Times are in clocks (tCK) of the preset.  An address is counted in      *)
(* granules: which bytes of a granule are asked for makes no difference.   *)
(* Each channel keeps a history of its commands, which the code does not.  *)
(***************************************************************************)
EXTENDS Integers, SequencesExt

CONSTANTS
  (* The parameters of a preset (struct Params), times in clocks: its      *)
  (* geometry, ...                                                         *)
  channels, ranks, bankgroups, banks, rows, cols,
  nb, burst, ctrl, tCK,       \* bursts in a granule, clocks of a burst, controller latency
  (* ... what one bank keeps between its commands, ...                     *)
  tRCD, tRP, tRPab, tRAS, tRC, tRL, tWL, tWR, tRTP,
  (* ... what banks of one rank keep, in a bank group (L) or not (S), ...  *)
  tRRD_S, tRRD_L, tFAW, tCCD_S, tCCD_L, tWTR_S, tWTR_L, tRTW, tRTW_L,
  (* ... refresh, and the write queue with its watermarks.                 *)
  tREFI, tRFC, wq_depth, wq_high, wq_low,
  Fields,       \* the address mapping, most significant field first
  Lines,        \* the granules the masters ask for
  Spans,        \* how many granules one access may cover
  Gaps,         \* the clocks between two accesses
  MaxAccesses   \* bound: accesses in a behaviour

(* What the constructor and the types of Params ask for.                   *)
ASSUME Parameters ==
  /\ \A x \in {channels, ranks, bankgroups, banks, rows, cols, nb, tCK} : x \in Nat \ {0}
  /\ \A x \in {burst, ctrl, tRCD, tRP, tRPab, tRAS, tRC, tRL, tWL, tWR, tRTP, tRRD_S, tRRD_L,
              tFAW, tCCD_S, tCCD_L, tWTR_S, tWTR_L, tRTW, tRTW_L, tREFI, tRFC} : x \in Nat
  /\ {wq_depth, wq_high, wq_low} \subseteq Nat
  /\ wq_depth > 0 => 0 < wq_low /\ wq_low <= wq_high /\ wq_high < wq_depth
  /\ Fields \in Seq({"Ro", "Ra", "Bg", "Ba", "Co", "Ch"})
  /\ Lines \cup Spans \cup Gaps \cup {MaxAccesses} \subseteq Nat

(* Without refresh, or with refreshes so far apart that whatever a burst   *)
(* and the refresh before it leave to wait for is over well before the     *)
(* next one, as in every preset of dram_presets.py.  (With a tRFC near      *)
(* tREFI the loop of burst() need not end.)                                *)
ASSUME RefreshIsSeldom ==
  tREFI > 0 => tRL + tWL + burst + tCK + tWR + tRTP + tRAS + tRPab + tRFC + tRCD < tREFI

(* What lets plan() look at the last ACTIVATE and the last column command  *)
(* only: the presets have one rank, and no constraint reaches over two     *)
(* commands that keep the short distance to each other.                    *)
ASSUME LastIsEnough ==
  /\ ranks = 1
  /\ tCCD_S <= tCCD_L /\ tCCD_L <= 2 * tCCD_S
  /\ tRRD_S <= tRRD_L /\ tRRD_L <= 2 * tRRD_S
  /\ tWTR_S <= tWTR_L
  /\ tRTW_L = 0 \/ (tRTW <= tRTW_L /\ tRTW_L <= tRTW + tCCD_S)

VARIABLES
  chan,      \* the channels: banks, bus, last commands, refresh, history
  wq,        \* writes waiting in the write queue
  leaving,   \* data-end times of the writes that still occupy their slot
  now,       \* time of the last access
  access,    \* the last access, when it was done, and how long the history of
             \* each channel was before it
  writes, merged, n   \* write bursts accepted and merged, accesses so far

vars == <<chan, wq, leaving, now, access, writes, merged, n>>

Nothing == -1        \* no row open, no rank or bank group seen yet
Never   == -1000000  \* INT64_MIN / 4: further back than any constraint reaches

Later(x, y) == IF x >= y THEN x ELSE y

(* s after so many turns of a loop.                                        *)
Loop(Turn(_, _), s, turns) ==
  LET f[i \in 0..turns] == IF i = 0 THEN s ELSE Turn(f[i - 1], i) IN f[turns]

Ranks == 0..(ranks - 1)
Banks == Ranks \X (0..(bankgroups - 1)) \X (0..(banks - 1))

(* parse_mapping() and decode(): the fields of a burst address, the last   *)
(* one lowest; a field the mapping leaves out has one value.               *)
SizeOf == [Ro |-> rows, Ra |-> ranks, Bg |-> bankgroups, Ba |-> banks,
           Co |-> cols, Ch |-> channels]
Place(f) == CHOOSE i \in DOMAIN Fields : Fields[i] = f
Weight(f) ==
  LET below == [g \in DOMAIN SizeOf |->
                  IF g \in ToSet(Fields) /\ Place(f) < Place(g) THEN SizeOf[g] ELSE 1]
  IN  below["Ro"] * below["Ra"] * below["Bg"] * below["Ba"] * below["Co"] * below["Ch"]
Field(a, f) == IF f \in ToSet(Fields) THEN (a \div Weight(f)) % SizeOf[f] ELSE 0
Decode(a) == [addr |-> a, ch |-> Field(a, "Ch"),
              bank |-> <<Field(a, "Ra"), Field(a, "Bg"), Field(a, "Ba")>>,
              row |-> Field(a, "Ro"), col |-> Field(a, "Co")]

(* The bursts the masters ask for, of addresses within the device: no two   *)
(* of them decode to the same place.                                       *)
Asked == UNION {{Decode(line * nb + i - 1) : i \in 1..(nb * span)} : line \in Lines, span \in Spans}
ASSUME PlacesDiffer ==
  \A x, y \in Asked :
    x.ch = y.ch /\ <<x.bank, x.row, x.col>> = <<y.bank, y.row, y.col>> => x.addr = y.addr

Bank0 == [open |-> Nothing, act |-> Never, act_ok |-> 0, pre_ok |-> 0]
Channel0 == [banks |-> [b \in Banks |-> Bank0], order |-> 0, bus_free |-> 0,
             last_col |-> Never, last_col_at |-> <<Nothing, Nothing>>,
             last_was_write |-> FALSE, last_write_end |-> Never,
             last_act |-> Never, last_act_at |-> <<Nothing, Nothing>>,
             faw |-> [r \in Ranks |-> <<>>], next_refresh |-> tREFI, log |-> <<>>]

------------------------------------------------------------------------------
(* Refresh.                                                                *)

(* One all-bank refresh, due at c.next_refresh: it waits for the bus and   *)
(* the banks, closes the open rows first, and leaves every bank closed.    *)
RefreshOnTheDot(c) == c.next_refresh
RefreshStart(c) ==
  LET open == {b \in Banks : c.banks[b].open # Nothing}
      waits == {c.next_refresh, c.bus_free} \cup {c.banks[b].act_ok : b \in Banks}
               \cup UNION {{c.banks[b].act + tRAS, c.banks[b].pre_ok} : b \in open}
  IN  Max(waits) + (IF open # {} THEN tRPab ELSE 0)

RefreshKeepsRows(c) ==
  [c EXCEPT !.next_refresh = @ + tREFI,
            !.banks = [b \in Banks |-> [c.banks[b] EXCEPT !.act_ok = RefreshStart(c) + tRFC]],
            !.log = Append(@, [cmd |-> "REF", at |-> RefreshStart(c),
                               end |-> RefreshStart(c) + tRFC])]
RefreshOne(c) ==
  LET start == RefreshStart(c)
      end   == start + tRFC
  IN  [c EXCEPT !.banks = [b \in Banks |-> [c.banks[b] EXCEPT !.open = Nothing,
                                                              !.act_ok = Later(@, end)]],
                !.next_refresh = @ + tREFI,
                !.log = Append(@, [cmd |-> "REF", at |-> start, end |-> end])]

(* Refreshes of an idle stretch that are over by t are skipped in one go.  *)
SkippedEndLate(c, k) == c.next_refresh + k * tREFI + tRFC
SkippedEnd(c, k) == c.next_refresh + k * tREFI - tREFI + tRFC
SkipIdle(c, end, t) ==
  LET k == (t - tRFC - c.next_refresh) \div tREFI
  IN  IF c.next_refresh + tRFC <= t /\ end <= c.next_refresh /\ k > 0
        THEN [c EXCEPT !.next_refresh = @ + k * tREFI,
                       !.banks = [b \in Banks |-> [c.banks[b] EXCEPT !.act_ok = Later(@, SkippedEnd(c, k))]]]
        ELSE c

RefreshDue(c, t) == tREFI > 0 /\ c.next_refresh <= t
RefreshesDue(c, t) == IF RefreshDue(c, t) THEN (t - c.next_refresh) \div tREFI + 1 ELSE 0
RefreshTurn(c, t) ==
  IF RefreshDue(c, t) THEN SkipIdle(RefreshOne(c), RefreshStart(c) + tRFC, t) ELSE c
Refresh(c, t) == Loop(LAMBDA x, i : RefreshTurn(x, t), c, RefreshesDue(c, t))

------------------------------------------------------------------------------
(* One burst.                                                              *)

SameBg(at, k) == at = <<k.bank[1], k.bank[2]>>

(* The ACTIVATE a burst to a closed bank or another row would get, from    *)
(* the earliest time its rank, its bank group and the bank itself allow.   *)
ActivateOwnBank(c, earliest, k) ==
  Max({earliest, c.banks[k.bank].act_ok, c.banks[k.bank].act + tRC})
ActivateAt(c, earliest, k) ==
  LET b   == c.banks[k.bank]
      faw == c.faw[k.bank[1]]
  IN  Max({earliest, b.act_ok, b.act + tRC}
          \cup (IF c.last_act_at[1] = k.bank[1]
                  THEN {c.last_act + (IF SameBg(c.last_act_at, k) THEN tRRD_L ELSE tRRD_S)}
                  ELSE {})
          \cup (IF Len(faw) = 4 THEN {Head(faw) + tFAW} ELSE {}))

(* The turnaround of the bus a column command waits for.                   *)
ShortTurnaround(c, same, w) ==
  (IF ~w /\ c.last_was_write THEN {c.last_write_end + tWTR_S} ELSE {})
  \cup (IF w /\ ~c.last_was_write
          THEN {c.last_col + (IF same /\ tRTW_L # 0 THEN tRTW_L ELSE tRTW)} ELSE {})
Turnaround(c, same, w) ==
  (IF ~w /\ c.last_was_write
     THEN {c.last_write_end + (IF same THEN tWTR_L ELSE tWTR_S)} ELSE {})
  \cup (IF w /\ ~c.last_was_write
          THEN {c.last_col + (IF same /\ tRTW_L # 0 THEN tRTW_L ELSE tRTW)} ELSE {})

(* The column command: its row, the spacing to the previous column command *)
(* and the turnaround of the bus, then the data slot.                      *)
ColumnAt(c, earliest, k, w) ==
  LET same == SameBg(c.last_col_at, k)
      lat  == IF w THEN tWL ELSE tRL
      col  == Max({earliest, c.last_col + (IF same THEN tCCD_L ELSE tCCD_S)}
                  \cup Turnaround(c, same, w))
  IN  Later(col + lat, c.bus_free) - lat

(* plan(): the commands of a burst at t, without touching any state.       *)
Plan(c, t, k, w) ==
  LET b    == c.banks[k.bank]
      kind == IF b.open = k.row THEN "hit" ELSE IF b.open # Nothing THEN "conflict" ELSE "miss"
      pre  == Max({t, b.act + tRAS, b.pre_ok})
      act  == CASE kind = "hit" -> b.act
                [] kind = "conflict" -> ActivateAt(c, pre + tRP, k)
                [] kind = "miss" -> ActivateAt(c, t, k)
      col  == ColumnAt(c, IF kind = "hit" THEN Later(t, act + tRCD) ELSE act + tRCD, k, w)
      first == CASE kind = "hit" -> Later(t, act + tRCD)
                 [] kind = "conflict" -> pre [] kind = "miss" -> act
  IN  [kind |-> kind, pre |-> pre, act |-> act, first |-> first, col |-> col,
       end |-> col + (IF w THEN tWL ELSE tRL) + burst]

(* When the bank may be precharged after the burst.                        *)
RecoveryFromCommand(pl, w) == pl.col + tRTP
Recovery(pl, w) == IF w THEN pl.end + tCK + tWR ELSE pl.col + tRTP

(* The times of the last four ACTIVATEs of a rank.                         *)
LastFour(faw, at) == Append(IF Len(faw) = 4 THEN Tail(faw) ELSE faw, at)

(* commit(): the channel after the burst, whose row is opened first if     *)
(* need be; due: when the next request arrives, for a write sent to an     *)
(* idle DRAM.                                                              *)
Precharged(c, pl, k) ==
  IF pl.kind # "conflict" THEN c
  ELSE [c EXCEPT !.log = Append(@, [cmd |-> "PRE", at |-> pl.pre, bank |-> k.bank])]
Activated(c, pl, k) ==
  IF pl.kind = "hit" THEN c
  ELSE [c EXCEPT !.faw[k.bank[1]] = LastFour(@, pl.act),
                 !.last_act = pl.act, !.last_act_at = <<k.bank[1], k.bank[2]>>,
                 !.banks[k.bank] = [@ EXCEPT !.open = k.row, !.act = pl.act],
                 !.log = Append(@, [cmd |-> "ACT", at |-> pl.act, bank |-> k.bank,
                                    row |-> k.row])]
Commit(c, pl, k, w, due) ==
  [Activated(Precharged(c, pl, k), pl, k) EXCEPT
     !.bus_free = pl.end, !.last_col = pl.col,
     !.last_col_at = <<k.bank[1], k.bank[2]>>, !.last_was_write = w,
     !.last_write_end = IF w THEN pl.end ELSE @,
     !.order = IF pl.first <= pl.col THEN pl.first ELSE pl.col,
     !.banks[k.bank].pre_ok = Later(@, Recovery(pl, w)),
     !.log = Append(@, [cmd |-> "COL", at |-> pl.col, bank |-> k.bank, row |-> k.row,
                        col |-> k.col, w |-> w, end |-> pl.end, due |-> due])]

(* burst(): any refresh due before the column command goes first.  The     *)
(* code repeats this while one is due; with RefreshIsSeldom none is after   *)
(* the second turn, and RowIsOpen says so.                                 *)
SettleTurn(c, t, k, w) == Refresh(c, Plan(c, t, k, w).col)
Settled(c, t, k, w) == SettleTurn(SettleTurn(c, t, k, w), t, k, w)

(* The engine's state, passed from call to call inside one access.         *)
(* s.done is when the burst just made is done.                             *)
Sent(s, c, pl, k, w, due) ==
  [s EXCEPT !.chan[k.ch] = Commit(c, pl, k, w, due), !.done = pl.end]
SentIn(s, c, t, k, w, due) == Sent(s, c, Plan(c, t, k, w), k, w, due)
BurstNow(s, t, k, w, due) ==
  SentIn(s, Settled(Refresh(s.chan[k.ch], t), t, k, w), t, k, w, due)
Burst(s, arrive, k, w, due) == BurstNow(s, Later(arrive, s.chan[k.ch].order), k, w, due)

------------------------------------------------------------------------------
(* The write queue.                                                        *)

Leaving(s) == [s EXCEPT !.leaving = Append(@, s.done)]
IssueOldest(s, t, due) ==
  LET q == Head(s.wq)
  IN  Leaving(Burst([s EXCEPT !.wq = Tail(@)], Later(t, q.arrive), q.to, TRUE, due))

(* drain_idle(): writes that would issue before t, when the next request   *)
(* arrives.  Once one would not, it stays at the front.                    *)
DrainAnyway(s, t) ==
  LET start == Later(Head(s.wq).arrive, s.chan[Head(s.wq).to.ch].order)
  IN  IF s.wq = <<>> \/ start >= t THEN s ELSE IssueOldest(s, start, t)
DrainTurn(s, t) ==
  LET k     == Head(s.wq).to
      start == Later(Head(s.wq).arrive, s.chan[k.ch].order)
      r     == [s EXCEPT !.chan[k.ch] = Refresh(@, start)]
  IN  IF s.wq = <<>> \/ start >= t THEN s
      ELSE IF Plan(r.chan[k.ch], start, k, TRUE).col >= t THEN r
      ELSE IssueOldest(r, start, t)
DrainIdle(s, t) == Loop(LAMBDA r, i : DrainTurn(r, t), s, Len(s.wq))

(* retire() drops the writes at the front that have left by t; a full      *)
(* queue then holds the new write back until a slot is free.               *)
RetireTurn(s, t) ==
  IF s.leaving # <<>> /\ Head(s.leaving) <= t THEN [s EXCEPT !.leaving = Tail(@)] ELSE s
Retire(s, t) == Loop(LAMBDA r, i : RetireTurn(r, t), s, Len(s.leaving))

FullOfWaiting(s) == Len(s.wq) >= wq_depth
Full(s) == Len(s.wq) + Len(s.leaving) >= wq_depth

FreeSlot(s) == [s EXCEPT !.at = Later(@, Head(s.leaving)), !.leaving = Tail(@)]
RoomTurn(s) ==
  IF Full(s) THEN FreeSlot(IF s.leaving = <<>> THEN IssueOldest(s, s.at, Nothing) ELSE s) ELSE s
MakeRoom(s) == Loop(LAMBDA r, i : RoomTurn(r), s, Len(s.wq) + Len(s.leaving))

BatchTurn(s, t) == IF Len(s.wq) >= wq_low THEN IssueOldest(s, t, Nothing) ELSE s
Batch(s, t) == Loop(LAMBDA r, i : BatchTurn(r, t), s, Len(s.wq))

(* queued(): one burst through the queue.                                  *)
NotLookedUp(s, k) == FALSE
InQueue(s, k) == \E i \in DOMAIN s.wq : s.wq[i].to.addr = k.addr
Accept(s, k) == [s EXCEPT !.wq = Append(@, [arrive |-> s.at, to |-> k])]
PastHigh(s) == [(IF Len(s.wq) > wq_high THEN Batch(s, s.at) ELSE s) EXCEPT !.done = s.at]
Lookup(s, arrive, k, w) ==
  CASE InQueue(s, k) /\ w  -> [s EXCEPT !.merged = @ + 1, !.done = arrive]
    [] InQueue(s, k) /\ ~w -> [s EXCEPT !.done = arrive + tCK]
    [] ~InQueue(s, k) /\ ~w -> Burst(s, arrive, k, FALSE, Nothing)
    [] ~InQueue(s, k) /\ w ->
         PastHigh(Accept(MakeRoom([Retire(s, arrive) EXCEPT !.at = arrive]), k))
Queued(s, arrive, k, w) == Lookup(DrainIdle(s, arrive), arrive, k, w)

(* access(): every burst of the granules asked for, in address order; done *)
(* when the last of them is.                                               *)
OneBurst(s, arrive, k, w) ==
  LET r == IF wq_depth > 0 THEN Queued(s, arrive, k, w) ELSE Burst(s, arrive, k, w, Nothing)
  IN  [r EXCEPT !.all = Later(@, r.done)]

Granules(s, arrive, line, span, w) ==
  Loop(LAMBDA r, i : OneBurst(r, arrive, Decode(line * nb + i - 1), w), s, nb * span)

Access(gap, line, span, w) ==
  LET arrive == now + gap + ctrl \div 2
      s == Granules([chan |-> chan, wq |-> wq, leaving |-> leaving, merged |-> merged,
                     done |-> arrive, all |-> arrive, at |-> arrive], arrive, line, span, w)
  IN  /\ n < MaxAccesses /\ n' = n + 1
      /\ now' = now + gap
      /\ chan' = s.chan /\ wq' = s.wq /\ leaving' = s.leaving /\ merged' = s.merged
      /\ writes' = IF w THEN writes + nb * span ELSE writes
      /\ access' = [w |-> w, arrive |-> now + gap,
                    done |-> s.all + (ctrl - ctrl \div 2), line |-> line, span |-> span,
                    old |-> [c \in DOMAIN chan |-> Len(chan[c].log)]]

Init ==
  /\ chan = [c \in 0..(channels - 1) |-> Channel0]
  /\ wq = <<>> /\ leaving = <<>> /\ now = 0
  /\ access = [w |-> FALSE, arrive |-> 0, done |-> 0, line |-> 0, span |-> 0,
               old |-> [c \in 0..(channels - 1) |-> 0]]
  /\ writes = 0 /\ merged = 0 /\ n = 0

Next == \E gap \in Gaps, line \in Lines, span \in Spans, w \in BOOLEAN :
          Access(gap, line, span, w)

Spec == Init /\ [][Next]_vars

------------------------------------------------------------------------------
(* Properties.  Each speaks of the commands of the last access, New(c), and *)
(* all the commands before them; l is the history of one channel.           *)

New(c) == (access.old[c] + 1)..Len(chan[c].log)

(* TRUE of every new command y, at place j, and of every one before it.    *)
EveryPair(Holds(_, _)) ==
  \A c \in DOMAIN chan : \A j \in New(c) : \A i \in 1..(j - 1) :
     Holds(chan[c].log[i], chan[c].log[j])

IsCmd(x, cmd) == x.cmd = cmd
SameRank(x, y) == x.bank[1] = y.bank[1]
SameGroup(x, y) == SameRank(x, y) /\ x.bank[2] = y.bank[2]
Spacing(x, y, long, short) == y.at - x.at >= IF SameGroup(x, y) THEN long ELSE short

(* Every ACTIVATE keeps tRC to the last one of its bank, tRRD to every one *)
(* of its rank and tFAW to the fourth before it, though commit() keeps only *)
(* the last one and a queue of four (dram_core.hpp:497-501).               *)
ActivatesApart(x, y) ==
  IsCmd(x, "ACT") /\ IsCmd(y, "ACT") =>
    /\ x.bank = y.bank => y.at - x.at >= tRC
    /\ SameRank(x, y) => Spacing(x, y, tRRD_L, tRRD_S)
FourInWindow ==
  \A c \in DOMAIN chan : \A j \in New(c) :
    LET l == chan[c].log
        before == {i \in 1..(j - 1) : IsCmd(l[i], "ACT") /\ SameRank(l[i], l[j])}
    IN  IsCmd(l[j], "ACT") /\ Cardinality(before) >= 4 =>
          Cardinality({i \in before : l[j].at - l[i].at < tFAW}) < 4

(* A column command finds its row open: some ACTIVATE of that row is at    *)
(* least tRCD old and no PRECHARGE of the bank and no refresh came after.  *)
(* And it is given before the next refresh falls due: "a controller does   *)
(* not start an access it would have to interrupt" (dram_core.hpp:567).    *)
RowIsOpen ==
  \A c \in DOMAIN chan : \A j \in New(c) :
     LET l == chan[c].log IN
     IsCmd(l[j], "COL") =>
       /\ tREFI > 0 => l[j].at < chan[c].next_refresh
       /\ \E i \in 1..(j - 1) :
            /\ IsCmd(l[i], "ACT") /\ l[i].bank = l[j].bank /\ l[i].row = l[j].row
            /\ l[j].at >= l[i].at + tRCD
            /\ \A k \in (i + 1)..(j - 1) :
                 ~IsCmd(l[k], "REF") /\ (IsCmd(l[k], "PRE") => l[k].bank # l[j].bank)

(* A row is closed, by a PRECHARGE or by the precharge-all of a refresh,   *)
(* only tRAS after it was opened and after its last read (tRTP) or write   *)
(* (tWR from the end of the data); what follows on the bank keeps tRP.     *)
Recovered(x, at) == CASE IsCmd(x, "ACT") -> at >= x.at + tRAS
                      [] IsCmd(x, "COL") -> at >= (IF x.w THEN x.end + tCK + tWR
                                                          ELSE x.at + tRTP)
                      [] OTHER -> TRUE
ClosedWithCare(x, y) ==
  /\ IsCmd(y, "PRE") /\ ~IsCmd(x, "REF") /\ x.bank = y.bank => Recovered(x, y.at)
  /\ IsCmd(y, "REF") => Recovered(x, y.at)
  /\ IsCmd(y, "ACT") /\ IsCmd(x, "PRE") /\ x.bank = y.bank => y.at >= x.at + tRP

(* While a refresh runs the channel is silent: all data sent before it is  *)
(* over, and no command is given until tRFC has passed.                    *)
RefreshAlone(x, y) ==
  /\ IsCmd(y, "REF") /\ IsCmd(x, "COL") => y.at >= x.end
  /\ IsCmd(x, "REF") => y.at >= x.end

(* The data of two bursts never overlap on the channel's bus, and column   *)
(* commands keep tCCD, from read to write tRTW and from write to read      *)
(* tWTR_S to every earlier one, not only to the last, which is all plan()  *)
(* looks at.                                                               *)
DataStart(x) == x.at + (IF x.w THEN tWL ELSE tRL)
WriteThenRead(x, y) == IsCmd(x, "COL") /\ IsCmd(y, "COL") /\ x.w /\ ~y.w
BusShared(x, y) ==
  IsCmd(x, "COL") /\ IsCmd(y, "COL") =>
    /\ DataStart(y) >= x.end
    /\ Spacing(x, y, tCCD_L, tCCD_S)
    /\ ~x.w /\ y.w => Spacing(x, y, Later(tRTW, tRTW_L), tRTW)
    /\ WriteThenRead(x, y) => y.at >= x.end + tWTR_S

(* The longer tWTR_L, which a read owes every earlier write of its bank    *)
(* group, it keeps to those after which no other group had a column        *)
(* command.  To the others the code gives no such promise.                 *)
GroupKept(l, i, j) ==
  \A k \in (i + 1)..(j - 1) : IsCmd(l[k], "COL") => SameGroup(l[k], l[j])
TurnaroundKept(l, i, j) ==
  WriteThenRead(l[i], l[j]) /\ SameGroup(l[i], l[j]) /\ GroupKept(l, i, j) =>
    l[j].at >= l[i].end + tWTR_L
GroupTurnsKept ==
  \A c \in DOMAIN chan : \A j \in New(c) : \A i \in 1..(j - 1) :
     TurnaroundKept(chan[c].log, i, j)

(* Towards every earlier command of the channel: tRC, tRRD and tFAW, tRAS, *)
(* tRTP, tWR and tRP, tRFC, tCCD, tRTW and the data bus, and tWTR as far    *)
(* as plan() keeps it (plan() and burst(), dram_core.hpp:480-600).         *)
TimingsKept ==
  /\ EveryPair(ActivatesApart) /\ FourInWindow
  /\ EveryPair(ClosedWithCare) /\ EveryPair(RefreshAlone) /\ EveryPair(BusShared)
  /\ GroupTurnsKept

(* dram_core.hpp:12-13, "every burst activates, precharges and transfers   *)
(* under the JEDEC constraints listed in Params", tWTR_L among them: a     *)
(* read waits it out after every earlier write of its bank group.  plan()  *)
(* knows the group of the last column command only (dram_core.hpp:509).    *)
WritesTurnAround ==
  EveryPair(LAMBDA x, y : WriteThenRead(x, y) /\ SameGroup(x, y) => y.at >= x.end + tWTR_L)

(* A queued write that drain_idle() sends gets its column command before   *)
(* the next request arrives (dram_core.hpp:416-418), unless a refresh falls *)
(* due after the plan it was sent on: then it is the next to go after that *)
(* refresh, as soon as its row is open.                                    *)
IdleWritesIssueBefore ==
  \A c \in DOMAIN chan : \A j \in New(c) :
     LET l == chan[c].log
     IN  IsCmd(l[j], "COL") /\ l[j].due # Nothing /\ l[j].at >= l[j].due =>
           \E i \in New(c) : /\ i < j /\ IsCmd(l[i], "REF")
                             /\ \A k \in (i + 1)..(j - 1) : ~IsCmd(l[k], "COL")
                             /\ l[j].at <= l[i].end + tRCD

(* Skipping the refreshes of an idle stretch "changes nothing but the      *)
(* count" (dram_core.hpp:355-358): one by one they leave the same state.   *)
RefreshAll(c, t) ==
  Loop(LAMBDA x, i : IF RefreshDue(x, t) THEN RefreshOne(x) ELSE x, c, RefreshesDue(c, t))
Untold(c) == [c EXCEPT !.log = <<>>]
SkippingChangesNothing ==
  tREFI > 0 => \A c \in DOMAIN chan, k \in 1..2, d \in {tRFC - 1, tRFC} :
    LET t == chan[c].next_refresh + k * tREFI + d
    IN  Untold(Refresh(chan[c], t)) = Untold(RefreshAll(chan[c], t))

(* No write burst is lost or written twice: each was merged, waits in the  *)
(* queue, or went to the DRAM once; and no burst waits twice.              *)
Columns(w) == UNION {{<<c, i>> : i \in {j \in DOMAIN chan[c].log :
                       IsCmd(chan[c].log[j], "COL") /\ chan[c].log[j].w = w}} : c \in DOMAIN chan}
WritesAccountedFor ==
  /\ writes = merged + Len(wq) + Cardinality(Columns(TRUE))
  /\ \A i, j \in DOMAIN wq : wq[i].to.addr = wq[j].to.addr => i = j

(* The queue has room for what it holds: at the time the last write was    *)
(* accepted, the writes still waiting and those whose data has not all     *)
(* left come to no more than wq_depth.                                     *)
SlotsSuffice ==
  wq # <<>> =>
    LET t == Max({q.arrive : q \in ToSet(wq)})
    IN  Len(wq) + Cardinality({p \in Columns(TRUE) : chan[p[1]].log[p[2]].end > t}) <= wq_depth

Target(x) == <<x.bank, x.row, x.col>>
NoReadOvertakes ==
  \A c \in DOMAIN chan :
     LET l == chan'[c].log IN
     \A j \in (access'.old[c] + 1)..Len(l), q \in ToSet(wq) :
       IsCmd(l[j], "COL") /\ ~l[j].w /\ q.to.ch = c
         /\ Target(l[j]) = <<q.to.bank, q.to.row, q.to.col>> =>
         \E i \in (access'.old[c] + 1)..(j - 1) :
           IsCmd(l[i], "COL") /\ l[i].w /\ Target(l[i]) = Target(l[j])

(* Whatever a read gets from the DRAM was written before it: no burst is   *)
(* read there while an earlier write to it still waits in the queue        *)
(* (queued(), dram_core.hpp:371-384).                                      *)
ReadsSeeWrites == [][NoReadOvertakes]_vars
==============================================================================
