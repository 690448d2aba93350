----------------------------- MODULE DramProofs -----------------------------
(***************************************************************************)
(* Theorems about Dram, for every preset (any timings, geometry, mapping   *)
(* and watermarks its assumptions allow), any masters and any number of    *)
(* accesses.                                                               *)
(*                                                                         *)
(* The inductive invariant says that the few times a channel remembers     *)
(* stand for its whole history: every command it has given is behind what  *)
(* those times make the next one wait for (Behind), every open row was     *)
(* opened by an ACTIVATE that nothing has closed since (OpenRows), and the *)
(* queue of four ACTIVATEs bounds how many there were in any tFAW          *)
(* (FawHolds), and what a read owes the writes of its bank group is owed   *)
(* by the last column command too, unless another group's came between     *)
(* (TurnsHold).  Refresh, plan() and commit() each keep this, so a burst   *)
(* does; the loops of the write queue only make bursts.  Beside it goes    *)
(* the account of the queue: what was written, waits or was merged, and    *)
(* which writes still occupy a slot (Room).                                *)
(***************************************************************************)
EXTENDS Dram, FiniteSetTheorems, SequenceTheorems, WellFoundedInduction, TLAPS

\* Every set of naturals has a smallest member.
LEMMA Smallest ==
  ASSUME NEW T \in SUBSET Nat, T # {}
  PROVE  \E m \in T : \A i \in T : m <= i
<1> DEFINE Less == {p \in Nat \X Nat : p[1] < p[2]}
<1>1. IsWellFoundedOn(Less, Nat)
  BY NatLessThanWellFounded DEF OpToRel
<1>2. PICK m \in T : \A i \in T : ~(<<i, m>> \in Less)
  <2> HIDE DEF Less
  <2> QED BY <1>1, WFMin
<1>3. \A i \in T : i \in Nat /\ m \in Nat
  OBVIOUS
<1>4. \A i \in T : ~(i < m)
  BY <1>2, <1>3
<1>5. QED BY <1>3, <1>4

\* Induction, for a set in place of a predicate.
LEMMA Induction ==
  ASSUME NEW T \in SUBSET Nat, 0 \in T, \A k \in T : k + 1 \in T
  PROVE  T = Nat
<1>1. SUFFICES ASSUME T # Nat PROVE FALSE
  OBVIOUS
<1>2. PICK m \in Nat \ T : \A i \in Nat \ T : m <= i
  BY <1>1, Smallest
<1>3. m # 0 /\ m - 1 \in Nat /\ ~(m - 1 \in Nat \ T)
  BY <1>2
<1>4. QED BY <1>3, <1>2

\* The values a loop takes, one after the other, when turn k leads from V[k - 1]
\* to V[k].
Leads(G, V, N) == \A k \in 1..N : \A x \in V[k - 1] : G[k][x] \in V[k]
IsRun(f, s, G, V, N) ==
  /\ f = [k \in 0..N |-> f[k]] /\ f[0] = s
  /\ \A k \in 1..N : f[k] = G[k][f[k - 1]]
  /\ \A k \in 0..N : f[k] \in V[k]

\* There is such a run, whatever the turns.
LEMMA Iterates ==
  ASSUME NEW N \in Nat, NEW V, NEW G, NEW s \in V[0], Leads(G, V, N)
  PROVE  \E f : IsRun(f, s, G, V, N)
<1> DEFINE Is(f, m) == /\ f = [k \in 0..m |-> IF k = 0 THEN s ELSE G[k][f[k - 1]]]
                       /\ \A k \in 0..m : f[k] \in V[k]
           T == {m \in Nat : m <= N => \E f : Is(f, m)}
<1>1. 0 \in T
  <2> DEFINE f == [k \in 0..0 |-> s]
  <2>1. Is(f, 0)
    BY SMT
  <2>2. QED BY <2>1
<1>2. \A m \in T : m + 1 \in T
  <2> SUFFICES ASSUME NEW m \in T, m + 1 <= N PROVE \E f : Is(f, m + 1)
    <3> HIDE DEF Is
    <3> QED OBVIOUS
  <2>1. PICK h : Is(h, m)
    <3> HIDE DEF Is
    <3> QED OBVIOUS
  <2> DEFINE f == [k \in 0..(m + 1) |-> IF k = m + 1 THEN G[m + 1][h[m]] ELSE h[k]]
  <2>2. \A k \in 0..m : /\ h[k] = IF k = 0 THEN s ELSE G[k][h[k - 1]]
                        /\ h[k] \in V[k]
    BY <2>1
  <2>3. h[m] \in V[m] /\ G[m + 1][h[m]] \in V[m + 1]
    BY <2>2 DEF Leads
  <2>4. \A k \in 0..(m + 1) : f[k] = (IF k = 0 THEN s ELSE G[k][f[k - 1]]) /\ f[k] \in V[k]
    <3> TAKE k \in 0..(m + 1)
    <3>1. CASE k = m + 1
      BY <3>1, <2>3
    <3>2. CASE k \in 0..m
      <4>1. k # 0 => k - 1 \in 0..m
        BY <3>2
      <4>2. QED BY <3>2, <4>1, <2>2
    <3>3. QED BY <3>1, <3>2
  <2>5. f = [k \in 0..(m + 1) |-> f[k]]
    OBVIOUS
  <2> HIDE DEF f
  <2>6. Is(f, m + 1)
    BY <2>4, <2>5
  <2>7. QED BY <2>6
<1>3. T = Nat
  BY <1>1, <1>2, Induction
<1>4. PICK f : Is(f, N)
  BY <1>3
<1>5. /\ f = [k \in 0..N |-> f[k]] /\ f[0] = s
      /\ \A k \in 1..N : f[k] = G[k][f[k - 1]]
  BY <1>4
<1>6. QED BY <1>4, <1>5 DEF IsRun

\* What a recursion keeps from step to step holds of its last value.
LEMMA StaysIn ==
  ASSUME NEW N \in Nat, NEW V, NEW f, f[0] \in V[0],
         \A k \in 1..N : f[k - 1] \in V[k - 1] => f[k] \in V[k]
  PROVE  f[N] \in V[N]
<1> DEFINE T == {k \in Nat : k <= N => f[k] \in V[k]}
<1>1. 0 \in T
  OBVIOUS
<1>2. \A k \in T : k + 1 \in T
  <2> SUFFICES ASSUME NEW k \in T, k + 1 <= N PROVE f[k + 1] \in V[k + 1]
    OBVIOUS
  <2>1. k + 1 \in 1..N /\ (k + 1) - 1 = k
    OBVIOUS
  <2>2. f[k] \in V[k]
    OBVIOUS
  <2>3. QED BY <2>1, <2>2
<1>3. T = Nat
  BY <1>1, <1>2, Induction
<1>4. QED BY <1>3

\* What the turns of refresh()'s loop keep holds when it ends.
LEMMA RefreshIn ==
  ASSUME NEW c, NEW t, RefreshesDue(c, t) \in Nat, NEW V, c \in V[0],
         \A k \in 1..RefreshesDue(c, t) : \A x \in V[k - 1] : RefreshTurn(x, t) \in V[k]
  PROVE  Refresh(c, t) \in V[RefreshesDue(c, t)]
<1> DEFINE N == RefreshesDue(c, t)
           Turn(x, k) == RefreshTurn(x, t)
           G == [k \in 1..N |-> [x \in V[k - 1] |-> Turn(x, k)]]
           Is(f) == f = [i \in 0..N |-> IF i = 0 THEN c ELSE Turn(f[i - 1], i)]
           f0 == CHOOSE f : Is(f)
<1>1. Refresh(c, t) = f0[N]
  BY DEF Refresh, Loop
<1>2. N \in Nat /\ \A k \in 1..N : \A x \in V[k - 1] : Turn(x, k) \in V[k]
  OBVIOUS
<1> HIDE DEF N, Turn
<1>3. \A k \in 1..N : \A x \in V[k - 1] : G[k][x] = Turn(x, k)
  OBVIOUS
<1> HIDE DEF G
<1>4. PICK g : IsRun(g, c, G, V, N)
  <2>1. Leads(G, V, N)
    BY <1>2, <1>3 DEF Leads
  <2>2. QED BY <1>2, <2>1, Iterates
<1>5. Is(g)
  <2>1. \A k \in 0..N : k # 0 => k - 1 \in 0..N /\ k \in 1..N
    BY <1>2
  <2>2. \A k \in 0..N : g[k] = IF k = 0 THEN c ELSE Turn(g[k - 1], k)
    BY <1>2, <1>3, <1>4, <2>1 DEF IsRun
  <2>3. QED BY <1>4, <2>2 DEF IsRun
<1>6. f0[0] = c /\ \A k \in 1..N : f0[k] = Turn(f0[k - 1], k)
  <2>1. Is(f0)
    BY <1>5
  <2> HIDE DEF f0
  <2>2. QED BY <1>2, <2>1
<1> HIDE DEF f0, Is
<1>7. QED
  <2>1. f0[0] \in V[0] /\ \A k \in 1..N : f0[k - 1] \in V[k - 1] => f0[k] \in V[k]
    BY <1>2, <1>6
  <2>2. f0[N] \in V[N]
    BY <1>2, <2>1, StaysIn
  <2>3. QED BY <1>1, <2>2 DEF N

\* The largest of finitely many times.
LEMMA MaxIs ==
  ASSUME NEW S \in SUBSET Int, S # {}, IsFiniteSet(S)
  PROVE  Max(S) \in S /\ \A y \in S : Max(S) >= y
<1> DEFINE HasMax(U) == \E x \in U : \A y \in U : x >= y
           T == {m \in Nat : \A U \in SUBSET Int :
                   IsFiniteSet(U) /\ Cardinality(U) = m /\ U # {} => HasMax(U)}
<1>1. 0 \in T
  BY FS_EmptySet
<1>2. \A m \in T : m + 1 \in T
  <2> SUFFICES ASSUME NEW m \in T, NEW U \in SUBSET Int,
                      IsFiniteSet(U), Cardinality(U) = m + 1, U # {}
               PROVE  HasMax(U)
    <3> HIDE DEF HasMax
    <3> QED OBVIOUS
  <2>1. PICK z \in U : TRUE
    OBVIOUS
  <2>2. IsFiniteSet(U \ {z}) /\ Cardinality(U \ {z}) = m
    <3>1. Cardinality(U \ {z}) = Cardinality(U) - 1 /\ IsFiniteSet(U \ {z})
      BY <2>1, FS_RemoveElement
    <3>2. QED BY <3>1
  <2>3. CASE U \ {z} = {}
    BY <2>1, <2>3
  <2>4. CASE U \ {z} # {}
    <3>1. HasMax(U \ {z})
      <4> HIDE DEF HasMax
      <4> QED BY <2>2, <2>4
    <3>2. PICK x \in U \ {z} : \A y \in U \ {z} : x >= y
      BY <3>1
    <3>3. CASE x >= z
      BY <3>2, <3>3
    <3>4. CASE ~(x >= z)
      BY <2>1, <3>2, <3>4
    <3>5. QED BY <3>3, <3>4
  <2>5. QED BY <2>3, <2>4
<1>3. T = Nat
  BY <1>1, <1>2, Induction
<1>4. HasMax(S)
  <2>1. Cardinality(S) \in Nat
    BY FS_CardinalityType
  <2> HIDE DEF HasMax
  <2>2. QED BY <1>3, <2>1
<1>5. QED BY <1>4 DEF Max

\* The constants are what the assumptions say, one by one.
LEMMA Times ==
  /\ channels \in Nat \ {0} /\ bankgroups \in Nat \ {0} /\ banks \in Nat \ {0}
  /\ rows \in Nat \ {0} /\ cols \in Nat \ {0} /\ nb \in Nat \ {0} /\ tCK \in Nat \ {0}
  /\ ranks = 1 /\ burst \in Nat /\ ctrl \in Nat /\ tRCD \in Nat /\ tRP \in Nat
  /\ tRPab \in Nat /\ tRAS \in Nat /\ tRC \in Nat /\ tRL \in Nat /\ tWL \in Nat
  /\ tWR \in Nat /\ tRTP \in Nat /\ tRRD_S \in Nat /\ tRRD_L \in Nat /\ tFAW \in Nat
  /\ tCCD_S \in Nat /\ tCCD_L \in Nat /\ tWTR_S \in Nat /\ tWTR_L \in Nat
  /\ tRTW \in Nat /\ tRTW_L \in Nat /\ tREFI \in Nat /\ tRFC \in Nat
  /\ wq_depth \in Nat /\ wq_high \in Nat /\ wq_low \in Nat
BY Parameters, LastIsEnough

------------------------------------------------------------------------------
(* Commands, banks and channels. *)

BankT == [open : Nat \cup {Nothing}, act : Int, act_ok : Int, pre_ok : Int]
Command == [cmd : {"REF"}, at : Int, end : Int]
           \cup [cmd : {"PRE"}, at : Int, bank : Banks]
           \cup [cmd : {"ACT"}, at : Int, bank : Banks, row : Nat]
           \cup [cmd : {"COL"}, at : Int, bank : Banks, row : Nat, col : Nat, w : BOOLEAN,
                 end : Int, due : Int]
ChannelT == [banks : [Banks -> BankT], order : Int, bus_free : Int, last_col : Int,
             last_col_at : Int \X Int, last_was_write : BOOLEAN, last_write_end : Int,
             last_act : Int, last_act_at : Int \X Int, faw : [Ranks -> Seq(Int)],
             next_refresh : Int, log : Seq(Command)]
BurstT == [addr : Nat, ch : 0..(channels - 1), bank : Banks, row : Nat, col : Nat]

\* There is one rank, and finitely many banks in it.
LEMMA BanksAre ==
  /\ IsFiniteSet(Banks) /\ Banks # {} /\ Ranks = {0}
  /\ \A b \in Banks : b[1] = 0 /\ b[2] \in Nat
<1> DEFINE A == 0..(bankgroups - 1)
           B == 0..(banks - 1)
<1>1. Ranks = {0}
  BY Times DEF Ranks
<1>2. IsFiniteSet(A) /\ IsFiniteSet(B) /\ IsFiniteSet(Ranks)
  <2>1. bankgroups - 1 \in Int /\ banks - 1 \in Int /\ 0 \in Int
    BY Times
  <2>2. IsFiniteSet(A) /\ IsFiniteSet(B)
    BY <2>1, FS_Interval
  <2>3. QED BY <1>1, <2>2, FS_Singleton
<1>3. <<0, 0, 0>> \in Banks
  BY Times, <1>1 DEF Banks
<1>4. \A b \in Banks : b[1] = 0 /\ b[2] \in Nat
  BY <1>1, Times DEF Banks
<1>5. IsFiniteSet(Banks)
  <2> DEFINE P == (Ranks \X A) \X B
             f == [p \in P |-> <<p[1][1], p[1][2], p[2]>>]
  <2>1. IsFiniteSet(Ranks \X A)
    BY <1>2, FS_Product
  <2>2. IsFiniteSet(P)
    BY <1>2, <2>1, FS_Product
  <2>3. f \in Surjection(P, Banks)
    <3>1. \A p \in P : f[p] \in Banks
      BY DEF Banks
    <3>2. ASSUME NEW b \in Banks PROVE \E p \in P : f[p] = b
      <4>1. <<<<b[1], b[2]>>, b[3]>> \in P /\ b = <<b[1], b[2], b[3]>>
        BY DEF Banks
      <4>2. f[<<<<b[1], b[2]>>, b[3]>>] = b
        BY <4>1
      <4>3. QED BY <4>1, <4>2
    <3>3. f \in [P -> Banks]
      BY <3>1
    <3> HIDE DEF f
    <3>4. QED BY <3>2, <3>3 DEF Surjection
  <2> HIDE DEF f
  <2>4. QED BY <2>2, <2>3, FS_Surjection
<1>6. QED BY <1>1, <1>3, <1>4, <1>5

\* The fields a command has.
LEMMA CommandIs ==
  ASSUME NEW x \in Command
  PROVE  /\ x.at \in Int
         /\ x.cmd \in {"REF", "PRE", "ACT", "COL"}
         /\ x.cmd = "REF" => x.end \in Int
         /\ x.cmd # "REF" => x.bank \in Banks /\ x.bank[1] = 0 /\ x.bank[2] \in Nat
         /\ x.cmd = "COL" => x.end \in Int /\ x.w \in BOOLEAN /\ x.row \in Nat
         /\ x.cmd = "ACT" => x.row \in Nat
BY BanksAre DEF Command

------------------------------------------------------------------------------
(* What a channel's state says of its history. *)

Fits(x, y) == ActivatesApart(x, y) /\ ClosedWithCare(x, y) /\ RefreshAlone(x, y) /\ BusShared(x, y)
Paired(l) == \A j \in 1..Len(l) : \A i \in 1..(j - 1) : Fits(l[i], l[j])

\* The time from which a bank may be closed, or refreshed when it is closed.
Rest(b) == IF b.open = Nothing THEN b.act_ok ELSE Later(b.act + tRAS, b.pre_ok)

\* The command x is behind what the channel's state makes the next one wait for.
BankBehind(c, x) ==
  /\ x.cmd = "REF" => \A b \in Banks : /\ x.end <= c.banks[b].act_ok
                                       /\ c.banks[b].open # Nothing => x.end <= c.banks[b].act
  /\ x.cmd # "REF" => Recovered(x, Rest(c.banks[x.bank]))
  /\ x.cmd = "ACT" => x.at <= c.banks[x.bank].act
  /\ x.cmd = "PRE" => x.at + tRP <= c.banks[x.bank].act
ActBehind(c, x) ==
  x.cmd = "ACT" => /\ c.last_act_at[1] = 0 /\ x.at <= c.last_act
                   /\ c.last_act_at[2] # x.bank[2] => x.at + tRRD_S <= c.last_act
ColBehind(c, x) ==
  x.cmd = "COL" =>
    /\ x.end <= c.bus_free /\ c.last_col_at[1] = 0 /\ x.at <= c.last_col
    /\ c.last_col_at[2] # x.bank[2] => x.at + tCCD_S <= c.last_col
    /\ x.w => x.end <= c.last_write_end
    /\ x.w /\ ~c.last_was_write => x.end + tWTR_S <= c.last_col
    /\ ~x.w /\ c.last_was_write => /\ x.at + tRTW <= c.last_col
                                   /\ c.last_col_at[2] = x.bank[2] =>
                                        x.at + Later(tRTW, tRTW_L) <= c.last_col
Behind(c, x) == BankBehind(c, x) /\ ActBehind(c, x) /\ ColBehind(c, x)

\* The ACTIVATE at i opened the row of bank b that is open up to place j.
Opens(l, i, b, row, j) ==
  /\ l[i].cmd = "ACT" /\ l[i].bank = b /\ l[i].row = row
  /\ \A k \in (i + 1)..(j - 1) : l[k].cmd # "REF" /\ (l[k].cmd = "PRE" => l[k].bank # b)
OpenRows(c) ==
  \A b \in Banks : c.banks[b].open # Nothing =>
    \E i \in 1..Len(c.log) : /\ Opens(c.log, i, b, c.banks[b].open, Len(c.log) + 1)
                             /\ c.log[i].at <= c.banks[b].act
Columned(l, j) ==
  \E i \in 1..(j - 1) : Opens(l, i, l[j].bank, l[j].row, j) /\ l[j].at >= l[i].at + tRCD
RowsInOrder(c) ==
  \A j \in 1..Len(c.log) : c.log[j].cmd = "COL" =>
    Columned(c.log, j) /\ (tREFI > 0 => c.log[j].at < c.next_refresh)

\* Of the ACTIVATEs after the k-th of the queue there are no more than behind it in
\* the queue.
Acts(l, j) == {i \in 1..j : l[i].cmd = "ACT"}
InWindow(l, j) == {i \in Acts(l, j - 1) : l[j].at - l[i].at < tFAW}
FawHolds(c) ==
  LET q == c.faw[0] IN
  /\ Len(q) <= 4
  /\ Len(q) < 4 => Cardinality(Acts(c.log, Len(c.log))) <= Len(q)
  /\ \A k \in 1..Len(q) :
       Cardinality({i \in Acts(c.log, Len(c.log)) : c.log[i].at > q[k]}) <= Len(q) - k
FawKept(l) ==
  \A j \in 1..Len(l) : l[j].cmd = "ACT" /\ Cardinality(Acts(l, j - 1)) >= 4 =>
    Cardinality(InWindow(l, j)) < 4

\* The write at i, after which only its own bank group had column commands up to
\* place j, binds a read of that group at j, and the next one.
GroupWrite(l, i, j) ==
  /\ l[i].cmd = "COL" /\ l[i].w
  /\ \A k \in (i + 1)..(j - 1) : l[k].cmd = "COL" => l[k].bank[2] = l[i].bank[2]
TurnsKept(l) ==
  \A j \in 1..Len(l) : \A i \in 1..(j - 1) :
    GroupWrite(l, i, j) /\ l[j].cmd = "COL" /\ ~l[j].w /\ l[j].bank[2] = l[i].bank[2] =>
      l[i].end + tWTR_L <= l[j].at
TurnsBehind(c) ==
  \A i \in 1..Len(c.log) : GroupWrite(c.log, i, Len(c.log) + 1) =>
    /\ c.last_col_at[2] = c.log[i].bank[2]
    /\ ~c.last_was_write => c.log[i].end + tWTR_L <= c.last_col
TurnsHold(c) == TurnsKept(c.log) /\ TurnsBehind(c)

\* Nothing that a refresh waits for is far beyond the time it is due.
Far == tRL + tWL + burst + tCK + tWR + tRTP + tRAS
InReach(c) ==
  tREFI > 0 =>
    /\ c.bus_free <= c.next_refresh + Far
    /\ \A b \in Banks : /\ c.banks[b].act_ok <= c.next_refresh + Far
                        /\ c.banks[b].act + tRAS <= c.next_refresh + Far
                        /\ c.banks[b].pre_ok <= c.next_refresh + Far

ChannelInv(c) ==
  /\ Paired(c.log) /\ FawKept(c.log)
  /\ \A i \in 1..Len(c.log) : Behind(c, c.log[i])
  /\ OpenRows(c) /\ RowsInOrder(c) /\ FawHolds(c) /\ TurnsHold(c) /\ InReach(c)
Channels == {c \in ChannelT : ChannelInv(c)}

\* A refresh waits for all it has to wait for, and for nothing else: if that is over
\* by u, it starts by u, or tRPab later when rows have to be closed first.
LEMMA RefreshStartIs ==
  ASSUME NEW c \in ChannelT
  PROVE  LET s == RefreshStart(c) IN
         /\ s \in Int /\ c.next_refresh <= s /\ c.bus_free <= s
         /\ \A b \in Banks : /\ c.banks[b].act_ok <= s
                             /\ c.banks[b].open # Nothing =>
                                  c.banks[b].act + tRAS <= s /\ c.banks[b].pre_ok <= s
         /\ \A u \in Int :
              /\ c.next_refresh <= u /\ c.bus_free <= u
              /\ \A b \in Banks : /\ c.banks[b].act_ok <= u
                                  /\ c.banks[b].open # Nothing =>
                                       c.banks[b].act + tRAS <= u /\ c.banks[b].pre_ok <= u
              => /\ s <= u + tRPab
                 /\ (\A b \in Banks : c.banks[b].open = Nothing) => s <= u
<1> DEFINE open == {b \in Banks : c.banks[b].open # Nothing}
           A == {c.banks[b].act_ok : b \in Banks}
           P(b) == {c.banks[b].act + tRAS, c.banks[b].pre_ok}
           O == UNION {P(b) : b \in open}
           S == {c.next_refresh, c.bus_free} \cup A \cup O
<1>1. \A b \in Banks : c.banks[b] \in BankT
  BY DEF ChannelT
<1>2. S \in SUBSET Int /\ S # {}
  BY <1>1, Times DEF ChannelT, BankT
<1>3. IsFiniteSet(S)
  <2>1. IsFiniteSet(A)
    <3> DEFINE f == [b \in Banks |-> c.banks[b].act_ok]
    <3>1. f \in Surjection(Banks, A)
      BY DEF Surjection
    <3> HIDE DEF f, A
    <3>2. QED BY <3>1, BanksAre, FS_Surjection
  <2>2. IsFiniteSet(open)
    BY BanksAre, FS_Subset
  <2>3. IsFiniteSet(O)
    <3> DEFINE Q == {P(b) : b \in open}
               f == [b \in open |-> P(b)]
    <3>1. IsFiniteSet(Q)
      <4>1. f \in Surjection(open, Q)
        BY DEF Surjection
      <4> HIDE DEF f, Q, open
      <4>2. QED BY <4>1, <2>2, FS_Surjection
    <3>2. \A T \in Q : IsFiniteSet(T)
      <4> SUFFICES ASSUME NEW b \in open PROVE IsFiniteSet(P(b))
        OBVIOUS
      <4>1. IsFiniteSet({c.banks[b].act + tRAS}) /\ P(b) = {c.banks[b].act + tRAS} \cup {c.banks[b].pre_ok}
        BY FS_Singleton
      <4>2. QED BY <4>1, FS_AddElement
    <3> HIDE DEF Q
    <3>3. IsFiniteSet(UNION Q)
      BY <3>1, <3>2, FS_UNION
    <3>4. QED BY <3>3 DEF Q
  <2> HIDE DEF A, O
  <2>4. IsFiniteSet({c.next_refresh} \cup {c.bus_free})
    BY FS_Singleton, FS_AddElement
  <2>5. {c.next_refresh, c.bus_free} = {c.next_refresh} \cup {c.bus_free}
    OBVIOUS
  <2>6. IsFiniteSet({c.next_refresh, c.bus_free} \cup A)
    BY <2>1, <2>4, <2>5, FS_Union
  <2>7. QED BY <2>3, <2>6, FS_Union
<1> DEFINE m == Max(S)
<1>4. m \in S /\ \A y \in S : m >= y
  <2> HIDE DEF S
  <2>1. QED BY <1>2, <1>3, MaxIs
<1>5. RefreshStart(c) = m + (IF open # {} THEN tRPab ELSE 0)
  BY DEF RefreshStart
<1> HIDE DEF m
<1>6. m \in Int /\ c.next_refresh <= m /\ c.bus_free <= m
  BY <1>2, <1>4
<1>7. \A b \in Banks : /\ c.banks[b].act_ok <= m
                       /\ c.banks[b].open # Nothing =>
                            c.banks[b].act + tRAS <= m /\ c.banks[b].pre_ok <= m
  <2> TAKE b \in Banks
  <2>1. c.banks[b].act_ok \in S
    OBVIOUS
  <2>2. c.banks[b].open # Nothing => c.banks[b].act + tRAS \in S /\ c.banks[b].pre_ok \in S
    OBVIOUS
  <2> HIDE DEF S
  <2>3. QED BY <2>1, <2>2, <1>2, <1>4
<1>8. ASSUME NEW u \in Int, c.next_refresh <= u, c.bus_free <= u,
             \A b \in Banks : /\ c.banks[b].act_ok <= u
                              /\ c.banks[b].open # Nothing =>
                                   c.banks[b].act + tRAS <= u /\ c.banks[b].pre_ok <= u
      PROVE  m <= u
  BY <1>4, <1>8
<1> HIDE DEF S
<1>9. IF open # {} THEN RefreshStart(c) = m + tRPab ELSE RefreshStart(c) = m
  BY <1>5, <1>6
<1>10. (\A b \in Banks : c.banks[b].open = Nothing) => open = {}
  OBVIOUS
<1> HIDE DEF open
<1>11. m <= RefreshStart(c) /\ RefreshStart(c) \in Int /\ RefreshStart(c) <= m + tRPab
       /\ (open = {} => RefreshStart(c) = m)
  BY <1>6, <1>9, Times
<1> HIDE DEF open
<1> DEFINE s == RefreshStart(c)
<1>12. c.next_refresh \in Int /\ c.bus_free \in Int
  BY DEF ChannelT
<1>13. \A b \in Banks : c.banks[b].act_ok \in Int /\ c.banks[b].pre_ok \in Int
                        /\ c.banks[b].act + tRAS \in Int
  BY <1>1, Times DEF BankT
<1>14. s \in Int /\ c.next_refresh <= s /\ c.bus_free <= s
  BY <1>6, <1>11, <1>12
<1>15. \A b \in Banks : /\ c.banks[b].act_ok <= s
                        /\ c.banks[b].open # Nothing =>
                             c.banks[b].act + tRAS <= s /\ c.banks[b].pre_ok <= s
  BY <1>6, <1>7, <1>11, <1>13
<1>16. \A u \in Int :
         /\ c.next_refresh <= u /\ c.bus_free <= u
         /\ \A b \in Banks : /\ c.banks[b].act_ok <= u
                             /\ c.banks[b].open # Nothing =>
                                  c.banks[b].act + tRAS <= u /\ c.banks[b].pre_ok <= u
         => /\ s <= u + tRPab
            /\ (\A b \in Banks : c.banks[b].open = Nothing) => s <= u
  <2> SUFFICES ASSUME NEW u \in Int, c.next_refresh <= u, c.bus_free <= u,
                      \A b \in Banks : /\ c.banks[b].act_ok <= u
                                       /\ c.banks[b].open # Nothing =>
                                            c.banks[b].act + tRAS <= u /\ c.banks[b].pre_ok <= u
               PROVE  /\ s <= u + tRPab
                      /\ (\A b \in Banks : c.banks[b].open = Nothing) => s <= u
    <3> HIDE DEF s
    <3> QED OBVIOUS
  <2>1. m <= u
    BY <1>8
  <2>2. QED BY <2>1, <1>6, <1>10, <1>11, Times
<1> HIDE DEF s
<1>17. QED BY <1>14, <1>15, <1>16 DEF s

\* A history with one more command.
LEMMA Appended ==
  ASSUME NEW l \in Seq(Command), NEW x \in Command
  PROVE  LET m == Append(l, x) IN
         /\ m \in Seq(Command) /\ Len(m) = Len(l) + 1 /\ m[Len(l) + 1] = x /\ Len(l) \in Nat
         /\ \A i \in 1..Len(l) : m[i] = l[i] /\ l[i] \in Command
OBVIOUS

\* A command that fits every one before it can be given next.
LEMMA PairedAppend ==
  ASSUME NEW l \in Seq(Command), NEW x \in Command, Paired(l),
         \A i \in 1..Len(l) : Fits(l[i], x)
  PROVE  Paired(Append(l, x))
<1> DEFINE m == Append(l, x)
<1>1. /\ Len(m) = Len(l) + 1 /\ m[Len(l) + 1] = x /\ Len(l) \in Nat
      /\ \A i \in 1..Len(l) : m[i] = l[i]
  BY Appended
<1> HIDE DEF m
<1>2. SUFFICES ASSUME NEW j \in 1..Len(m), NEW i \in 1..(j - 1) PROVE Fits(m[i], m[j])
  BY DEF Paired, m
<1>3. i \in 1..Len(l) /\ m[i] = l[i]
  BY <1>1
<1>4. CASE j = Len(l) + 1
  BY <1>1, <1>3, <1>4
<1>5. CASE j \in 1..Len(l)
  BY <1>1, <1>3, <1>5 DEF Paired
<1>6. QED BY <1>1, <1>4, <1>5

\* The ACTIVATEs of a history with one more command.
LEMMA ActsAppend ==
  ASSUME NEW l \in Seq(Command), NEW x \in Command
  PROVE  LET m == Append(l, x) IN
         /\ \A j \in 0..Len(l) : Acts(m, j) = Acts(l, j) /\ IsFiniteSet(Acts(l, j))
         /\ x.cmd # "ACT" => Acts(m, Len(m)) = Acts(l, Len(l))
         /\ x.cmd = "ACT" => Acts(m, Len(m)) = Acts(l, Len(l)) \cup {Len(l) + 1}
<1> DEFINE m == Append(l, x)
<1>1. /\ Len(m) = Len(l) + 1 /\ m[Len(l) + 1] = x /\ Len(l) \in Nat
      /\ \A i \in 1..Len(l) : m[i] = l[i]
  BY Appended
<1> HIDE DEF m
<1>2. \A j \in 0..Len(l) : Acts(m, j) = Acts(l, j)
  BY <1>1 DEF Acts
<1>3. \A j \in 0..Len(l) : IsFiniteSet(Acts(l, j))
  <2> TAKE j \in 0..Len(l)
  <2>1. IsFiniteSet(1..j) /\ Acts(l, j) \in SUBSET (1..j)
    BY <1>1, FS_Interval DEF Acts
  <2>2. QED BY <2>1, FS_Subset
<1>4. x.cmd # "ACT" => Acts(m, Len(m)) = Acts(l, Len(l))
  BY <1>1 DEF Acts
<1>5. x.cmd = "ACT" => Acts(m, Len(m)) = Acts(l, Len(l)) \cup {Len(l) + 1}
  BY <1>1 DEF Acts
<1>6. QED BY <1>2, <1>3, <1>4, <1>5 DEF m

\* An ACTIVATE that is not the fifth in tFAW can be given next.
LEMMA FawKeptAppend ==
  ASSUME NEW l \in Seq(Command), NEW x \in Command, FawKept(l),
         x.cmd = "ACT" /\ Cardinality(Acts(l, Len(l))) >= 4 =>
           Cardinality({i \in Acts(l, Len(l)) : x.at - l[i].at < tFAW}) < 4
  PROVE  FawKept(Append(l, x))
<1> DEFINE m == Append(l, x)
<1>1. /\ Len(m) = Len(l) + 1 /\ m[Len(l) + 1] = x /\ Len(l) \in Nat
      /\ \A i \in 1..Len(l) : m[i] = l[i]
  BY Appended
<1>2. \A j \in 0..Len(l) : Acts(m, j) = Acts(l, j)
  BY ActsAppend
<1> HIDE DEF m
<1>3. SUFFICES ASSUME NEW j \in 1..Len(m), m[j].cmd = "ACT", Cardinality(Acts(m, j - 1)) >= 4
               PROVE  Cardinality(InWindow(m, j)) < 4
  BY DEF FawKept, m
<1>4. j - 1 \in 0..Len(l) /\ Acts(m, j - 1) = Acts(l, j - 1)
  BY <1>1, <1>2
<1>5. \A i \in Acts(l, j - 1) : i \in 1..Len(l) /\ m[i] = l[i]
  BY <1>1, <1>4 DEF Acts
<1>6. CASE j = Len(l) + 1
  <2>1. InWindow(m, j) = {i \in Acts(l, Len(l)) : x.at - l[i].at < tFAW}
    BY <1>1, <1>4, <1>5, <1>6 DEF InWindow
  <2>2. QED BY <2>1, <1>1, <1>3, <1>4, <1>6
<1>7. CASE j \in 1..Len(l)
  <2>1. InWindow(m, j) = InWindow(l, j)
    BY <1>1, <1>4, <1>5, <1>7 DEF InWindow
  <2>2. QED BY <2>1, <1>1, <1>3, <1>4, <1>7 DEF FawKept
<1>8. QED BY <1>1, <1>6, <1>7

\* A row stays open under any command but a refresh and a PRECHARGE of its bank.
LEMMA OpensAppend ==
  ASSUME NEW l \in Seq(Command), NEW x \in Command, NEW i \in 1..Len(l), NEW b, NEW row
  PROVE  LET m == Append(l, x) IN
         /\ \A j \in 1..(Len(l) + 1) : Opens(l, i, b, row, j) => Opens(m, i, b, row, j)
         /\ /\ Opens(l, i, b, row, Len(l) + 1)
            /\ x.cmd # "REF" /\ (x.cmd = "PRE" => x.bank # b)
            => Opens(m, i, b, row, Len(m) + 1)
<1> DEFINE m == Append(l, x)
<1>1. /\ Len(m) = Len(l) + 1 /\ m[Len(l) + 1] = x /\ Len(l) \in Nat
      /\ \A k \in 1..Len(l) : m[k] = l[k]
  BY Appended
<1> HIDE DEF m
<1>2. \A j \in 1..(Len(l) + 1) : Opens(l, i, b, row, j) => Opens(m, i, b, row, j)
  BY <1>1 DEF Opens
<1>3. ASSUME Opens(l, i, b, row, Len(l) + 1), x.cmd # "REF", x.cmd = "PRE" => x.bank # b
      PROVE  Opens(m, i, b, row, Len(m) + 1)
  <2>1. \A k \in (i + 1)..Len(m) : k = Len(l) + 1 \/ k \in (i + 1)..Len(l)
    BY <1>1
  <2>2. QED BY <1>1, <1>3, <2>1 DEF Opens
<1>4. QED BY <1>2, <1>3 DEF m

\* What a column command found open it found open, whatever comes later.
LEMMA ColumnedAppend ==
  ASSUME NEW l \in Seq(Command), NEW x \in Command, NEW j \in 1..Len(l), Columned(l, j)
  PROVE  Columned(Append(l, x), j)
<1> DEFINE m == Append(l, x)
<1>1. /\ Len(m) = Len(l) + 1 /\ Len(l) \in Nat /\ \A k \in 1..Len(l) : m[k] = l[k]
  BY Appended
<1>2. PICK i \in 1..(j - 1) : Opens(l, i, l[j].bank, l[j].row, j) /\ l[j].at >= l[i].at + tRCD
  BY DEF Columned
<1>3. i \in 1..Len(l) /\ j \in 1..(Len(l) + 1)
  BY <1>1
<1>4. Opens(m, i, l[j].bank, l[j].row, j)
  BY <1>2, <1>3, OpensAppend
<1> HIDE DEF m
<1>5. m[i] = l[i] /\ m[j] = l[j]
  BY <1>1, <1>3
<1>6. Columned(m, j)
  BY <1>2, <1>4, <1>5 DEF Columned
<1>7. QED BY <1>6 DEF m

\* A write that binds its group in a longer history did so in the shorter one.
LEMMA GroupWriteAppend ==
  ASSUME NEW l \in Seq(Command), NEW x \in Command, NEW i \in 1..Len(l)
  PROVE  LET m == Append(l, x) IN
         /\ \A j \in 1..(Len(l) + 1) : GroupWrite(m, i, j) => GroupWrite(l, i, j)
         /\ GroupWrite(m, i, Len(m) + 1) =>
              GroupWrite(l, i, Len(l) + 1) /\ (x.cmd = "COL" => x.bank[2] = l[i].bank[2])
<1> DEFINE m == Append(l, x)
<1>1. /\ Len(m) = Len(l) + 1 /\ m[Len(l) + 1] = x /\ Len(l) \in Nat
      /\ \A k \in 1..Len(l) : m[k] = l[k]
  BY Appended
<1> HIDE DEF m
<1>2. \A j \in 1..(Len(l) + 1) : GroupWrite(m, i, j) => GroupWrite(l, i, j)
  BY <1>1 DEF GroupWrite
<1>3. ASSUME GroupWrite(m, i, Len(m) + 1)
      PROVE  GroupWrite(l, i, Len(l) + 1) /\ (x.cmd = "COL" => x.bank[2] = l[i].bank[2])
  <2>1. Len(l) + 1 \in (i + 1)..(Len(m) + 1 - 1) /\ m[i] = l[i]
    BY <1>1
  <2>2. x.cmd = "COL" => x.bank[2] = l[i].bank[2]
    BY <1>1, <1>3, <2>1 DEF GroupWrite
  <2>3. GroupWrite(l, i, Len(l) + 1)
    BY <1>1, <1>3, <2>1 DEF GroupWrite
  <2>4. QED BY <2>2, <2>3
<1>4. QED BY <1>2, <1>3 DEF m

\* The reads of a history keep their distance, whatever comes later, ...
LEMMA TurnsKeptAppend ==
  ASSUME NEW l \in Seq(Command), NEW x \in Command, TurnsKept(l),
         \A i \in 1..Len(l) :
           GroupWrite(l, i, Len(l) + 1) /\ x.cmd = "COL" /\ ~x.w /\ x.bank[2] = l[i].bank[2] =>
             l[i].end + tWTR_L <= x.at
  PROVE  TurnsKept(Append(l, x))
<1> DEFINE m == Append(l, x)
<1>1. /\ Len(m) = Len(l) + 1 /\ m[Len(l) + 1] = x /\ Len(l) \in Nat
      /\ \A k \in 1..Len(l) : m[k] = l[k]
  BY Appended
<1>2. \A i \in 1..Len(l) : \A j \in 1..(Len(l) + 1) : GroupWrite(m, i, j) => GroupWrite(l, i, j)
  BY GroupWriteAppend
<1> HIDE DEF m
<1>3. SUFFICES ASSUME NEW j \in 1..Len(m), NEW i \in 1..(j - 1),
                      GroupWrite(m, i, j), m[j].cmd = "COL", ~m[j].w, m[j].bank[2] = m[i].bank[2]
               PROVE  m[i].end + tWTR_L <= m[j].at
  BY DEF TurnsKept, m
<1>4. i \in 1..Len(l) /\ m[i] = l[i] /\ GroupWrite(l, i, j)
  BY <1>1, <1>2, <1>3
<1>5. CASE j = Len(l) + 1
  BY <1>1, <1>3, <1>4, <1>5
<1>6. CASE j \in 1..Len(l)
  BY <1>1, <1>3, <1>4, <1>6 DEF TurnsKept
<1>7. QED BY <1>1, <1>5, <1>6

\* ... and a command other than a read or write leaves the next one what it had to
\* wait for.
LEMMA TurnsAppend ==
  ASSUME NEW c, NEW d, c.log \in Seq(Command), NEW x \in Command, x.cmd # "COL",
         d.log = Append(c.log, x), d.last_col = c.last_col, d.last_col_at = c.last_col_at,
         d.last_was_write = c.last_was_write, TurnsHold(c)
  PROVE  TurnsHold(d)
<1> DEFINE l == c.log
           m == Append(l, x)
<1>1. TurnsKept(m)
  BY TurnsKeptAppend DEF TurnsHold
<1>2. /\ Len(m) = Len(l) + 1 /\ m[Len(l) + 1] = x /\ Len(l) \in Nat
      /\ \A k \in 1..Len(l) : m[k] = l[k]
  BY Appended
<1>3. \A i \in 1..Len(l) : GroupWrite(m, i, Len(m) + 1) => GroupWrite(l, i, Len(l) + 1)
  BY GroupWriteAppend
<1> HIDE DEF m
<1>4. ASSUME NEW i \in 1..Len(m), GroupWrite(m, i, Len(m) + 1)
      PROVE  /\ c.last_col_at[2] = m[i].bank[2]
             /\ ~c.last_was_write => m[i].end + tWTR_L <= c.last_col
  <2>1. m[i].cmd = "COL"
    BY <1>4 DEF GroupWrite
  <2>2. i \in 1..Len(l)
    BY <1>2, <2>1
  <2>3. QED BY <1>2, <1>3, <1>4, <2>2 DEF TurnsHold, TurnsBehind
<1>5. QED BY <1>1, <1>4 DEF TurnsHold, TurnsBehind, m

------------------------------------------------------------------------------
(* Refresh. *)

\* The fields of a channel.
LEMMA ChannelFields ==
  ASSUME NEW c \in ChannelT
  PROVE  /\ c.bus_free \in Int /\ c.next_refresh \in Int /\ c.last_col \in Int
         /\ c.last_write_end \in Int /\ c.last_act \in Int /\ c.order \in Int
         /\ c.last_was_write \in BOOLEAN /\ c.log \in Seq(Command) /\ Len(c.log) \in Nat
         /\ c.faw \in [Ranks -> Seq(Int)] /\ c.faw[0] \in Seq(Int)
         /\ c.last_col_at \in Int \X Int /\ c.last_act_at \in Int \X Int
         /\ c.banks \in [Banks -> BankT]
         /\ \A b \in Banks : /\ c.banks[b].open \in Nat \cup {Nothing}
                             /\ c.banks[b].act \in Int /\ c.banks[b].act_ok \in Int
                             /\ c.banks[b].pre_ok \in Int
         /\ \A i \in 1..Len(c.log) : c.log[i] \in Command
<1>1. /\ c.faw \in [Ranks -> Seq(Int)] /\ c.banks \in [Banks -> BankT]
      /\ c.last_col_at \in Int \X Int /\ c.last_act_at \in Int \X Int
      /\ c.bus_free \in Int /\ c.next_refresh \in Int /\ c.last_col \in Int
      /\ c.last_write_end \in Int /\ c.last_act \in Int /\ c.order \in Int
      /\ c.last_was_write \in BOOLEAN /\ c.log \in Seq(Command)
  BY DEF ChannelT
<1>2. c.faw[0] \in Seq(Int)
  BY <1>1, BanksAre
<1>3. Len(c.log) \in Nat /\ \A i \in 1..Len(c.log) : c.log[i] \in Command
  BY <1>1
<1>4. \A b \in Banks : /\ c.banks[b].open \in Nat \cup {Nothing}
                       /\ c.banks[b].act \in Int /\ c.banks[b].act_ok \in Int
                       /\ c.banks[b].pre_ok \in Int
  BY <1>1 DEF BankT
<1>5. QED BY <1>1, <1>2, <1>3, <1>4

\* What one refresh changes: every bank is closed until the refresh is over.
LEMMA RefreshOneIs ==
  ASSUME NEW c \in ChannelT
  PROVE  LET s == RefreshStart(c)
             d == RefreshOne(c)
             r == [cmd |-> "REF", at |-> s, end |-> s + tRFC]
         IN  /\ d \in ChannelT /\ r \in Command /\ d.log = Append(c.log, r)
             /\ d.next_refresh = c.next_refresh + tREFI
             /\ \A b \in Banks : /\ d.banks[b].open = Nothing /\ d.banks[b].act = c.banks[b].act
                                 /\ d.banks[b].pre_ok = c.banks[b].pre_ok
                                 /\ d.banks[b].act_ok = s + tRFC
             /\ d = [c EXCEPT !.log = d.log, !.next_refresh = d.next_refresh, !.banks = d.banks]
<1> DEFINE s == RefreshStart(c)
           d == RefreshOne(c)
           r == [cmd |-> "REF", at |-> s, end |-> s + tRFC]
<1>1. s \in Int /\ s + tRFC \in Int /\ \A b \in Banks : c.banks[b].act_ok <= s
  BY RefreshStartIs, Times
<1> HIDE DEF s
<1>2. r \in Command
  BY <1>1 DEF Command
<1> DEFINE B == [b \in Banks |-> [c.banks[b] EXCEPT !.open = Nothing,
                                    !.act_ok = Later(c.banks[b].act_ok, s + tRFC)]]
<1>3. d = [c EXCEPT !.banks = B, !.next_refresh = @ + tREFI, !.log = Append(@, r)]
  BY DEF RefreshOne, s
<1> HIDE DEF d, r, B
<1>4. \A b \in Banks : Later(c.banks[b].act_ok, s + tRFC) = s + tRFC
  BY <1>1, ChannelFields, Times DEF Later
<1>5. d.banks = [b \in Banks |-> [c.banks[b] EXCEPT !.open = Nothing, !.act_ok = s + tRFC]]
  <2>1. d.banks = B
    BY <1>3 DEF ChannelT
  <2>2. QED BY <2>1, <1>4 DEF B
<1>6. d.log = Append(c.log, r) /\ d.next_refresh = c.next_refresh + tREFI
      /\ d = [c EXCEPT !.log = d.log, !.next_refresh = d.next_refresh, !.banks = d.banks]
  BY <1>3 DEF ChannelT
<1> HIDE DEF Nothing
<1>7. \A b \in Banks : /\ d.banks[b].open = Nothing /\ d.banks[b].act = c.banks[b].act
                       /\ d.banks[b].pre_ok = c.banks[b].pre_ok
                       /\ d.banks[b].act_ok = s + tRFC
  <2> TAKE b \in Banks
  <2>1. PICK x \in BankT : x = c.banks[b]
    BY ChannelFields
  <2>2. d.banks[b] = [x EXCEPT !.open = Nothing, !.act_ok = s + tRFC]
    BY <1>5, <2>1
  <2>3. QED BY <2>1, <2>2 DEF BankT
<1>8. d.banks \in [Banks -> BankT]
  <2>1. \A b \in Banks : c.banks[b] \in BankT
    BY ChannelFields
  <2>2. \A b \in Banks : [c.banks[b] EXCEPT !.open = Nothing, !.act_ok = s + tRFC] \in BankT
    BY <1>1, <2>1 DEF BankT
  <2>3. QED BY <1>5, <2>2
<1>9. d.log \in Seq(Command) /\ d.next_refresh \in Int
  <2>1. c.log \in Seq(Command) /\ c.next_refresh + tREFI \in Int
    BY ChannelFields, Times
  <2>2. QED BY <1>2, <1>6, <2>1, Appended
<1>10. d \in ChannelT
  BY <1>6, <1>8, <1>9 DEF ChannelT
<1>11. QED BY <1>2, <1>6, <1>7, <1>10 DEF d, r, s

\* A bank that has recovered stays so.
LEMMA RecoveredLater ==
  ASSUME NEW x \in Command, NEW y \in Int, NEW z \in Int, Recovered(x, y), y <= z
  PROVE  Recovered(x, z)
<1>1. x.at \in Int /\ x.cmd \in {"REF", "PRE", "ACT", "COL"}
      /\ (x.cmd = "COL" => x.end \in Int)
  BY CommandIs
<1>2. CASE x.cmd = "ACT"
  BY <1>1, <1>2, Times DEF Recovered, IsCmd
<1>3. CASE x.cmd = "COL" /\ x.w
  BY <1>1, <1>3, Times DEF Recovered, IsCmd
<1>4. CASE x.cmd = "COL" /\ ~x.w
  BY <1>1, <1>4, Times DEF Recovered, IsCmd
<1>5. CASE x.cmd \in {"REF", "PRE"}
  BY <1>5 DEF Recovered, IsCmd
<1>6. QED BY <1>1, <1>2, <1>3, <1>4, <1>5

\* A refresh keeps to all commands before it, and is over well before the next one.
LEMMA RefreshOneKeeps ==
  ASSUME NEW c \in Channels, tREFI > 0
  PROVE  LET d == RefreshOne(c) IN
         /\ d \in Channels
         /\ \A b \in Banks : d.banks[b].act_ok + tRCD < d.next_refresh
<1> DEFINE s == RefreshStart(c)
           d == RefreshOne(c)
           r == [cmd |-> "REF", at |-> s, end |-> s + tRFC]
           l == c.log
<1>1. c \in ChannelT /\ ChannelInv(c)
  BY DEF Channels
<1>2. /\ s \in Int /\ c.next_refresh <= s /\ c.bus_free <= s
      /\ \A b \in Banks : /\ c.banks[b].act_ok <= s
                          /\ c.banks[b].open # Nothing =>
                               c.banks[b].act + tRAS <= s /\ c.banks[b].pre_ok <= s
  BY <1>1, RefreshStartIs
<1>3. /\ d \in ChannelT /\ r \in Command /\ d.log = Append(l, r)
      /\ d.next_refresh = c.next_refresh + tREFI
      /\ \A b \in Banks : /\ d.banks[b].open = Nothing /\ d.banks[b].act = c.banks[b].act
                          /\ d.banks[b].pre_ok = c.banks[b].pre_ok
                          /\ d.banks[b].act_ok = s + tRFC
      /\ d = [c EXCEPT !.log = d.log, !.next_refresh = d.next_refresh, !.banks = d.banks]
  BY <1>1, RefreshOneIs
<1> HIDE DEF d
<1>a. d.log = Append(l, r) /\ d.next_refresh = c.next_refresh + tREFI
  BY <1>3
<1>b. \A b \in Banks : /\ d.banks[b].open = Nothing /\ d.banks[b].act = c.banks[b].act
                       /\ d.banks[b].pre_ok = c.banks[b].pre_ok
                       /\ d.banks[b].act_ok = s + tRFC
  BY <1>3
<1>4. /\ d.bus_free = c.bus_free /\ d.last_col = c.last_col /\ d.last_col_at = c.last_col_at
      /\ d.last_was_write = c.last_was_write /\ d.last_write_end = c.last_write_end
      /\ d.last_act = c.last_act /\ d.last_act_at = c.last_act_at /\ d.faw = c.faw
  BY <1>1, <1>3 DEF ChannelT
<1>5. r.cmd = "REF" /\ r.at = s /\ r.end = s + tRFC
  OBVIOUS
<1> HIDE DEF s, d, r
<1>6. l \in Seq(Command) /\ Len(l) \in Nat /\ \A i \in 1..Len(l) : l[i] \in Command /\ Behind(c, l[i])
  BY <1>1, ChannelFields DEF ChannelInv
<1>7. /\ d.log \in Seq(Command) /\ Len(d.log) = Len(l) + 1 /\ d.log[Len(l) + 1] = r
      /\ \A i \in 1..Len(l) : d.log[i] = l[i]
  BY <1>3, <1>6, Appended
<1>8. \A b \in Banks : Rest(c.banks[b]) <= s /\ Rest(c.banks[b]) \in Int
  BY <1>1, <1>2, ChannelFields, Times DEF Rest, Later
<1>9. \A x \in Command, y \in Int, z \in Int : Recovered(x, y) /\ y <= z => Recovered(x, z)
  BY RecoveredLater
<1>10. \A i \in 1..Len(l) : Recovered(l[i], s) /\ Recovered(l[i], s + tRFC)
  <2> TAKE i \in 1..Len(l)
  <2>1. l[i].cmd # "REF" => l[i].bank \in Banks /\ Recovered(l[i], Rest(c.banks[l[i].bank]))
    BY <1>6, CommandIs DEF Behind, BankBehind
  <2>2. l[i].cmd # "REF" => Recovered(l[i], s)
    BY <2>1, <1>2, <1>6, <1>8, <1>9
  <2>3. l[i].cmd = "REF" => Recovered(l[i], s)
    BY DEF Recovered, IsCmd
  <2>4. s + tRFC \in Int /\ s <= s + tRFC
    BY <1>2, Times
  <2>5. QED BY <2>2, <2>3, <2>4, <1>2, <1>6, <1>9
<1>11. \A i \in 1..Len(l) : l[i].cmd = "REF" => l[i].end <= s
  <2> TAKE i \in 1..Len(l)
  <2>1. l[i].cmd = "REF" => l[i].end \in Int /\ \A b \in Banks : l[i].end <= c.banks[b].act_ok
    BY <1>6, CommandIs DEF Behind, BankBehind
  <2>2. PICK b \in Banks : TRUE
    BY BanksAre
  <2>3. c.banks[b].act_ok \in Int
    BY <1>1, ChannelFields
  <2>4. QED BY <2>1, <2>2, <2>3, <1>2
<1>12. Paired(d.log) /\ FawKept(d.log)
  <2>1. \A i \in 1..Len(l) : Fits(l[i], r)
    <3> TAKE i \in 1..Len(l)
    <3>1. l[i].cmd = "COL" => l[i].end <= s
      <4>1. l[i].cmd = "COL" => l[i].end <= c.bus_free /\ l[i].end \in Int
        BY <1>6, CommandIs DEF Behind, ColBehind
      <4>2. c.bus_free \in Int
        BY <1>1, ChannelFields
      <4>3. QED BY <4>1, <4>2, <1>2
    <3>2. l[i].cmd \in {"COL", "REF"} => l[i].end \in Int
      BY <1>6, CommandIs
    <3>3. RefreshAlone(l[i], r)
      BY <3>1, <3>2, <1>2, <1>5, <1>11 DEF RefreshAlone, IsCmd
    <3>4. ClosedWithCare(l[i], r)
      BY <1>5, <1>10 DEF ClosedWithCare, IsCmd
    <3>5. ActivatesApart(l[i], r) /\ BusShared(l[i], r)
      BY <1>5 DEF ActivatesApart, BusShared, IsCmd
    <3>6. QED BY <3>3, <3>4, <3>5 DEF Fits
  <2>2. Paired(l) /\ FawKept(l)
    BY <1>1 DEF ChannelInv
  <2>3. QED BY <1>3, <1>5, <1>6, <2>1, <2>2, PairedAppend, FawKeptAppend
<1>13. \A i \in 1..Len(d.log) : Behind(d, d.log[i])
  <2>1. \A b \in Banks : Rest(d.banks[b]) = s + tRFC
    BY <1>b DEF Rest
  <2>2. ASSUME NEW i \in 1..Len(l) PROVE Behind(d, l[i])
    <3>1. ActBehind(d, l[i]) /\ ColBehind(d, l[i])
      BY <1>4, <1>6 DEF Behind, ActBehind, ColBehind
    <3>2. l[i].cmd # "REF" => l[i].bank \in Banks
      BY <1>6, CommandIs
    <3>3. l[i].cmd = "REF" => \A b \in Banks : l[i].end <= d.banks[b].act_ok
      <4>1. l[i].cmd = "REF" => l[i].end \in Int
        BY <1>6, CommandIs
      <4>2. QED BY <4>1, <1>2, <1>b, <1>11, Times
    <3>4. BankBehind(d, l[i])
      BY <1>b, <1>6, <1>10, <2>1, <3>2, <3>3 DEF Behind, BankBehind
    <3>5. QED BY <3>1, <3>4 DEF Behind
  <2>3. Behind(d, r)
    <3>1. s + tRFC \in Int
      BY <1>2, Times
    <3>2. QED BY <3>1, <1>b, <1>5 DEF Behind, BankBehind, ActBehind, ColBehind
  <2>4. QED BY <1>6, <1>7, <2>2, <2>3
<1>14. OpenRows(d)
  BY <1>b DEF OpenRows
<1>15. RowsInOrder(d)
  <2> SUFFICES ASSUME NEW j \in 1..Len(d.log), d.log[j].cmd = "COL"
               PROVE  Columned(d.log, j) /\ d.log[j].at < d.next_refresh
    BY DEF RowsInOrder
  <2>1. j \in 1..Len(l) /\ d.log[j] = l[j]
    BY <1>5, <1>6, <1>7
  <2>2. Columned(l, j) /\ l[j].at < c.next_refresh /\ l[j].at \in Int
    BY <1>1, <1>6, <2>1, CommandIs DEF ChannelInv, RowsInOrder
  <2>3. Columned(d.log, j)
    BY <1>3, <1>6, <2>1, <2>2, ColumnedAppend
  <2>4. c.next_refresh \in Int
    BY <1>1, ChannelFields
  <2>5. QED BY <1>a, <2>1, <2>2, <2>3, <2>4, Times
<1>16. FawHolds(d)
  <2>1. Acts(d.log, Len(d.log)) = Acts(l, Len(l))
    BY <1>3, <1>5, <1>6, ActsAppend
  <2>2. \A i \in Acts(l, Len(l)) : d.log[i] = l[i]
    BY <1>7 DEF Acts
  <2>3. \A k : {i \in Acts(l, Len(l)) : d.log[i].at > k} = {i \in Acts(l, Len(l)) : l[i].at > k}
    BY <2>2
  <2>4. FawHolds(c)
    BY <1>1 DEF ChannelInv
  <2>5. QED BY <1>4, <2>1, <2>3, <2>4 DEF FawHolds
<1>17. InReach(d) /\ \A b \in Banks : d.banks[b].act_ok + tRCD < d.next_refresh
  <2> DEFINE u == c.next_refresh + Far
  <2>1. Far \in Nat /\ Far + tRPab + tRFC + tRCD < tREFI
    BY Times, RefreshIsSeldom DEF Far
  <2>2. /\ c.bus_free <= u /\ u \in Int /\ c.next_refresh <= u /\ c.next_refresh \in Int
        /\ \A b \in Banks : /\ c.banks[b].act_ok <= u /\ c.banks[b].act + tRAS <= u
                            /\ c.banks[b].pre_ok <= u
    BY <1>1, <2>1, ChannelFields DEF ChannelInv, InReach
  <2>3. s <= u + tRPab
    <3> HIDE DEF u
    <3> QED BY <1>1, <2>2, RefreshStartIs DEF s
  <2>4. s + tRFC + tRCD < d.next_refresh
    BY <1>2, <1>a, <2>1, <2>2, <2>3, Times
  <2>5. u <= d.next_refresh + Far /\ d.next_refresh \in Int
    BY <1>a, <2>1, <2>2, Times
  <2>6. d.bus_free <= d.next_refresh + Far
    <3>1. c.bus_free \in Int /\ d.bus_free = c.bus_free
      BY <1>1, <1>4, ChannelFields
    <3>2. QED BY <2>1, <2>2, <2>5, <3>1
  <2>7. \A b \in Banks : /\ d.banks[b].act_ok <= d.next_refresh + Far
                         /\ d.banks[b].act + tRAS <= d.next_refresh + Far
                         /\ d.banks[b].pre_ok <= d.next_refresh + Far
                         /\ d.banks[b].act_ok + tRCD < d.next_refresh
    <3> TAKE b \in Banks
    <3>1. c.banks[b].act \in Int /\ c.banks[b].pre_ok \in Int
      BY <1>1, ChannelFields
    <3>2. QED BY <1>2, <1>b, <2>1, <2>2, <2>4, <2>5, <3>1, Times
  <2>8. QED BY <2>6, <2>7 DEF InReach
<1>18. TurnsHold(d)
  <2>1. TurnsHold(c) /\ r.cmd # "COL"
    BY <1>1, <1>5 DEF ChannelInv
  <2>2. QED BY <1>3, <1>4, <1>6, <2>1, TurnsAppend
<1>19. QED BY <1>3, <1>12, <1>13, <1>14, <1>15, <1>16, <1>17, <1>18 DEF Channels, ChannelInv, d

\* Every bank is closed and can be opened well before the next refresh.
Idle(c) == \A b \in Banks : /\ c.banks[b].open = Nothing
                            /\ c.banks[b].act_ok + tRCD < c.next_refresh

\* x is c after refreshes, if any.
Refreshed(c, x) ==
  /\ x.bus_free = c.bus_free /\ x.last_col = c.last_col /\ x.last_col_at = c.last_col_at
  /\ x.last_was_write = c.last_was_write /\ x.last_write_end = c.last_write_end
  /\ x.last_act = c.last_act /\ x.last_act_at = c.last_act_at /\ x.faw = c.faw
  /\ x.order = c.order
  /\ \A b \in Banks : x.banks[b].act = c.banks[b].act /\ x.banks[b].pre_ok = c.banks[b].pre_ok
  /\ c.next_refresh <= x.next_refresh
  /\ Len(c.log) <= Len(x.log) /\ \A i \in 1..Len(c.log) : x.log[i] = c.log[i]
  /\ \A i \in (Len(c.log) + 1)..Len(x.log) : x.log[i].cmd = "REF"
  /\ x = c \/ Idle(x)

\* After refreshes and refreshes again.
LEMMA RefreshedTwice ==
  ASSUME NEW c \in ChannelT, NEW x \in ChannelT, NEW y \in ChannelT,
         Refreshed(c, x), Refreshed(x, y)
  PROVE  Refreshed(c, y)
<1>1. Len(c.log) \in Nat /\ Len(x.log) \in Nat /\ Len(y.log) \in Nat
      /\ c.next_refresh \in Int /\ x.next_refresh \in Int /\ y.next_refresh \in Int
  BY ChannelFields
<1>2. /\ Len(c.log) <= Len(y.log) /\ \A i \in 1..Len(c.log) : y.log[i] = c.log[i]
      /\ \A i \in (Len(c.log) + 1)..Len(y.log) : y.log[i].cmd = "REF"
  <2>1. \A i \in 1..Len(c.log) : i \in 1..Len(x.log)
    BY <1>1 DEF Refreshed
  <2>2. \A i \in (Len(c.log) + 1)..Len(y.log) :
          i \in (Len(x.log) + 1)..Len(y.log) \/ (i \in 1..Len(x.log) /\ i \in (Len(c.log) + 1)..Len(x.log))
    BY <1>1
  <2>3. QED BY <1>1, <2>1, <2>2 DEF Refreshed
<1>3. y = c \/ Idle(y)
  BY DEF Refreshed
<1>4. c.next_refresh <= y.next_refresh
  BY <1>1 DEF Refreshed
<1>5. QED BY <1>2, <1>3, <1>4 DEF Refreshed

\* Moving the next refresh of an idle channel on keeps the invariant.
LEMMA SkipKeeps ==
  ASSUME NEW c \in Channels, Idle(c), NEW m \in Nat, NEW v \in Int,
         v + tRCD < c.next_refresh + m,
         NEW d, d = [c EXCEPT !.next_refresh = c.next_refresh + m,
                       !.banks = [b \in Banks |-> [c.banks[b] EXCEPT !.act_ok = Later(@, v)]]]
  PROVE  d \in Channels /\ Idle(d) /\ Refreshed(c, d)
<1> USE DEF Channels
<1> HIDE DEF Nothing
<1>1. c \in ChannelT /\ ChannelInv(c) /\ Far \in Nat
  BY Times DEF Far
<1>2. \A b \in Banks : /\ c.banks[b] \in BankT
                       /\ c.banks[b].act_ok \in Int /\ c.banks[b].act \in Int
                       /\ c.banks[b].pre_ok \in Int /\ c.next_refresh \in Int
  BY <1>1, ChannelFields
<1> DEFINE B == [b \in Banks |-> [c.banks[b] EXCEPT !.act_ok = Later(@, v)]]
<1>3. \A b \in Banks : Later(c.banks[b].act_ok, v) \in Int
  BY <1>2 DEF Later
<1>4. B \in [Banks -> BankT]
  BY <1>2, <1>3 DEF BankT
<1>5. \A b \in Banks : /\ B[b].open = Nothing /\ B[b].act = c.banks[b].act
                       /\ B[b].pre_ok = c.banks[b].pre_ok
                       /\ B[b].act_ok = Later(c.banks[b].act_ok, v)
  BY <1>2 DEF BankT, Idle
<1> HIDE DEF B
<1>6. d = [c EXCEPT !.next_refresh = c.next_refresh + m, !.banks = B]
  BY DEF B
<1>7. d.next_refresh = c.next_refresh + m /\ d.banks = B /\ d.log = c.log
      /\ d.next_refresh \in Int
  <2>1. d.next_refresh = c.next_refresh + m /\ d.banks = B /\ d.log = c.log
    BY <1>1, <1>6 DEF ChannelT
  <2>2. c.next_refresh \in Int
    BY <1>1, ChannelFields
  <2>3. QED BY <2>1, <2>2
<1>8. d \in ChannelT
  BY <1>1, <1>4, <1>6, <1>7 DEF ChannelT
<1>9. /\ d.bus_free = c.bus_free /\ d.last_col = c.last_col /\ d.last_col_at = c.last_col_at
      /\ d.last_was_write = c.last_was_write /\ d.last_write_end = c.last_write_end
      /\ d.last_act = c.last_act /\ d.last_act_at = c.last_act_at /\ d.faw = c.faw
      /\ d.order = c.order
  BY <1>1, <1>6 DEF ChannelT
<1>10. \A b \in Banks : /\ d.banks[b].open = Nothing /\ d.banks[b].act = c.banks[b].act
                        /\ d.banks[b].pre_ok = c.banks[b].pre_ok
                        /\ d.banks[b].act_ok \in Int
                        /\ c.banks[b].act_ok <= d.banks[b].act_ok
                        /\ d.banks[b].act_ok + tRCD < d.next_refresh
  <2> TAKE b \in Banks
  <2>1. c.banks[b].act_ok + tRCD < c.next_refresh
    BY DEF Idle
  <2>2. QED BY <1>2, <1>5, <1>7, <2>1, Times DEF Later
<1>11. Idle(d)
  BY <1>10 DEF Idle
<1>12. Refreshed(c, d)
  BY <1>1, <1>2, <1>7, <1>9, <1>10, <1>11, ChannelFields DEF Refreshed
<1>13. \A i \in 1..Len(c.log) : Behind(d, c.log[i])
  <2> SUFFICES ASSUME NEW i \in 1..Len(c.log) PROVE Behind(d, c.log[i])
    OBVIOUS
  <2> DEFINE x == c.log[i]
  <2>1. x \in Command /\ Behind(c, x)
    BY <1>1, ChannelFields DEF ChannelInv
  <2> HIDE DEF x
  <2>2. /\ x.cmd = "REF" => x.end \in Int
        /\ x.cmd # "REF" => x.bank \in Banks
        /\ x.cmd \in {"REF", "PRE", "ACT", "COL"} /\ x.at \in Int
        /\ x.cmd = "COL" => x.end \in Int /\ x.w \in BOOLEAN
    BY <2>1, CommandIs
  <2>3. ActBehind(d, x) /\ ColBehind(d, x)
    BY <1>9, <2>1 DEF Behind, ActBehind, ColBehind
  <2>4. \A b \in Banks : Rest(c.banks[b]) = c.banks[b].act_ok /\ Rest(d.banks[b]) = d.banks[b].act_ok
    BY <1>10 DEF Rest, Idle
  <2>5. x.cmd # "REF" => Recovered(x, Rest(d.banks[x.bank]))
    <3> SUFFICES ASSUME x.cmd # "REF" PROVE Recovered(x, d.banks[x.bank].act_ok)
      BY <2>2, <2>4
    <3>1. Recovered(x, c.banks[x.bank].act_ok) /\ x.bank \in Banks
      BY <2>1, <2>2, <2>4 DEF Behind, BankBehind
    <3>2. QED BY <3>1, <1>2, <1>10, <2>1, RecoveredLater
  <2>6. x.cmd = "REF" => \A b \in Banks : x.end <= d.banks[b].act_ok
    BY <1>2, <1>10, <2>1, <2>2 DEF Behind, BankBehind
  <2>7. BankBehind(d, x)
    BY <1>10, <2>1, <2>2, <2>5, <2>6 DEF Behind, BankBehind
  <2>8. QED BY <2>3, <2>7 DEF Behind, x
<1>14. OpenRows(d)
  BY <1>10 DEF OpenRows
<1>15. RowsInOrder(d)
  <2> SUFFICES ASSUME NEW j \in 1..Len(c.log), c.log[j].cmd = "COL"
               PROVE  Columned(c.log, j) /\ (tREFI > 0 => c.log[j].at < d.next_refresh)
    BY <1>7 DEF RowsInOrder
  <2>1. c.log[j].at \in Int
    BY <1>1, ChannelFields, CommandIs
  <2>2. c.next_refresh \in Int
    BY <1>1, ChannelFields
  <2>3. QED BY <1>1, <1>7, <2>1, <2>2 DEF ChannelInv, RowsInOrder
<1>16. FawHolds(d)
  BY <1>1, <1>7, <1>9 DEF ChannelInv, FawHolds
<1>17. InReach(d)
  <2> SUFFICES ASSUME tREFI > 0 PROVE InReach(d)
    BY DEF InReach
  <2>1. c.next_refresh <= d.next_refresh /\ c.bus_free \in Int /\ c.next_refresh \in Int
    BY <1>1, <1>7, ChannelFields
  <2>2. d.bus_free <= d.next_refresh + Far
    BY <1>1, <1>7, <1>9, <2>1 DEF ChannelInv, InReach
  <2>3. \A b \in Banks : /\ d.banks[b].act_ok <= d.next_refresh + Far
                         /\ d.banks[b].act + tRAS <= d.next_refresh + Far
                         /\ d.banks[b].pre_ok <= d.next_refresh + Far
    <3> TAKE b \in Banks
    <3>1. /\ c.banks[b].act + tRAS <= c.next_refresh + Far
          /\ c.banks[b].pre_ok <= c.next_refresh + Far
      BY <1>1 DEF ChannelInv, InReach
    <3>2. d.banks[b].act_ok + tRCD < d.next_refresh /\ d.banks[b].act_ok \in Int
          /\ d.banks[b].act = c.banks[b].act /\ d.banks[b].pre_ok = c.banks[b].pre_ok
      BY <1>10
    <3>3. d.next_refresh \in Int /\ c.banks[b].act \in Int /\ c.banks[b].pre_ok \in Int
      BY <1>2, <1>7
    <3>4. QED BY <1>1, <2>1, <3>1, <3>2, <3>3, Times
  <2>4. QED BY <2>2, <2>3 DEF InReach
<1>18. TurnsHold(d)
  BY <1>1, <1>7, <1>9 DEF ChannelInv, TurnsHold, TurnsBehind
<1>19. QED BY <1>1, <1>7, <1>8, <1>11, <1>12, <1>13, <1>14, <1>15, <1>16, <1>17, <1>18 DEF ChannelInv

\* One refresh leaves the bus, the last commands and the queue of ACTIVATEs alone.
LEMMA RefreshOneRefreshed ==
  ASSUME NEW c \in Channels, tREFI > 0
  PROVE  Refreshed(c, RefreshOne(c)) /\ Idle(RefreshOne(c))
<1> DEFINE d == RefreshOne(c)
           r == [cmd |-> "REF", at |-> RefreshStart(c), end |-> RefreshStart(c) + tRFC]
<1>1. c \in ChannelT
  BY DEF Channels
<1>2. /\ d \in ChannelT /\ r \in Command /\ d.log = Append(c.log, r)
      /\ d.next_refresh = c.next_refresh + tREFI
      /\ \A b \in Banks : /\ d.banks[b].open = Nothing /\ d.banks[b].act = c.banks[b].act
                          /\ d.banks[b].pre_ok = c.banks[b].pre_ok
      /\ d = [c EXCEPT !.log = d.log, !.next_refresh = d.next_refresh, !.banks = d.banks]
  BY <1>1, RefreshOneIs
<1>3. r.cmd = "REF"
  OBVIOUS
<1> HIDE DEF d, r
<1>4. /\ d.bus_free = c.bus_free /\ d.last_col = c.last_col /\ d.last_col_at = c.last_col_at
      /\ d.last_was_write = c.last_was_write /\ d.last_write_end = c.last_write_end
      /\ d.last_act = c.last_act /\ d.last_act_at = c.last_act_at /\ d.faw = c.faw
      /\ d.order = c.order
  BY <1>1, <1>2 DEF ChannelT
<1>5. Idle(d)
  BY <1>2, RefreshOneKeeps DEF Idle, d
<1>6. /\ Len(d.log) = Len(c.log) + 1 /\ d.log[Len(c.log) + 1] = r /\ Len(c.log) \in Nat
      /\ \A i \in 1..Len(c.log) : d.log[i] = c.log[i]
  <2>1. c.log \in Seq(Command) /\ d.log = Append(c.log, r) /\ r \in Command
    BY <1>1, <1>2, ChannelFields
  <2>2. QED BY <2>1, Appended
<1>7. c.next_refresh <= d.next_refresh
  <2>1. d.next_refresh = c.next_refresh + tREFI /\ c.next_refresh \in Int
    BY <1>1, <1>2, ChannelFields
  <2>2. QED BY <2>1, Times
<1>8. \A b \in Banks : d.banks[b].act = c.banks[b].act /\ d.banks[b].pre_ok = c.banks[b].pre_ok
  BY <1>2
<1>9. QED BY <1>3, <1>4, <1>5, <1>6, <1>7, <1>8 DEF Refreshed, d

\* A turn of refresh()'s loop moves the next refresh on by tREFI at least.
LEMMA RefreshTurnIs ==
  ASSUME NEW c \in Channels, NEW t \in Int
  PROVE  LET x == RefreshTurn(c, t) IN
         /\ x \in Channels /\ Refreshed(c, x)
         /\ RefreshDue(c, t) => Idle(x) /\ c.next_refresh + tREFI <= x.next_refresh
<1>1. c \in ChannelT /\ c.next_refresh \in Int /\ Len(c.log) \in Nat
  BY ChannelFields DEF Channels
<1>2. CASE ~RefreshDue(c, t)
  <2>1. Refreshed(c, c)
    BY <1>1 DEF Refreshed
  <2>2. QED BY <1>2, <2>1 DEF RefreshTurn
<1>3. CASE RefreshDue(c, t)
  <2> DEFINE d == RefreshOne(c)
             end == RefreshStart(c) + tRFC
             k == (t - tRFC - d.next_refresh) \div tREFI
             e == [d EXCEPT !.next_refresh = @ + k * tREFI,
                     !.banks = [b \in Banks |-> [d.banks[b] EXCEPT !.act_ok = Later(@, SkippedEnd(d, k))]]]
  <2>1. tREFI > 0
    BY <1>3 DEF RefreshDue
  <2>2. d \in Channels /\ Idle(d) /\ Refreshed(c, d)
    BY <2>1, RefreshOneKeeps, RefreshOneRefreshed
  <2>3. d.next_refresh = c.next_refresh + tREFI
    BY <1>1, RefreshOneIs
  <2>4. RefreshTurn(c, t) = SkipIdle(d, end, t)
    BY <1>3 DEF RefreshTurn
  <2>5. RefreshTurn(c, t) = d \/ (k > 0 /\ RefreshTurn(c, t) = e)
    BY <2>4 DEF SkipIdle
  <2> HIDE DEF d, end
  <2>6. d \in ChannelT /\ d.next_refresh \in Int
    BY <2>2, ChannelFields DEF Channels
  <2>7. CASE RefreshTurn(c, t) = d
    BY <2>2, <2>3, <2>6, <2>7
  <2>8. CASE k > 0 /\ RefreshTurn(c, t) = e
    <3>1. k \in Int /\ k \in Nat
      BY <2>1, <2>6, <2>8, Times
    <3>2. PICK m \in Nat : m = k * tREFI
      <4> HIDE DEF k
      <4>1. k * tREFI \in Nat
        BY <3>1, Times
      <4>2. QED BY <4>1
    <3>3. PICK v \in Int : v = d.next_refresh + m - tREFI + tRFC
      BY <2>6, Times
    <3>4. v + tRCD < d.next_refresh + m
      <4>1. tRFC + tRCD < tREFI
        BY <2>1, Times, RefreshIsSeldom
      <4>2. QED BY <2>6, <3>3, <4>1, Times
    <3>5. SkippedEnd(d, k) = v
      BY <3>2, <3>3 DEF SkippedEnd
    <3>6. e = [d EXCEPT !.next_refresh = d.next_refresh + m,
                 !.banks = [b \in Banks |-> [d.banks[b] EXCEPT !.act_ok = Later(@, v)]]]
      BY <3>2, <3>5
    <3> HIDE DEF e
    <3>7. e \in Channels /\ Idle(e) /\ Refreshed(d, e)
      BY <2>2, <3>4, <3>6, SkipKeeps
    <3>8. Refreshed(c, e)
      BY <1>1, <2>2, <2>6, <3>7, RefreshedTwice DEF Channels
    <3>9. d.next_refresh <= e.next_refresh
      BY <3>7 DEF Refreshed
    <3>10. QED BY <2>3, <2>8, <3>7, <3>8, <3>9
  <2>9. QED BY <2>5, <2>7, <2>8
<1>4. QED BY <1>2, <1>3

\* The quotient by which the refreshes due are counted.
LEMMA Quotient ==
  ASSUME NEW i \in Nat, NEW d \in Nat \ {0}
  PROVE  i \div d \in Nat /\ i < ((i \div d) + 1) * d
BY SMT

\* After refresh() the next one is due after t.
LEMMA RefreshIs ==
  ASSUME NEW c \in Channels, NEW t \in Int
  PROVE  LET x == Refresh(c, t) IN
         x \in Channels /\ Refreshed(c, x) /\ ~RefreshDue(x, t)
<1> DEFINE N == RefreshesDue(c, t)
           V == [k \in 0..N |-> {x \in Channels : /\ Refreshed(c, x)
                                                  /\ \/ ~RefreshDue(x, t)
                                                     \/ c.next_refresh + k * tREFI <= x.next_refresh}]
<1>1. c \in ChannelT /\ c.next_refresh \in Int /\ Len(c.log) \in Nat
  BY ChannelFields DEF Channels
<1>2. N \in Nat
  <2>1. CASE RefreshDue(c, t)
    <3>1. t - c.next_refresh \in Nat /\ tREFI \in Nat \ {0}
      BY <1>1, <2>1, Times DEF RefreshDue
    <3>2. QED BY <2>1, <3>1, Quotient DEF RefreshesDue
  <2>2. QED BY <2>1 DEF RefreshesDue
<1>3. c \in V[0]
  <2>1. Refreshed(c, c)
    BY <1>1 DEF Refreshed
  <2>2. c.next_refresh + 0 * tREFI <= c.next_refresh
    BY <1>1, Times
  <2>3. QED BY <1>2, <2>1, <2>2
<1>4. ASSUME NEW k \in 1..N, NEW x \in V[k - 1] PROVE RefreshTurn(x, t) \in V[k]
  <2>1. k - 1 \in 0..N /\ k \in 0..N /\ k - 1 \in Nat
    BY <1>2
  <2>2. /\ x \in Channels /\ Refreshed(c, x) /\ x \in ChannelT /\ x.next_refresh \in Int
        /\ ~RefreshDue(x, t) \/ c.next_refresh + (k - 1) * tREFI <= x.next_refresh
    BY <2>1, ChannelFields DEF Channels
  <2> DEFINE y == RefreshTurn(x, t)
  <2>3. /\ y \in Channels /\ Refreshed(x, y)
        /\ RefreshDue(x, t) => x.next_refresh + tREFI <= y.next_refresh
    BY <2>2, RefreshTurnIs
  <2>4. ~RefreshDue(x, t) => y = x
    BY DEF RefreshTurn
  <2> HIDE DEF y
  <2>5. y \in ChannelT /\ y.next_refresh \in Int
    BY <2>3, ChannelFields DEF Channels
  <2>6. Refreshed(c, y)
    BY <1>1, <2>2, <2>3, <2>5, RefreshedTwice
  <2>7. ~RefreshDue(y, t) \/ c.next_refresh + k * tREFI <= y.next_refresh
    <3>1. (k - 1) * tREFI + tREFI = k * tREFI /\ (k - 1) * tREFI \in Int /\ k * tREFI \in Int
      BY <2>1, Times
    <3>2. PICK p \in Int, q \in Int : p = (k - 1) * tREFI /\ q = k * tREFI
      BY <3>1
    <3>3. QED BY <1>1, <2>2, <2>3, <2>4, <2>5, <3>1, <3>2, Times
  <2>8. QED BY <2>1, <2>3, <2>6, <2>7 DEF y
<1>5. Refresh(c, t) \in V[N]
  <2> HIDE DEF V
  <2>1. QED BY <1>2, <1>3, <1>4, RefreshIn
<1> DEFINE x == Refresh(c, t)
<1>6. x \in Channels /\ Refreshed(c, x)
      /\ (~RefreshDue(x, t) \/ c.next_refresh + N * tREFI <= x.next_refresh)
  BY <1>2, <1>5
<1> HIDE DEF x
<1>7. x \in ChannelT /\ x.next_refresh \in Int
  BY <1>6, ChannelFields DEF Channels
<1>8. ~RefreshDue(x, t)
  <2>1. CASE RefreshDue(c, t)
    <3>1. t - c.next_refresh \in Nat /\ tREFI \in Nat \ {0} /\ N = (t - c.next_refresh) \div tREFI + 1
      BY <1>1, <2>1, Times DEF RefreshDue, RefreshesDue
    <3>2. t - c.next_refresh < N * tREFI
      BY <3>1, Quotient
    <3>3. N * tREFI \in Int
      BY <1>2, Times
    <3> HIDE DEF N
    <3>4. QED BY <1>1, <1>6, <1>7, <3>2, <3>3 DEF RefreshDue
  <2>2. CASE ~RefreshDue(c, t)
    <3>1. c.next_refresh <= x.next_refresh
      BY <1>6 DEF Refreshed
    <3>2. QED BY <1>1, <1>7, <2>2, <3>1, Times DEF RefreshDue
  <2>3. QED BY <2>1, <2>2
<1>9. QED BY <1>6, <1>8 DEF x

------------------------------------------------------------------------------
(* The commands of a burst. *)

\* The largest of some times, two of which may be left out.
LEMMA MaxOf ==
  ASSUME NEW S \in SUBSET Int, IsFiniteSet(S), S # {}, NEW A, NEW B, NEW a \in Int, NEW b \in Int,
         NEW P \in BOOLEAN, NEW Q \in BOOLEAN,
         A = IF P THEN {a} ELSE {}, B = IF Q THEN {b} ELSE {}
  PROVE  LET m == Max(S \cup A \cup B) IN
         /\ m \in Int /\ \A y \in S : y <= m
         /\ P => a <= m
         /\ Q => b <= m
         /\ m \in S \/ (P /\ m = a) \/ (Q /\ m = b)
<1> DEFINE U == S \cup A \cup B
<1>1. IsFiniteSet(A) /\ IsFiniteSet(B)
  BY FS_EmptySet, FS_Singleton
<1>2. IsFiniteSet(U)
  BY <1>1, FS_Union
<1>3. U \in SUBSET Int /\ U # {}
  OBVIOUS
<1>4. Max(U) \in U /\ \A y \in U : Max(U) >= y
  <2> HIDE DEF U
  <2>1. QED BY <1>2, <1>3, MaxIs
<1> DEFINE m == Max(U)
<1>5. m \in U /\ \A y \in U : y <= m
  <2> HIDE DEF m
  <2>1. m \in U /\ \A y \in U : m >= y
    BY <1>4 DEF m
  <2>2. QED BY <2>1, <1>3
<1> HIDE DEF m
<1>6. QED BY <1>3, <1>5 DEF m

\* Sets of two and three are finite.
LEMMA Three ==
  ASSUME NEW x, NEW y, NEW z
  PROVE  IsFiniteSet({x, y, z}) /\ IsFiniteSet({x, y})
<1>1. IsFiniteSet({x})
  BY FS_Singleton
<1>2. IsFiniteSet({x} \cup {y})
  BY <1>1, FS_AddElement
<1>3. IsFiniteSet(({x} \cup {y}) \cup {z})
  BY <1>2, FS_AddElement
<1>4. {x, y, z} = ({x} \cup {y}) \cup {z} /\ {x, y} = {x} \cup {y}
  OBVIOUS
<1>5. QED BY <1>2, <1>3, <1>4

\* The bank and the rank of a burst.
LEMMA BurstIs ==
  ASSUME NEW c \in ChannelT, NEW k \in BurstT
  PROVE  /\ k.bank \in Banks /\ k.bank[1] = 0 /\ k.bank[2] \in Nat /\ k.row \in Nat /\ k.col \in Nat
         /\ k.ch \in 0..(channels - 1) /\ k.addr \in Nat
         /\ c.banks[k.bank].open \in Nat \cup {Nothing}
         /\ c.banks[k.bank].act \in Int /\ c.banks[k.bank].act_ok \in Int
         /\ c.banks[k.bank].pre_ok \in Int
         /\ c.faw[k.bank[1]] = c.faw[0]
         /\ <<k.bank[1], k.bank[2]>> \in Int \X Int
         /\ SameBg(c.last_act_at, k) <=> c.last_act_at[1] = 0 /\ c.last_act_at[2] = k.bank[2]
         /\ SameBg(c.last_col_at, k) <=> c.last_col_at[1] = 0 /\ c.last_col_at[2] = k.bank[2]
<1>1. k.bank \in Banks /\ k.row \in Nat /\ k.col \in Nat /\ k.ch \in 0..(channels - 1) /\ k.addr \in Nat
  BY DEF BurstT
<1>2. k.bank[1] = 0 /\ k.bank[2] \in Nat
  BY <1>1, BanksAre
<1>3. c.last_act_at \in Int \X Int /\ c.last_col_at \in Int \X Int
  BY ChannelFields
<1>4. \A x \in Int \X Int : SameBg(x, k) <=> x[1] = 0 /\ x[2] = k.bank[2]
  BY <1>2 DEF SameBg
<1>5. QED BY <1>1, <1>2, <1>3, <1>4, ChannelFields

\* The members of a queue of times.
LEMMA Elements ==
  ASSUME NEW q \in Seq(Int)
  PROVE  /\ Len(q) \in Nat /\ \A i \in 1..Len(q) : q[i] \in Int
         /\ Len(q) > 0 => Head(q) = q[1] /\ Head(q) \in Int
OBVIOUS

\* The members of a full queue of ACTIVATEs.
LEMMA HeadIs ==
  ASSUME NEW q \in Seq(Int), Len(q) = 4
  PROVE  Head(q) = q[1] /\ Head(q) \in Int /\ \A i \in 1..4 : q[i] \in Int
<1>1. PICK m \in Nat : m = Len(q) /\ m > 0
  OBVIOUS
<1>2. Len(q) > 0
  BY <1>1
<1>3. QED BY <1>2, Elements

\* An ACTIVATE keeps tRC, tRRD and tFAW to the remembered ones, and waits for nothing
\* else.
LEMMA ActivateAtIs ==
  ASSUME NEW c \in ChannelT, NEW e \in Int, NEW k \in BurstT
  PROVE  LET a == ActivateAt(c, e, k)
             b == c.banks[k.bank]
             q == c.faw[0]
             r == c.last_act + (IF c.last_act_at[2] = k.bank[2] THEN tRRD_L ELSE tRRD_S)
         IN  /\ a \in Int /\ e <= a /\ b.act_ok <= a /\ b.act + tRC <= a
             /\ c.last_act_at[1] = 0 => r <= a
             /\ Len(q) = 4 => Head(q) + tFAW <= a
             /\ \/ a \in {e, b.act_ok, b.act + tRC}
                \/ c.last_act_at[1] = 0 /\ a = r
                \/ Len(q) = 4 /\ a = Head(q) + tFAW
<1> DEFINE a == ActivateAt(c, e, k)
           b == c.banks[k.bank]
           q == c.faw[0]
           P == c.last_act_at[1] = 0
           Q == Len(q) = 4
           r == c.last_act + (IF c.last_act_at[2] = k.bank[2] THEN tRRD_L ELSE tRRD_S)
           h == IF Q THEN Head(q) + tFAW ELSE 0
           A == IF P THEN {r} ELSE {}
           B == IF Q THEN {h} ELSE {}
           S == {e, b.act_ok, b.act + tRC}
<1>1. b.act_ok \in Int /\ b.act + tRC \in Int /\ r \in Int /\ h \in Int
  <2>1. b.act_ok \in Int /\ b.act \in Int /\ c.last_act \in Int
    BY BurstIs, ChannelFields
  <2>2. q \in Seq(Int)
    BY ChannelFields
  <2>3. tRC \in Int /\ tFAW \in Int /\ tRRD_L \in Int /\ tRRD_S \in Int
    BY Times
  <2> HIDE DEF b, q, S, A, B
  <2>4. Q => Head(q) \in Int
    BY <2>2, HeadIs
  <2>5. h \in Int
    <3> HIDE DEF Q, P, r
    <3>1. CASE Q
      BY <2>3, <2>4, <3>1
    <3>2. CASE ~Q
      BY <3>2
    <3>3. QED BY <3>1, <3>2
  <2> HIDE DEF h, P, Q
  <2>6. r \in Int
    <3>1. CASE c.last_act_at[2] = k.bank[2]
      BY <2>1, <2>3, <3>1
    <3>2. CASE c.last_act_at[2] # k.bank[2]
      BY <2>1, <2>3, <3>2
    <3>3. QED BY <3>1, <3>2
  <2> HIDE DEF r
  <2>7. b.act + tRC \in Int
    BY <2>1, <2>3
  <2>8. QED BY <2>1, <2>5, <2>6, <2>7
<1>2. IsFiniteSet(S) /\ S \in SUBSET Int /\ S # {}
  BY <1>1, Three
<1>3. a = Max(S \cup A \cup B)
  <2>1. k.bank[1] = 0 /\ c.faw[k.bank[1]] = q /\
        (SameBg(c.last_act_at, k) <=> P /\ c.last_act_at[2] = k.bank[2])
    BY BurstIs
  <2>2. A = IF c.last_act_at[1] = k.bank[1]
                  THEN {c.last_act + (IF SameBg(c.last_act_at, k) THEN tRRD_L ELSE tRRD_S)}
                  ELSE {}
    BY <2>1
  <2>3. B = IF Len(q) = 4 THEN {Head(q) + tFAW} ELSE {}
    OBVIOUS
  <2> HIDE DEF A, B
  <2>4. QED BY <2>1, <2>2, <2>3 DEF ActivateAt
<1> HIDE DEF a, b, q, r, h, P, Q
<1>4. P \in BOOLEAN /\ Q \in BOOLEAN
  BY DEF P, Q
<1>5. /\ a \in Int /\ \A y \in S : y <= a
      /\ P => r <= a
      /\ Q => h <= a
      /\ a \in S \/ (P /\ a = r) \/ (Q /\ a = h)
  <2> HIDE DEF A, B, S
  <2>1. A = (IF P THEN {r} ELSE {}) /\ B = (IF Q THEN {h} ELSE {})
    BY DEF A, B
  <2>2. QED BY <1>1, <1>2, <1>3, <1>4, <2>1, MaxOf
<1>6. QED BY <1>5 DEF a, b, q, r, h, P, Q

\* A column command keeps tCCD and the turnaround to the remembered one and finds the bus
\* free, and waits for nothing else.
LEMMA ColumnAtIs ==
  ASSUME NEW c \in ChannelT, NEW e \in Int, NEW k \in BurstT, NEW w \in BOOLEAN
  PROVE  LET a == ColumnAt(c, e, k, w)
             same == c.last_col_at[1] = 0 /\ c.last_col_at[2] = k.bank[2]
             lat == IF w THEN tWL ELSE tRL
             gap == c.last_col + (IF same THEN tCCD_L ELSE tCCD_S)
             turn == c.last_write_end + (IF same THEN tWTR_L ELSE tWTR_S)
             back == c.last_col + (IF same /\ tRTW_L # 0 THEN tRTW_L ELSE tRTW)
         IN  /\ a \in Int /\ e <= a /\ gap <= a /\ c.bus_free <= a + lat
             /\ ~w /\ c.last_was_write => turn <= a
             /\ w /\ ~c.last_was_write => back <= a
             /\ \/ a = e \/ a = gap \/ a + lat = c.bus_free
                \/ ~w /\ c.last_was_write /\ a = turn
                \/ w /\ ~c.last_was_write /\ a = back
<1> DEFINE same == c.last_col_at[1] = 0 /\ c.last_col_at[2] = k.bank[2]
           lat == IF w THEN tWL ELSE tRL
           gap == c.last_col + (IF same THEN tCCD_L ELSE tCCD_S)
           turn == c.last_write_end + (IF same THEN tWTR_L ELSE tWTR_S)
           back == c.last_col + (IF same /\ tRTW_L # 0 THEN tRTW_L ELSE tRTW)
           P == ~w /\ c.last_was_write
           Q == w /\ ~c.last_was_write
           A == IF P THEN {turn} ELSE {}
           B == IF Q THEN {back} ELSE {}
           S == {e, gap}
           m == Max(S \cup A \cup B)
           free == c.bus_free
<1>1. lat \in Int /\ gap \in Int /\ turn \in Int /\ back \in Int /\ free \in Int
  <2>1. c.last_col \in Int /\ c.last_write_end \in Int /\ c.bus_free \in Int
    BY ChannelFields
  <2>2. QED BY <2>1, Times
<1>2. S \in SUBSET Int /\ S # {}
  BY <1>1
<1>3. IsFiniteSet(S)
  BY Three
<1>4. ColumnAt(c, e, k, w) = Later(m + lat, free) - lat
  <2>1. SameBg(c.last_col_at, k) <=> same
    BY BurstIs
  <2> DEFINE T == {e, c.last_col + (IF SameBg(c.last_col_at, k) THEN tCCD_L ELSE tCCD_S)}
  <2>2. S = T
    BY <2>1
  <2>3. S \cup A \cup B = T \cup Turnaround(c, SameBg(c.last_col_at, k), w)
    <3>1. Turnaround(c, SameBg(c.last_col_at, k), w) = A \cup B
      BY <2>1 DEF Turnaround
    <3> HIDE DEF S, T, A, B
    <3>2. QED BY <2>2, <3>1
  <2> HIDE DEF S, A, B
  <2>4. QED BY <2>3 DEF ColumnAt
<1> HIDE DEF same, lat, gap, turn, back, P, Q, m, free
<1>5. P \in BOOLEAN /\ Q \in BOOLEAN
  BY ChannelFields DEF P, Q
<1>6. /\ m \in Int /\ \A y \in S : y <= m
      /\ P => turn <= m
      /\ Q => back <= m
      /\ m \in S \/ (P /\ m = turn) \/ (Q /\ m = back)
  <2> HIDE DEF A, B, S
  <2>1. A = (IF P THEN {turn} ELSE {}) /\ B = (IF Q THEN {back} ELSE {})
    BY DEF A, B
  <2>2. QED BY <1>1, <1>2, <1>3, <1>5, <2>1, MaxOf DEF m
<1> DEFINE a == Later(m + lat, free) - lat
<1>7. a \in Int /\ m <= a /\ free <= a + lat /\ (a = m \/ a + lat = free)
  BY <1>1, <1>6 DEF Later
<1> HIDE DEF a
<1>8. /\ a \in Int /\ e <= a /\ gap <= a /\ free <= a + lat
      /\ P => turn <= a
      /\ Q => back <= a
      /\ a = e \/ a = gap \/ a + lat = free \/ (P /\ a = turn) \/ (Q /\ a = back)
  BY <1>1, <1>6, <1>7
<1>9. ColumnAt(c, e, k, w) = a
  BY <1>4 DEF a
<1>10. QED BY <1>8, <1>9 DEF same, lat, gap, turn, back, P, Q, free

\* What plan() makes of a burst.
LEMMA PlanIs ==
  ASSUME NEW c \in ChannelT, NEW t \in Int, NEW k \in BurstT, NEW w \in BOOLEAN
  PROVE  LET p == Plan(c, t, k, w)
             b == c.banks[k.bank]
             e == IF p.kind = "conflict" THEN p.pre + tRP ELSE t
             f == IF p.kind = "hit" THEN Later(t, p.act + tRCD) ELSE p.act + tRCD
             lat == IF w THEN tWL ELSE tRL
         IN  /\ p.kind = IF b.open = k.row THEN "hit"
                         ELSE IF b.open # Nothing THEN "conflict" ELSE "miss"
             /\ p.pre \in Int /\ p.act \in Int /\ p.first \in Int /\ p.col \in Int /\ p.end \in Int
             /\ t <= p.pre /\ b.act + tRAS <= p.pre /\ b.pre_ok <= p.pre
             /\ e \in Int /\ f \in Int
             /\ p.kind = "hit" => p.act = b.act
             /\ p.kind # "hit" => p.act = ActivateAt(c, e, k)
             /\ p.col = ColumnAt(c, f, k, w)
             /\ p.end = p.col + lat + burst
<1> DEFINE p == Plan(c, t, k, w)
           b == c.banks[k.bank]
           kind == IF b.open = k.row THEN "hit" ELSE IF b.open # Nothing THEN "conflict" ELSE "miss"
           pre == Max({t, b.act + tRAS, b.pre_ok})
           act == CASE kind = "hit" -> b.act
                    [] kind = "conflict" -> ActivateAt(c, pre + tRP, k)
                    [] kind = "miss" -> ActivateAt(c, t, k)
           col == ColumnAt(c, IF kind = "hit" THEN Later(t, act + tRCD) ELSE act + tRCD, k, w)
           first == CASE kind = "hit" -> Later(t, act + tRCD)
                      [] kind = "conflict" -> pre [] kind = "miss" -> act
           end == col + (IF w THEN tWL ELSE tRL) + burst
<1>1. p = [kind |-> kind, pre |-> pre, act |-> act, first |-> first, col |-> col, end |-> end]
  BY DEF Plan
<1>2. b.act \in Int /\ b.pre_ok \in Int /\ b.act + tRAS \in Int
  <2>1. b.act \in Int /\ b.pre_ok \in Int
    BY BurstIs
  <2> HIDE DEF b
  <2>2. QED BY <2>1, Times
<1>3. pre \in Int /\ t <= pre /\ b.act + tRAS <= pre /\ b.pre_ok <= pre
  <2> DEFINE S == {t, b.act + tRAS, b.pre_ok}
  <2> HIDE DEF b
  <2>1. S \in SUBSET Int /\ S # {}
    BY <1>2
  <2>2. IsFiniteSet(S)
    BY Three
  <2>3. Max(S) \in S /\ \A y \in S : Max(S) >= y
    BY <2>1, <2>2, MaxIs
  <2> DEFINE m == Max(S)
  <2>4. m \in S /\ \A y \in S : m >= y
    BY <2>3
  <2> HIDE DEF m
  <2>5. m \in Int /\ t <= m /\ b.act + tRAS <= m /\ b.pre_ok <= m
    BY <2>1, <2>4, <1>2
  <2>6. QED BY <2>5 DEF m
<1> HIDE DEF pre, p
<1>4. kind \in {"hit", "conflict", "miss"}
  OBVIOUS
<1> HIDE DEF kind
<1>5. act \in Int /\ (kind = "hit" => act = b.act)
      /\ (kind = "conflict" => act = ActivateAt(c, pre + tRP, k))
      /\ (kind = "miss" => act = ActivateAt(c, t, k))
  <2>1. pre + tRP \in Int
    BY <1>3, Times
  <2>2. ActivateAt(c, pre + tRP, k) \in Int /\ ActivateAt(c, t, k) \in Int
    BY <2>1, ActivateAtIs
  <2> HIDE DEF b
  <2>3. QED BY <1>2, <1>4, <2>2 DEF b
<1> HIDE DEF act
<1> DEFINE f == IF kind = "hit" THEN Later(t, act + tRCD) ELSE act + tRCD
<1>6. f \in Int /\ Later(t, act + tRCD) \in Int
  BY <1>5, Times DEF Later
<1>7. col \in Int /\ col = ColumnAt(c, f, k, w)
  <2>1. col = ColumnAt(c, f, k, w)
    OBVIOUS
  <2> HIDE DEF f, col
  <2>2. QED BY <2>1, <1>6, ColumnAtIs
<1> HIDE DEF col, f
<1>8. end \in Int
  BY <1>7, Times
<1>9. first \in Int
  BY <1>3, <1>4, <1>5, <1>6
<1> HIDE DEF end, first
<1>10. p.kind = kind /\ p.pre = pre /\ p.act = act /\ p.first = first /\ p.col = col /\ p.end = end
  BY <1>1
<1> DEFINE e == IF p.kind = "conflict" THEN p.pre + tRP ELSE t
<1>11. e \in Int /\ (p.kind # "hit" => p.act = ActivateAt(c, e, k))
  BY <1>3, <1>4, <1>5, <1>10, Times
<1>12. f = IF p.kind = "hit" THEN Later(t, p.act + tRCD) ELSE p.act + tRCD
  BY <1>10 DEF f
<1>13. p.end = p.col + (IF w THEN tWL ELSE tRL) + burst
  BY <1>10 DEF end
<1>14. p.kind = IF b.open = k.row THEN "hit"
                ELSE IF b.open # Nothing THEN "conflict" ELSE "miss"
  BY <1>10 DEF kind
<1> HIDE DEF b, e
<1>15. QED BY <1>3, <1>5, <1>6, <1>7, <1>8, <1>9, <1>10, <1>11, <1>12, <1>13, <1>14 DEF p, b, e

\* Refreshing moves the column command of a burst to a closed bank no further than
\* the bank's being ready.
LEMMA ColumnMoves ==
  ASSUME NEW c \in ChannelT, NEW d \in ChannelT, NEW t \in Int, NEW k \in BurstT, NEW w \in BOOLEAN,
         Refreshed(c, d), c.banks[k.bank].open = Nothing, d.banks[k.bank].open = Nothing
  PROVE  LET p == Plan(c, t, k, w).col
             q == Plan(d, t, k, w).col
         IN  p \in Int /\ q \in Int /\ (q <= p \/ q <= d.banks[k.bank].act_ok + tRCD)
<1> DEFINE p == Plan(c, t, k, w)
           q == Plan(d, t, k, w)
           a == ActivateAt(c, t, k)
           b == ActivateAt(d, t, k)
           ok == d.banks[k.bank].act_ok
<1>1. k.row \in Nat /\ Nothing \notin Nat /\ ok \in Int /\ c.banks[k.bank].act_ok \in Int
      /\ k.bank \in Banks
  <2>1. Nothing \notin Nat
    BY DEF Nothing
  <2> HIDE DEF Nothing
  <2>2. QED BY <2>1, BurstIs
<1>2. p.kind = "miss" /\ q.kind = "miss"
  <2>1. p.kind = IF c.banks[k.bank].open = k.row THEN "hit"
                 ELSE IF c.banks[k.bank].open # Nothing THEN "conflict" ELSE "miss"
    BY PlanIs
  <2>2. q.kind = IF d.banks[k.bank].open = k.row THEN "hit"
                 ELSE IF d.banks[k.bank].open # Nothing THEN "conflict" ELSE "miss"
    BY PlanIs
  <2> HIDE DEF Nothing, p, q
  <2>3. QED BY <1>1, <2>1, <2>2
<1>3. p.col = ColumnAt(c, a + tRCD, k, w) /\ q.col = ColumnAt(d, b + tRCD, k, w)
  <2>1. p.act = a /\ p.col = ColumnAt(c, p.act + tRCD, k, w)
    BY <1>2, PlanIs
  <2>2. q.act = b /\ q.col = ColumnAt(d, q.act + tRCD, k, w)
    BY <1>2, PlanIs
  <2>3. QED BY <2>1, <2>2
<1>4. p.col \in Int /\ q.col \in Int
  BY PlanIs
<1>5. /\ d.bus_free = c.bus_free /\ d.last_col = c.last_col /\ d.last_col_at = c.last_col_at
      /\ d.last_was_write = c.last_was_write /\ d.last_write_end = c.last_write_end
      /\ d.last_act = c.last_act /\ d.last_act_at = c.last_act_at /\ d.faw = c.faw
      /\ d.banks[k.bank].act = c.banks[k.bank].act
  BY <1>1 DEF Refreshed
<1> HIDE DEF p, q, a, b, ok
<1>6. a \in Int /\ b \in Int /\ (b <= a \/ b = ok)
  <2> DEFINE B == c.banks[k.bank].act + tRC
             F == c.faw[0]
             r == c.last_act + (IF c.last_act_at[2] = k.bank[2] THEN tRRD_L ELSE tRRD_S)
  <2>1. /\ a \in Int /\ t <= a /\ B <= a
        /\ c.last_act_at[1] = 0 => r <= a
        /\ Len(F) = 4 => Head(F) + tFAW <= a
    BY ActivateAtIs DEF a
  <2>2. /\ b \in Int
        /\ \/ b \in {t, ok, B}
           \/ c.last_act_at[1] = 0 /\ b = r
           \/ Len(F) = 4 /\ b = Head(F) + tFAW
    <3>1. /\ b \in Int
          /\ \/ b \in {t, ok, d.banks[k.bank].act + tRC}
             \/ d.last_act_at[1] = 0
                /\ b = d.last_act + (IF d.last_act_at[2] = k.bank[2] THEN tRRD_L ELSE tRRD_S)
             \/ Len(d.faw[0]) = 4 /\ b = Head(d.faw[0]) + tFAW
      BY ActivateAtIs DEF b, ok
    <3>2. QED BY <1>5, <3>1
  <2> HIDE DEF B, F, r
  <2>3. QED BY <2>1, <2>2
<1>7. a + tRCD \in Int /\ b + tRCD \in Int
  BY <1>6, Times
<1>8. q.col <= p.col \/ q.col = b + tRCD
  <2> DEFINE same == c.last_col_at[1] = 0 /\ c.last_col_at[2] = k.bank[2]
             lat == IF w THEN tWL ELSE tRL
             gap == c.last_col + (IF same THEN tCCD_L ELSE tCCD_S)
             turn == c.last_write_end + (IF same THEN tWTR_L ELSE tWTR_S)
             back == c.last_col + (IF same /\ tRTW_L # 0 THEN tRTW_L ELSE tRTW)
             P == ~w /\ c.last_was_write
             Q == w /\ ~c.last_was_write
             free == c.bus_free
  <2>1. /\ gap <= p.col /\ free <= p.col + lat
        /\ P => turn <= p.col
        /\ Q => back <= p.col
    BY <1>3, <1>7, ColumnAtIs
  <2>2. \/ q.col = b + tRCD \/ q.col = gap \/ q.col + lat = free
        \/ P /\ q.col = turn
        \/ Q /\ q.col = back
    <3> DEFINE same2 == d.last_col_at[1] = 0 /\ d.last_col_at[2] = k.bank[2]
               gap2 == d.last_col + (IF same2 THEN tCCD_L ELSE tCCD_S)
               turn2 == d.last_write_end + (IF same2 THEN tWTR_L ELSE tWTR_S)
               back2 == d.last_col + (IF same2 /\ tRTW_L # 0 THEN tRTW_L ELSE tRTW)
    <3>1. \/ q.col = b + tRCD \/ q.col = gap2 \/ q.col + lat = d.bus_free
          \/ ~w /\ d.last_was_write /\ q.col = turn2
          \/ w /\ ~d.last_was_write /\ q.col = back2
      BY <1>3, <1>7, ColumnAtIs
    <3>2. gap2 = gap /\ turn2 = turn /\ back2 = back
      BY <1>5
    <3> HIDE DEF gap, turn, back, gap2, turn2, back2
    <3>3. QED BY <1>5, <3>1, <3>2
  <2>3. lat \in Int
    BY Times
  <2> HIDE DEF gap, turn, back, lat, free, P, Q
  <2>4. QED BY <1>4, <2>1, <2>2, <2>3
<1>9. b <= a => q.col <= p.col \/ q.col <= a + tRCD
  BY <1>4, <1>6, <1>8, Times
<1>10. a + tRCD <= p.col
  BY <1>3, <1>7, ColumnAtIs
<1>11. QED BY <1>1, <1>4, <1>6, <1>8, <1>9, <1>10, Times DEF p, q, ok

\* Two turns of burst()'s loop, and no refresh is due before the column command.
LEMMA SettledIs ==
  ASSUME NEW c \in Channels, NEW t \in Int, NEW k \in BurstT, NEW w \in BOOLEAN
  PROVE  LET x == Settled(c, t, k, w) IN
         x \in Channels /\ Refreshed(c, x) /\ ~RefreshDue(x, Plan(x, t, k, w).col)
<1> DEFINE p == Plan(c, t, k, w).col
           x == SettleTurn(c, t, k, w)
           q == Plan(x, t, k, w).col
           y == SettleTurn(x, t, k, w)
           r == Plan(y, t, k, w).col
<1>1. c \in ChannelT /\ p \in Int /\ c.next_refresh \in Int
  BY PlanIs, ChannelFields DEF Channels
<1>2. x \in Channels /\ Refreshed(c, x) /\ ~RefreshDue(x, p)
  <2>1. x = Refresh(c, p)
    BY DEF SettleTurn
  <2> HIDE DEF x, p
  <2>2. QED BY <1>1, <2>1, RefreshIs
<1> HIDE DEF x
<1>3. x \in ChannelT /\ q \in Int /\ x.next_refresh \in Int
  BY <1>2, PlanIs, ChannelFields DEF Channels
<1>4. y \in Channels /\ Refreshed(x, y) /\ ~RefreshDue(y, q)
  <2>1. y = Refresh(x, q)
    BY DEF SettleTurn
  <2> HIDE DEF y, q
  <2>2. QED BY <1>2, <1>3, <2>1, RefreshIs
<1> HIDE DEF y
<1>5. y \in ChannelT /\ r \in Int /\ y.next_refresh \in Int
  BY <1>4, PlanIs, ChannelFields DEF Channels
<1>6. k.bank \in Banks
  BY DEF BurstT
<1>7. ~RefreshDue(y, r)
  <2>1. CASE x = c
    <3>1. p = q
      BY <2>1
    <3> HIDE DEF p, q
    <3>2. y = x \/ y # x
      OBVIOUS
    <3>3. CASE y = x
      BY <1>4, <3>3 DEF q
    <3>4. CASE y # x
      <4>1. ~RefreshDue(x, q)
        BY <1>2, <3>1
      <4>2. Refresh(x, q) = x
        <5>1. RefreshesDue(x, q) = 0
          BY <4>1 DEF RefreshesDue
        <5> DEFINE V == [i \in 0..0 |-> {x}]
        <5>2. RefreshesDue(x, q) \in Nat /\ x \in V[0]
              /\ \A i \in 1..RefreshesDue(x, q) : \A z \in V[i - 1] : RefreshTurn(z, q) \in V[i]
          BY <5>1
        <5>3. Refresh(x, q) \in V[RefreshesDue(x, q)]
          <6> HIDE DEF V
          <6>1. QED BY <5>2, RefreshIn
        <5>4. QED BY <5>1, <5>3
      <4>3. QED BY <3>4, <4>2 DEF y, SettleTurn, q
    <3>5. QED BY <3>3, <3>4
  <2>2. CASE x # c
    <3>1. Idle(x)
      BY <1>2, <2>2 DEF Refreshed
    <3>2. CASE y = x
      BY <1>4, <3>2
    <3>3. CASE y # x
      <4>1. Idle(y)
        BY <1>4, <3>3 DEF Refreshed
      <4>2. x.banks[k.bank].open = Nothing /\ y.banks[k.bank].open = Nothing
            /\ y.banks[k.bank].act_ok + tRCD < y.next_refresh
        BY <1>6, <3>1, <4>1 DEF Idle
      <4>3. r <= q \/ r <= y.banks[k.bank].act_ok + tRCD
        BY <1>3, <1>4, <1>5, <4>2, ColumnMoves
      <4>4. y.banks[k.bank].act_ok + tRCD \in Int
        BY <1>5, <1>6, ChannelFields, Times
      <4> HIDE DEF r, q
      <4>5. QED BY <1>3, <1>4, <1>5, <4>2, <4>3, <4>4 DEF RefreshDue
    <3>4. QED BY <3>2, <3>3
  <2>3. QED BY <2>1, <2>2
<1>8. Refreshed(c, y)
  BY <1>1, <1>2, <1>3, <1>4, <1>5, RefreshedTwice
<1>9. QED BY <1>4, <1>7, <1>8 DEF Settled, x, y

\* The channel r, its log ended by the PRECHARGE if there is one, is ready for an
\* ACTIVATE of k's bank at time a.
ReadyBehind(r, k, a, x) ==
  /\ ActBehind(r, x) /\ ColBehind(r, x)
  /\ x.cmd = "REF" => \A b \in Banks : /\ x.end <= r.banks[b].act_ok
                                       /\ r.banks[b].open # Nothing => x.end <= r.banks[b].act
  /\ x.cmd # "REF" /\ x.bank # k.bank => BankBehind(r, x)
  /\ x.cmd # "REF" /\ x.bank = k.bank => Recovered(x, a)
  /\ x.cmd = "ACT" /\ x.bank = k.bank => x.at <= r.banks[k.bank].act
  /\ x.cmd = "PRE" /\ x.bank = k.bank => x.at + tRP <= a
OpenRow(c, b) ==
  c.banks[b].open # Nothing =>
    \E i \in 1..Len(c.log) : /\ Opens(c.log, i, b, c.banks[b].open, Len(c.log) + 1)
                             /\ c.log[i].at <= c.banks[b].act
Ready(r, k, a) ==
  /\ r \in ChannelT /\ Paired(r.log) /\ FawKept(r.log)
  /\ RowsInOrder(r) /\ FawHolds(r) /\ TurnsHold(r) /\ InReach(r)
  /\ \A b \in Banks : b # k.bank => OpenRow(r, b)
  /\ \A i \in 1..Len(r.log) : ReadyBehind(r, k, a, r.log[i])

\* A closed bank is ready for an ACTIVATE once act_ok and tRC allow it, ...
LEMMA ReadyMiss ==
  ASSUME NEW c \in Channels, NEW k \in BurstT, NEW a \in Int,
         c.banks[k.bank].open = Nothing, c.banks[k.bank].act_ok <= a, c.banks[k.bank].act + tRC <= a
  PROVE  Ready(c, k, a)
<1>1. c \in ChannelT /\ ChannelInv(c)
  BY DEF Channels
<1>2. \A b \in Banks : OpenRow(c, b)
  BY <1>1 DEF ChannelInv, OpenRows, OpenRow
<1>3. ASSUME NEW i \in 1..Len(c.log) PROVE ReadyBehind(c, k, a, c.log[i])
  <2> DEFINE x == c.log[i]
  <2>1. x \in Command /\ Behind(c, x)
    BY <1>1, ChannelFields DEF ChannelInv
  <2> HIDE DEF x
  <2>2. x.at \in Int /\ (x.cmd # "REF" => x.bank \in Banks)
    BY <2>1, CommandIs
  <2>3. ActBehind(c, x) /\ ColBehind(c, x) /\ BankBehind(c, x)
    BY <2>1 DEF Behind
  <2>4. c.banks[k.bank].act \in Int /\ c.banks[k.bank].act_ok \in Int
    BY <1>1, BurstIs
  <2>5. x.cmd # "REF" /\ x.bank = k.bank => Recovered(x, a)
    <3>1. Rest(c.banks[k.bank]) = c.banks[k.bank].act_ok
      BY DEF Rest
    <3> SUFFICES ASSUME x.cmd # "REF", x.bank = k.bank PROVE Recovered(x, a)
      OBVIOUS
    <3>2. Recovered(x, c.banks[k.bank].act_ok)
      BY <2>3, <3>1 DEF BankBehind
    <3>3. QED BY <2>1, <2>4, <3>2, RecoveredLater
  <2>6. x.cmd = "PRE" /\ x.bank = k.bank => x.at + tRP <= a
    BY <2>2, <2>3, <2>4, Times DEF BankBehind
  <2>7. x.cmd = "REF" => \A b \in Banks : /\ x.end <= c.banks[b].act_ok
                                          /\ c.banks[b].open # Nothing => x.end <= c.banks[b].act
    BY <2>3 DEF BankBehind
  <2>8. x.cmd = "ACT" /\ x.bank = k.bank => x.at <= c.banks[k.bank].act
    BY <2>3 DEF BankBehind
  <2>9. QED BY <2>3, <2>5, <2>6, <2>7, <2>8 DEF ReadyBehind, x
<1>4. QED BY <1>1, <1>2, <1>3 DEF Ready, ChannelInv

Precharging(c, k, v) ==
  [c EXCEPT !.log = Append(@, [cmd |-> "PRE", at |-> v, bank |-> k.bank])]

\* ... and one with another row open after a PRECHARGE of its own.
LEMMA ReadyConflict ==
  ASSUME NEW c \in Channels, NEW k \in BurstT, NEW a \in Int, NEW v \in Int,
         c.banks[k.bank].open # Nothing, c.banks[k.bank].act + tRAS <= v, c.banks[k.bank].pre_ok <= v,
         v + tRP <= a,
         NEW r, r = Precharging(c, k, v)
  PROVE  Ready(r, k, a)
<1> DEFINE y == [cmd |-> "PRE", at |-> v, bank |-> k.bank]
           l == c.log
<1>1. c \in ChannelT /\ ChannelInv(c)
  BY DEF Channels
<1>2. y \in Command /\ y.cmd = "PRE" /\ y.at = v /\ y.bank = k.bank
  BY DEF Command, BurstT
<1>3. l \in Seq(Command) /\ Len(l) \in Nat
  BY <1>1, ChannelFields
<1>4. r = [c EXCEPT !.log = Append(l, y)]
  BY DEF Precharging
<1> HIDE DEF y
<1>5. /\ r.log = Append(l, y) /\ r.bus_free = c.bus_free /\ r.last_col = c.last_col
      /\ r.last_col_at = c.last_col_at
      /\ r.last_was_write = c.last_was_write /\ r.last_write_end = c.last_write_end
      /\ r.last_act = c.last_act /\ r.last_act_at = c.last_act_at /\ r.faw = c.faw
      /\ r.banks = c.banks /\ r.next_refresh = c.next_refresh
  BY <1>1, <1>4 DEF ChannelT
<1>6. /\ r.log \in Seq(Command) /\ Len(r.log) = Len(l) + 1 /\ r.log[Len(l) + 1] = y
      /\ \A i \in 1..Len(l) : r.log[i] = l[i] /\ l[i] \in Command /\ Behind(c, l[i])
  BY <1>1, <1>2, <1>3, <1>5, Appended DEF ChannelInv
<1>7. r \in ChannelT
  <2>1. r = [c EXCEPT !.log = r.log]
    BY <1>4, <1>5
  <2>2. QED BY <1>1, <1>6, <2>1 DEF ChannelT
<1>8. /\ k.bank \in Banks /\ c.banks[k.bank].act \in Int /\ c.banks[k.bank].act_ok \in Int
      /\ c.banks[k.bank].pre_ok \in Int
  <2> HIDE DEF Nothing
  <2>1. QED BY <1>1, BurstIs
<1>9. \A i \in 1..Len(l) : l[i].cmd # "REF" /\ l[i].bank = k.bank => Recovered(l[i], v)
  <2> SUFFICES ASSUME NEW i \in 1..Len(l), l[i].cmd # "REF", l[i].bank = k.bank
               PROVE  Recovered(l[i], v)
    OBVIOUS
  <2>1. Rest(c.banks[k.bank]) \in Int /\ Rest(c.banks[k.bank]) <= v
    BY <1>8, Times DEF Rest, Later
  <2>2. l[i] \in Command /\ Recovered(l[i], Rest(c.banks[k.bank]))
    BY <1>6 DEF Behind, BankBehind
  <2>3. QED BY <2>1, <2>2, RecoveredLater
<1>10. \A i \in 1..Len(l) : l[i].cmd = "REF" => l[i].end <= v
  <2> SUFFICES ASSUME NEW i \in 1..Len(l), l[i].cmd = "REF" PROVE l[i].end <= v
    OBVIOUS
  <2>1. l[i].end \in Int /\ l[i].end <= c.banks[k.bank].act
    BY <1>6, <1>8, CommandIs DEF Behind, BankBehind
  <2>2. QED BY <1>8, <2>1, Times
<1>11. Paired(r.log) /\ FawKept(r.log)
  <2>1. ASSUME NEW i \in 1..Len(l) PROVE Fits(l[i], y)
    <3>1. ClosedWithCare(l[i], y)
      BY <1>2, <1>9 DEF ClosedWithCare, IsCmd
    <3>2. RefreshAlone(l[i], y)
      BY <1>2, <1>10, <1>6, CommandIs DEF RefreshAlone, IsCmd
    <3>3. ActivatesApart(l[i], y) /\ BusShared(l[i], y)
      BY <1>2 DEF ActivatesApart, BusShared, IsCmd
    <3>4. QED BY <3>1, <3>2, <3>3 DEF Fits
  <2>2. QED BY <1>1, <1>2, <1>3, <1>5, <2>1, PairedAppend, FawKeptAppend DEF ChannelInv
<1>12. RowsInOrder(r)
  <2> SUFFICES ASSUME NEW j \in 1..Len(r.log), r.log[j].cmd = "COL"
               PROVE  Columned(r.log, j) /\ (tREFI > 0 => r.log[j].at < r.next_refresh)
    BY DEF RowsInOrder
  <2>1. j \in 1..Len(l) /\ r.log[j] = l[j]
    BY <1>2, <1>3, <1>6
  <2>2. Columned(l, j) /\ (tREFI > 0 => l[j].at < c.next_refresh)
    BY <1>1, <2>1 DEF ChannelInv, RowsInOrder
  <2>3. QED BY <1>2, <1>3, <1>5, <2>1, <2>2, ColumnedAppend
<1>13. FawHolds(r)
  <2>1. Acts(r.log, Len(r.log)) = Acts(l, Len(l))
    BY <1>2, <1>3, <1>5, ActsAppend
  <2>2. \A i \in Acts(l, Len(l)) : r.log[i] = l[i]
    BY <1>6 DEF Acts
  <2>3. \A z : {i \in Acts(r.log, Len(r.log)) : r.log[i].at > z} = {i \in Acts(l, Len(l)) : l[i].at > z}
    BY <2>1, <2>2
  <2>4. FawHolds(c) /\ r.faw = c.faw
    BY <1>1, <1>5 DEF ChannelInv
  <2>5. QED BY <2>1, <2>3, <2>4 DEF FawHolds
<1>14. InReach(r)
  BY <1>1, <1>5 DEF ChannelInv, InReach
<1>15. \A b \in Banks : b # k.bank => OpenRow(r, b)
  <2> SUFFICES ASSUME NEW b \in Banks, b # k.bank, c.banks[b].open # Nothing
               PROVE  \E i \in 1..Len(r.log) : /\ Opens(r.log, i, b, c.banks[b].open, Len(r.log) + 1)
                                               /\ r.log[i].at <= c.banks[b].act
    BY <1>5 DEF OpenRow
  <2>1. PICK i \in 1..Len(l) : /\ Opens(l, i, b, c.banks[b].open, Len(l) + 1)
                               /\ l[i].at <= c.banks[b].act
    BY <1>1 DEF ChannelInv, OpenRows
  <2>2. Opens(r.log, i, b, c.banks[b].open, Len(r.log) + 1)
    BY <1>2, <1>3, <1>5, <2>1, OpensAppend
  <2>3. i \in 1..Len(r.log) /\ r.log[i].at <= c.banks[b].act
    BY <1>3, <1>6, <2>1
  <2>4. QED BY <2>2, <2>3
<1>16. \A i \in 1..Len(r.log) : ReadyBehind(r, k, a, r.log[i])
  <2>1. v <= a
    BY Times
  <2>2. ReadyBehind(r, k, a, y)
    <3>1. ActBehind(r, y) /\ ColBehind(r, y)
      BY <1>2 DEF ActBehind, ColBehind
    <3>2. Recovered(y, a)
      BY <1>2 DEF Recovered, IsCmd
    <3>3. QED BY <1>2, <3>1, <3>2 DEF ReadyBehind
  <2>3. ASSUME NEW i \in 1..Len(l) PROVE ReadyBehind(r, k, a, l[i])
    <3> DEFINE x == l[i]
    <3>1. x \in Command /\ Behind(c, x) /\ (x.cmd # "REF" /\ x.bank = k.bank => Recovered(x, v))
      BY <1>6, <1>9
    <3> HIDE DEF x
    <3>2. ActBehind(r, x) /\ ColBehind(r, x) /\ BankBehind(r, x)
      BY <1>5, <3>1 DEF Behind, ActBehind, ColBehind, BankBehind
    <3>3. x.cmd # "REF" /\ x.bank = k.bank => Recovered(x, a)
      BY <2>1, <3>1, RecoveredLater
    <3>4. x.cmd = "PRE" /\ x.bank = k.bank => x.at + tRP <= a
      <4>1. x.at \in Int
        BY <3>1, CommandIs
      <4>2. x.cmd = "PRE" /\ x.bank = k.bank => x.at + tRP <= c.banks[k.bank].act
        BY <3>1 DEF Behind, BankBehind
      <4>3. QED BY <1>8, <2>1, <4>1, <4>2, Times
    <3>5. x.cmd = "REF" => \A b \in Banks : /\ x.end <= r.banks[b].act_ok
                                            /\ r.banks[b].open # Nothing => x.end <= r.banks[b].act
      BY <3>2 DEF BankBehind
    <3>6. x.cmd = "ACT" /\ x.bank = k.bank => x.at <= r.banks[k.bank].act
      BY <3>2 DEF BankBehind
    <3>7. QED BY <3>2, <3>3, <3>4, <3>5, <3>6 DEF ReadyBehind, x
  <2>4. QED BY <1>3, <1>6, <2>2, <2>3
<1>17. TurnsHold(r)
  <2>1. TurnsHold(c) /\ y.cmd # "COL"
    BY <1>1, <1>2 DEF ChannelInv
  <2>2. QED BY <1>2, <1>3, <1>5, <2>1, TurnsAppend
<1>18. QED BY <1>7, <1>11, <1>12, <1>13, <1>14, <1>15, <1>16, <1>17 DEF Ready

Activating(c, k, a) ==
  [c EXCEPT !.faw[k.bank[1]] = LastFour(@, a),
            !.last_act = a, !.last_act_at = <<k.bank[1], k.bank[2]>>,
            !.banks[k.bank] = [@ EXCEPT !.open = k.row, !.act = a],
            !.log = Append(@, [cmd |-> "ACT", at |-> a, bank |-> k.bank, row |-> k.row])]

\* A queue of times with one more.
LEMMA AppendIs ==
  ASSUME NEW s \in Seq(Int), NEW a \in Int
  PROVE  LET f == Append(s, a) IN
         /\ f \in Seq(Int) /\ Len(f) = Len(s) + 1 /\ f[Len(f)] = a /\ Len(s) \in Nat
         /\ \A i \in 1..Len(s) : f[i] = s[i]
OBVIOUS

\* The queue of ACTIVATEs with one more: the oldest of four goes.
LEMMA LastFourIs ==
  ASSUME NEW q \in Seq(Int), Len(q) <= 4, NEW a \in Int
  PROVE  LET f == LastFour(q, a) IN
         /\ f \in Seq(Int) /\ f[Len(f)] = a
         /\ Len(q) < 4 => Len(f) = Len(q) + 1 /\ \A i \in 1..Len(q) : f[i] = q[i]
         /\ Len(q) = 4 => Len(f) = 4 /\ \A i \in 1..3 : f[i] = q[i + 1]
<1> DEFINE f == LastFour(q, a)
<1>1. CASE Len(q) = 4
  <2>1. f = Append(Tail(q), a)
    BY <1>1 DEF LastFour
  <2>a. Len(q) # 0
    BY <1>1
  <2>2. q # <<>>
    BY <2>a
  <2>3. /\ Tail(q) \in Seq(Int) /\ Len(Tail(q)) = Len(q) - 1
        /\ \A i \in 1..Len(Tail(q)) : Tail(q)[i] = q[i + 1]
    BY <2>2, HeadTailProperties
  <2>4. PICK s \in Seq(Int) : s = Tail(q)
    BY <2>3
  <2>b. Len(s) = Len(q) - 1 /\ \A i \in 1..Len(s) : s[i] = q[i + 1]
    BY <2>3, <2>4
  <2>c. Len(s) = 3
    BY <1>1, <2>b
  <2>5. Len(s) = 3 /\ \A i \in 1..3 : s[i] = q[i + 1]
    BY <2>b, <2>c
  <2>6. f \in Seq(Int) /\ Len(f) = Len(s) + 1 /\ f[Len(f)] = a /\ \A i \in 1..Len(s) : f[i] = s[i]
    BY <2>1, <2>4, AppendIs
  <2> HIDE DEF f
  <2>7. QED BY <1>1, <2>5, <2>6 DEF f
<1>2. CASE Len(q) # 4
  <2>1. f = Append(q, a)
    BY <1>2 DEF LastFour
  <2>2. f \in Seq(Int) /\ Len(f) = Len(q) + 1 /\ f[Len(f)] = a /\ \A i \in 1..Len(q) : f[i] = q[i]
    BY <2>1, AppendIs
  <2> HIDE DEF f
  <2>3. QED BY <1>2, <2>2 DEF f
<1>3. QED BY <1>1, <1>2

\* What an ACTIVATE changes.
LEMMA ActivatingIs ==
  ASSUME NEW c \in ChannelT, NEW k \in BurstT, NEW a \in Int, Len(c.faw[0]) <= 4
  PROVE  LET d == Activating(c, k, a)
             y == [cmd |-> "ACT", at |-> a, bank |-> k.bank, row |-> k.row]
         IN  /\ d \in ChannelT /\ y \in Command /\ d.log = Append(c.log, y)
             /\ d.bus_free = c.bus_free /\ d.last_col = c.last_col
             /\ d.last_col_at = c.last_col_at /\ d.next_refresh = c.next_refresh
             /\ d.last_was_write = c.last_was_write /\ d.last_write_end = c.last_write_end
             /\ d.last_act = a /\ d.last_act_at = <<0, k.bank[2]>>
             /\ d.faw[0] = LastFour(c.faw[0], a) /\ d.order = c.order
             /\ d.banks[k.bank].open = k.row /\ d.banks[k.bank].act = a
             /\ d.banks[k.bank].act_ok = c.banks[k.bank].act_ok
             /\ d.banks[k.bank].pre_ok = c.banks[k.bank].pre_ok
             /\ \A b \in Banks : b # k.bank => d.banks[b] = c.banks[b]
<1> HIDE DEF Nothing
<1> DEFINE d == Activating(c, k, a)
           y == [cmd |-> "ACT", at |-> a, bank |-> k.bank, row |-> k.row]
           B == [c.banks EXCEPT ![k.bank] = [@ EXCEPT !.open = k.row, !.act = a]]
           F == [c.faw EXCEPT ![k.bank[1]] = LastFour(@, a)]
           L == Append(c.log, y)
           G == <<k.bank[1], k.bank[2]>>
<1>1. k.bank \in Banks /\ k.bank[1] = 0 /\ k.bank[2] \in Nat /\ k.row \in Nat
  BY BurstIs
<1>2. y \in Command
  BY <1>1 DEF Command
<1>3. L \in Seq(Command)
  BY <1>2, ChannelFields, Appended
<1>4. G \in Int \X Int /\ G = <<0, k.bank[2]>>
  BY <1>1
<1>5. F \in [Ranks -> Seq(Int)] /\ F[0] = LastFour(c.faw[0], a)
  <2>1. c.faw \in [Ranks -> Seq(Int)] /\ 0 \in Ranks /\ c.faw[0] \in Seq(Int)
    BY ChannelFields, BanksAre
  <2>2. LastFour(c.faw[0], a) \in Seq(Int)
    BY <2>1, LastFourIs
  <2>3. QED BY <1>1, <2>1, <2>2
<1>6. /\ B \in [Banks -> BankT]
      /\ B[k.bank].open = k.row /\ B[k.bank].act = a
      /\ B[k.bank].act_ok = c.banks[k.bank].act_ok
      /\ B[k.bank].pre_ok = c.banks[k.bank].pre_ok
      /\ \A b \in Banks : b # k.bank => B[b] = c.banks[b]
  <2>1. c.banks \in [Banks -> BankT] /\ c.banks[k.bank] \in BankT
    BY <1>1, ChannelFields
  <2> DEFINE z == [c.banks[k.bank] EXCEPT !.open = k.row, !.act = a]
  <2>2. /\ z \in BankT /\ z.open = k.row /\ z.act = a /\ z.act_ok = c.banks[k.bank].act_ok
        /\ z.pre_ok = c.banks[k.bank].pre_ok
    BY <1>1, <2>1 DEF BankT
  <2>3. B = [c.banks EXCEPT ![k.bank] = z]
    OBVIOUS
  <2> HIDE DEF z, B
  <2>4. B \in [Banks -> BankT] /\ B[k.bank] = z /\ \A b \in Banks : b # k.bank => B[b] = c.banks[b]
    BY <1>1, <2>1, <2>2, <2>3
  <2>5. QED BY <2>2, <2>4
<1>7. d = [c EXCEPT !.faw = F, !.last_act = a, !.last_act_at = G, !.banks = B, !.log = L]
  BY DEF Activating, ChannelT
<1> HIDE DEF d, B, F, L, G
<1>8. /\ d.log = L /\ d.banks = B /\ d.faw = F /\ d.last_act = a /\ d.last_act_at = G
      /\ d.bus_free = c.bus_free /\ d.last_col = c.last_col
      /\ d.last_col_at = c.last_col_at /\ d.next_refresh = c.next_refresh
      /\ d.last_was_write = c.last_was_write /\ d.last_write_end = c.last_write_end
      /\ d.order = c.order
  BY <1>7 DEF ChannelT
<1>9. d \in ChannelT
  BY <1>3, <1>4, <1>5, <1>6, <1>7 DEF ChannelT
<1>10. QED BY <1>2, <1>4, <1>5, <1>6, <1>8, <1>9 DEF L, d

\* The ACTIVATE at a keeps every constraint of the channel c.
MayActivate(c, k, a) ==
  /\ Ready(c, k, a)
  /\ c.banks[k.bank].act_ok <= a /\ c.banks[k.bank].act + tRC <= a
  /\ c.last_act_at[1] = 0 =>
       c.last_act + (IF c.last_act_at[2] = k.bank[2] THEN tRRD_L ELSE tRRD_S) <= a
  /\ Len(c.faw[0]) = 4 => c.faw[0][1] + tFAW <= a
  /\ tREFI > 0 => a < c.next_refresh

\* The number of members a set loses and gains.
LEMMA CardinalityGrows ==
  ASSUME NEW S, IsFiniteSet(S), NEW x, NEW T, T \subseteq S \cup {x}
  PROVE  IsFiniteSet(T) /\ Cardinality(T) \in Nat /\ Cardinality(T) <= Cardinality(S) + 1
<1>1. IsFiniteSet(S \cup {x}) /\ Cardinality(S \cup {x}) <= Cardinality(S) + 1
  <2>1. /\ IsFiniteSet(S \cup {x})
        /\ Cardinality(S \cup {x}) = IF x \in S THEN Cardinality(S) ELSE Cardinality(S) + 1
    BY FS_AddElement
  <2>2. Cardinality(S) \in Nat
    BY FS_CardinalityType
  <2>3. QED BY <2>1, <2>2
<1>2. IsFiniteSet(T) /\ Cardinality(T) <= Cardinality(S \cup {x})
  BY <1>1, FS_Subset
<1>3. Cardinality(T) \in Nat /\ Cardinality(S) \in Nat /\ Cardinality(S \cup {x}) \in Nat
  BY <1>1, <1>2, FS_CardinalityType
<1>4. QED BY <1>1, <1>2, <1>3

\* It keeps to every command before it, though only the last ACTIVATE is remembered: a
\* third one between two of other groups has kept tRRD_S to each.
LEMMA ActivateFits ==
  ASSUME NEW c, NEW k \in BurstT, NEW a \in Int, MayActivate(c, k, a),
         NEW i \in 1..Len(c.log), NEW y, y.cmd = "ACT", y.at = a, y.bank = k.bank
  PROVE  /\ Fits(c.log[i], y)
         /\ c.log[i].cmd = "ACT" => /\ c.log[i].at <= a
                                    /\ c.log[i].bank[2] # k.bank[2] => c.log[i].at + tRRD_S <= a
<1> DEFINE x == c.log[i]
           b == c.banks[k.bank]
<1>1. c \in ChannelT /\ ReadyBehind(c, k, a, x)
  BY DEF MayActivate, Ready
<1>2. x \in Command
  BY <1>1, ChannelFields
<1> HIDE DEF x
<1>3. /\ k.bank \in Banks /\ k.bank[1] = 0 /\ k.bank[2] \in Nat
      /\ b.act \in Int /\ b.act_ok \in Int /\ c.last_act \in Int
  <2> HIDE DEF Nothing
  <2>1. QED BY <1>1, BurstIs, ChannelFields
<1>4. b.act_ok <= a /\ b.act + tRC <= a
  BY DEF MayActivate
<1> HIDE DEF b
<1>5. /\ x.at \in Int /\ x.cmd \in {"REF", "PRE", "ACT", "COL"}
      /\ x.cmd = "REF" => x.end \in Int
      /\ x.cmd # "REF" => x.bank[1] = 0 /\ x.bank[2] \in Nat
  BY <1>2, CommandIs
<1>6. x.cmd = "ACT" =>
        /\ x.at <= a
        /\ x.bank[2] # k.bank[2] => x.at + tRRD_S <= a
        /\ x.bank[2] = k.bank[2] => x.at + tRRD_L <= a
  <2> SUFFICES ASSUME x.cmd = "ACT"
               PROVE  /\ x.at <= a
                      /\ x.bank[2] # k.bank[2] => x.at + tRRD_S <= a
                      /\ x.bank[2] = k.bank[2] => x.at + tRRD_L <= a
    OBVIOUS
  <2>1. /\ c.last_act_at[1] = 0 /\ x.at <= c.last_act
        /\ c.last_act_at[2] # x.bank[2] => x.at + tRRD_S <= c.last_act
    BY <1>1 DEF ReadyBehind, ActBehind
  <2>2. c.last_act + (IF c.last_act_at[2] = k.bank[2] THEN tRRD_L ELSE tRRD_S) <= a
    BY <2>1 DEF MayActivate
  <2>3. tRRD_S <= tRRD_L /\ tRRD_L <= 2 * tRRD_S
    BY LastIsEnough
  <2>4. CASE c.last_act_at[2] = k.bank[2]
    BY <1>3, <1>5, <2>1, <2>2, <2>3, <2>4, Times
  <2>5. CASE c.last_act_at[2] # k.bank[2]
    <3>1. c.last_act + tRRD_S <= a
      BY <2>2, <2>5
    <3>2. x.bank[2] = k.bank[2] => x.at + tRRD_S <= c.last_act
      BY <2>1, <2>5
    <3>3. QED BY <1>3, <1>5, <2>1, <3>1, <3>2, <2>3, Times
  <2>6. QED BY <2>4, <2>5
<1>7. ActivatesApart(x, y)
  <2> SUFFICES ASSUME x.cmd = "ACT"
               PROVE  /\ x.bank = k.bank => a - x.at >= tRC
                      /\ SameRank(x, y) => Spacing(x, y, tRRD_L, tRRD_S)
    BY DEF ActivatesApart, IsCmd
  <2>1. x.bank = k.bank => a - x.at >= tRC
    <3>1. x.bank = k.bank => x.at <= b.act
      BY <1>1 DEF ReadyBehind, b
    <3>2. QED BY <1>3, <1>4, <1>5, <3>1, Times
  <2>2. Spacing(x, y, tRRD_L, tRRD_S)
    <3>1. SameGroup(x, y) <=> x.bank[2] = k.bank[2]
      BY <1>3, <1>5 DEF SameGroup, SameRank
    <3>2. /\ x.bank[2] # k.bank[2] => a - x.at >= tRRD_S
          /\ x.bank[2] = k.bank[2] => a - x.at >= tRRD_L
      BY <1>5, <1>6, Times
    <3>3. QED BY <3>1, <3>2 DEF Spacing
  <2>3. QED BY <2>1, <2>2
<1>8. ClosedWithCare(x, y)
  <2>1. x.cmd = "PRE" /\ x.bank = k.bank => x.at + tRP <= a
    BY <1>1 DEF ReadyBehind
  <2>2. x.cmd = "PRE" /\ x.bank = k.bank => a >= x.at + tRP
    BY <1>5, <2>1, Times
  <2>3. QED BY <2>2 DEF ClosedWithCare, IsCmd
<1>9. RefreshAlone(x, y)
  <2>1. x.cmd = "REF" => x.end <= b.act_ok
    BY <1>1, <1>3 DEF ReadyBehind, b
  <2>2. x.cmd = "REF" => a >= x.end
    BY <1>3, <1>4, <1>5, <2>1
  <2>3. QED BY <2>2 DEF RefreshAlone, IsCmd
<1>10. BusShared(x, y)
  BY DEF BusShared, IsCmd
<1>11. QED BY <1>6, <1>7, <1>8, <1>9, <1>10 DEF Fits, x

\* Four or less, and not less.
LEMMA Four == \A x \in Nat : x <= 4 /\ ~(x < 4) => x = 4
OBVIOUS

\* It is not the fifth in tFAW, and the queue of four still bounds the history.
LEMMA ActivateFaw ==
  ASSUME NEW c, NEW k \in BurstT, NEW a \in Int, MayActivate(c, k, a),
         NEW y \in Command, y.cmd = "ACT", y.at = a, y.bank = k.bank,
         NEW d, d.log = Append(c.log, y), d.faw[0] = LastFour(c.faw[0], a)
  PROVE  FawHolds(d) /\ FawKept(d.log)
<1> DEFINE l == c.log
           m == d.log
           q == c.faw[0]
           f == d.faw[0]
           S == Acts(l, Len(l))
           T == Acts(m, Len(m))
<1>1. c \in ChannelT /\ FawHolds(c) /\ FawKept(l)
  BY DEF MayActivate, Ready
<1>2. l \in Seq(Command) /\ q \in Seq(Int)
  BY <1>1, ChannelFields
<1>3. /\ Len(m) = Len(l) + 1 /\ m[Len(l) + 1] = y /\ Len(l) \in Nat
      /\ \A i \in 1..Len(l) : m[i] = l[i] /\ l[i] \in Command
  BY <1>2, Appended
<1>4. T = S \cup {Len(l) + 1} /\ IsFiniteSet(S)
  <2>1. m = Append(l, y) /\ Len(l) \in 0..Len(l)
    BY <1>3
  <2> HIDE DEF l, m
  <2>2. QED BY <1>2, <2>1, ActsAppend
<1>5. /\ Len(q) <= 4
      /\ Len(q) < 4 => Cardinality(S) <= Len(q)
      /\ \A i \in 1..Len(q) : Cardinality({j \in S : l[j].at > q[i]}) <= Len(q) - i
  BY <1>1 DEF FawHolds
<1>6. /\ f \in Seq(Int) /\ f[Len(f)] = a
      /\ Len(q) < 4 => Len(f) = Len(q) + 1 /\ \A i \in 1..Len(q) : f[i] = q[i]
      /\ Len(q) = 4 => Len(f) = 4 /\ \A i \in 1..3 : f[i] = q[i + 1]
  <2>1. f = LastFour(q, a) /\ Len(q) <= 4
    BY <1>5
  <2> HIDE DEF f, q
  <2>2. QED BY <1>2, <2>1, LastFourIs
<1>7. \A j \in S : j \in 1..Len(l) /\ m[j] = l[j] /\ l[j].at \in Int /\ l[j].at <= a
  <2> TAKE j \in S
  <2>1. j \in 1..Len(l) /\ l[j].cmd = "ACT"
    BY <1>3 DEF Acts
  <2>2. l[j].at <= a
    BY <2>1, ActivateFits
  <2>3. QED BY <1>3, <2>1, <2>2, CommandIs
<1>8. (Len(q) = 4 => q[1] + tFAW <= a) /\ Len(q) \in Nat /\ \A i \in 1..Len(q) : q[i] \in Int
  <2>1. Len(q) = 4 => q[1] + tFAW <= a
    BY DEF MayActivate
  <2> HIDE DEF q
  <2>2. QED BY <1>2, <2>1, Elements
<1> DEFINE After(z) == {j \in S : l[j].at > z}
<1>9. \A z : IsFiniteSet(After(z)) /\ Cardinality(After(z)) \in Nat
  <2> TAKE z
  <2>1. IsFiniteSet(After(z))
    BY <1>4, FS_Subset
  <2>2. QED BY <2>1, FS_CardinalityType
<1> DEFINE Since(z) == {j \in T : m[j].at > z}
<1>10. \A z \in Int : Cardinality(Since(z)) \in Nat /\ Cardinality(Since(z)) <= Cardinality(After(z)) + 1
  <2> TAKE z \in Int
  <2>1. Since(z) \subseteq After(z) \cup {Len(l) + 1}
    BY <1>4, <1>7
  <2> HIDE DEF Since, After
  <2>2. QED BY <2>1, <1>9, CardinalityGrows
<1>11. Cardinality(Since(a)) = 0
  <2>1. Since(a) = {}
    BY <1>3, <1>4, <1>7
  <2>2. QED BY <2>1, FS_EmptySet
<1>12. Cardinality(T) \in Nat /\ Cardinality(T) <= Cardinality(S) + 1 /\ Cardinality(S) \in Nat
  <2> HIDE DEF T, S
  <2>1. QED BY <1>4, CardinalityGrows, FS_CardinalityType
<1>13. Len(q) = 4 => Cardinality({j \in S : a - l[j].at < tFAW}) < 4
  <2> SUFFICES ASSUME Len(q) = 4 PROVE Cardinality({j \in S : a - l[j].at < tFAW}) < 4
    OBVIOUS
  <2> DEFINE W == {j \in S : a - l[j].at < tFAW}
  <2>1. q[1] \in Int /\ q[1] + tFAW <= a /\ Cardinality(After(q[1])) <= 3
    BY <1>5, <1>8
  <2>2. W \subseteq After(q[1])
    <3> SUFFICES ASSUME NEW j \in S, a - l[j].at < tFAW PROVE l[j].at > q[1]
      OBVIOUS
    <3>1. l[j].at \in Int
      BY <1>7
    <3> HIDE DEF q, l
    <3>2. QED BY <2>1, <3>1, Times
  <2> HIDE DEF W, After, q
  <2>3. Cardinality(W) <= Cardinality(After(q[1])) /\ IsFiniteSet(W)
    BY <1>9, <2>2, FS_Subset
  <2>4. Cardinality(W) \in Nat
    BY <2>3, FS_CardinalityType
  <2>5. QED BY <1>9, <2>1, <2>3, <2>4 DEF W
<1>14. FawKept(m)
  <2>1. Cardinality(S) >= 4 => Cardinality({j \in S : a - l[j].at < tFAW}) < 4
    <3>1. Cardinality(S) >= 4 => Len(q) = 4
      <4>1. Len(q) <= 4 /\ (Len(q) < 4 => Cardinality(S) <= Len(q))
            /\ Len(q) \in Nat /\ Cardinality(S) \in Nat
        BY <1>5, <1>8, <1>12
      <4> HIDE DEF S, q
      <4>2. Cardinality(S) >= 4 => ~(Len(q) < 4)
        BY <4>1
      <4>3. QED BY <4>1, <4>2, Four
    <3>2. QED BY <1>13, <3>1
  <2>2. QED BY <1>1, <1>2, <2>1, FawKeptAppend
<1> HIDE DEF l, m, q, f, S, T, After, Since
<1>15. \A i \in 1..Len(f) : Cardinality(Since(f[i])) <= Len(f) - i
  <2> TAKE i \in 1..Len(f)
  <2>1. CASE i = Len(f)
    BY <2>1, <1>6, <1>11
  <2>2. CASE i # Len(f) /\ Len(q) < 4
    <3>1. i \in 1..Len(q) /\ f[i] = q[i] /\ q[i] \in Int /\ Len(f) = Len(q) + 1
      BY <1>6, <1>8, <2>2
    <3>2. Cardinality(After(q[i])) <= Len(q) - i
      BY <1>5, <3>1 DEF After
    <3>3. Cardinality(Since(q[i])) \in Nat /\ Cardinality(After(q[i])) \in Nat
          /\ Cardinality(Since(q[i])) <= Cardinality(After(q[i])) + 1
      BY <1>9, <1>10, <3>1
    <3>4. PICK N \in Nat, j \in Nat : N = Len(q) /\ j = i /\ Len(f) = N + 1
      BY <1>8, <3>1
    <3>5. Cardinality(Since(q[i])) <= N + 1 - j
      BY <3>2, <3>3, <3>4
    <3>6. QED BY <3>1, <3>4, <3>5
  <2>3. CASE i # Len(f) /\ ~(Len(q) < 4)
    <3>1. Len(q) = 4
      <4>1. Len(q) <= 4 /\ Len(q) \in Nat
        BY <1>5, <1>8
      <4>2. QED BY <4>1, <2>3, Four
    <3>2. Len(f) = 4 /\ \A j \in 1..3 : f[j] = q[j + 1]
      BY <1>6, <3>1
    <3>3. i \in 1..3
      BY <2>3, <3>2
    <3>4. i + 1 \in 1..Len(q) /\ f[i] = q[i + 1]
      BY <3>1, <3>2, <3>3
    <3>5. q[i + 1] \in Int /\ Cardinality(After(q[i + 1])) <= Len(q) - (i + 1)
      BY <1>5, <1>8, <3>4 DEF After
    <3>6. Cardinality(Since(q[i + 1])) \in Nat /\ Cardinality(After(q[i + 1])) \in Nat
          /\ Cardinality(Since(q[i + 1])) <= Cardinality(After(q[i + 1])) + 1
      BY <1>9, <1>10, <3>5
    <3>7. Cardinality(Since(q[i + 1])) <= 4 - i
      BY <3>1, <3>3, <3>5, <3>6
    <3>8. QED BY <3>2, <3>4, <3>7
  <2>4. QED BY <2>1, <2>2, <2>3
<1>16. Len(f) <= 4 /\ (Len(f) < 4 => Cardinality(T) <= Len(f))
  <2>1. CASE Len(q) < 4
    <3>1. Len(f) = Len(q) + 1 /\ Cardinality(S) <= Len(q) /\ Len(q) \in Nat
      BY <1>5, <1>6, <1>8, <2>1
    <3>2. QED BY <1>12, <2>1, <3>1
  <2>2. CASE ~(Len(q) < 4)
    <3>1. Len(q) <= 4 /\ Len(q) \in Nat
      BY <1>5, <1>8
    <3>2. Len(q) = 4
      BY <2>2, <3>1, Four
    <3>3. Len(f) = 4
      BY <1>6, <3>2
    <3>4. QED BY <3>3
  <2>3. QED BY <2>1, <2>2
<1>17. FawHolds(d)
  BY <1>15, <1>16 DEF FawHolds, Since, T, m, f
<1>18. QED BY <1>14, <1>17 DEF m

\* So an ACTIVATE keeps the invariant.
LEMMA ActivatingKeeps ==
  ASSUME NEW c, NEW k \in BurstT, NEW a \in Int, MayActivate(c, k, a)
  PROVE  Activating(c, k, a) \in Channels
<1> DEFINE d == Activating(c, k, a)
           y == [cmd |-> "ACT", at |-> a, bank |-> k.bank, row |-> k.row]
           l == c.log
<1>1. c \in ChannelT /\ Ready(c, k, a) /\ FawHolds(c) /\ Len(c.faw[0]) <= 4
  BY DEF MayActivate, Ready, FawHolds
<1>2. /\ d \in ChannelT /\ y \in Command /\ d.log = Append(c.log, y)
      /\ d.bus_free = c.bus_free /\ d.last_col = c.last_col
      /\ d.last_col_at = c.last_col_at /\ d.next_refresh = c.next_refresh
      /\ d.last_was_write = c.last_was_write /\ d.last_write_end = c.last_write_end
      /\ d.last_act = a /\ d.last_act_at = <<0, k.bank[2]>>
      /\ d.faw[0] = LastFour(c.faw[0], a)
      /\ d.banks[k.bank].open = k.row /\ d.banks[k.bank].act = a
      /\ d.banks[k.bank].act_ok = c.banks[k.bank].act_ok
      /\ d.banks[k.bank].pre_ok = c.banks[k.bank].pre_ok
      /\ \A b \in Banks : b # k.bank => d.banks[b] = c.banks[b]
  BY <1>1, ActivatingIs
<1>3. y.cmd = "ACT" /\ y.at = a /\ y.bank = k.bank /\ y.row = k.row
  OBVIOUS
<1> HIDE DEF d, y
<1>4. l \in Seq(Command) /\ Len(l) \in Nat /\ \A i \in 1..Len(l) : l[i] \in Command /\ ReadyBehind(c, k, a, l[i])
  BY <1>1, ChannelFields DEF Ready
<1>5. /\ Len(d.log) = Len(l) + 1 /\ d.log[Len(l) + 1] = y
      /\ \A i \in 1..Len(l) : d.log[i] = l[i]
  BY <1>2, <1>4, Appended
<1>6. /\ k.bank \in Banks /\ k.bank[2] \in Nat /\ k.row \in Nat
      /\ c.banks[k.bank].act \in Int /\ c.banks[k.bank].act_ok \in Int
      /\ c.banks[k.bank].pre_ok \in Int
  <2> HIDE DEF Nothing
  <2>1. QED BY <1>1, BurstIs
<1>7. c.banks[k.bank].act_ok <= a /\ c.banks[k.bank].act + tRC <= a
  BY DEF MayActivate
<1>8. /\ \A i \in 1..Len(l) : Fits(l[i], y)
      /\ \A i \in 1..Len(l) : l[i].cmd = "ACT" =>
           /\ l[i].at <= a
           /\ l[i].bank[2] # k.bank[2] => l[i].at + tRRD_S <= a
  BY <1>3, ActivateFits
<1>9. Paired(d.log)
  BY <1>1, <1>2, <1>4, <1>8, PairedAppend DEF Ready
<1>10. FawHolds(d) /\ FawKept(d.log)
  BY <1>2, <1>3, ActivateFaw
<1>11. Rest(d.banks[k.bank]) \in Int /\ a + tRAS <= Rest(d.banks[k.bank])
  <2>1. k.row # Nothing
    BY <1>6 DEF Nothing
  <2>2. QED BY <1>2, <1>6, <2>1, Times DEF Rest, Later
<1>12. \A i \in 1..Len(d.log) : Behind(d, d.log[i])
  <2>1. ASSUME NEW i \in 1..Len(l) PROVE Behind(d, l[i])
    <3> DEFINE x == l[i]
    <3>1. x \in Command /\ ReadyBehind(c, k, a, x)
      BY <1>4
    <3>2. x.cmd = "ACT" => /\ x.at <= a
                           /\ x.bank[2] # k.bank[2] => x.at + tRRD_S <= a
      BY <1>8
    <3> HIDE DEF x
    <3>3. ActBehind(d, x) /\ ColBehind(d, x)
      <4>1. ActBehind(d, x)
        BY <1>2, <3>2 DEF ActBehind
      <4>2. ColBehind(c, x)
        BY <3>1 DEF ReadyBehind
      <4>3. QED BY <1>2, <4>1, <4>2 DEF ColBehind
    <3>4. CASE x.cmd = "REF"
      <4>1. x.end \in Int /\ \A b \in Banks : /\ x.end <= c.banks[b].act_ok
                                              /\ c.banks[b].open # Nothing => x.end <= c.banks[b].act
        BY <3>1, <3>4, CommandIs DEF ReadyBehind
      <4>2. x.end <= a /\ x.end <= c.banks[k.bank].act_ok
        BY <1>6, <1>7, <4>1
      <4>3. \A b \in Banks : /\ x.end <= d.banks[b].act_ok
                             /\ d.banks[b].open # Nothing => x.end <= d.banks[b].act
        <5> TAKE b \in Banks
        <5>1. CASE b = k.bank
          BY <1>2, <4>2, <5>1
        <5>2. CASE b # k.bank
          BY <1>2, <4>1, <5>2
        <5>3. QED BY <5>1, <5>2
      <4>4. BankBehind(d, x)
        BY <3>4, <4>3 DEF BankBehind
      <4>5. QED BY <3>3, <4>4 DEF Behind, x
    <3>5. CASE x.cmd # "REF" /\ x.bank # k.bank
      <4>1. x.bank \in Banks /\ BankBehind(c, x)
        BY <3>1, <3>5, CommandIs DEF ReadyBehind
      <4>2. d.banks[x.bank] = c.banks[x.bank]
        BY <1>2, <3>5, <4>1
      <4>3. BankBehind(d, x)
        BY <3>5, <4>1, <4>2 DEF BankBehind
      <4>4. QED BY <3>3, <4>3 DEF Behind, x
    <3>6. CASE x.cmd # "REF" /\ x.bank = k.bank
      <4>1. Recovered(x, a)
        BY <3>1, <3>6 DEF ReadyBehind
      <4>2. a <= Rest(d.banks[k.bank])
        BY <1>11, Times
      <4>3. Recovered(x, Rest(d.banks[k.bank]))
        BY <1>11, <3>1, <4>1, <4>2, RecoveredLater
      <4>4. x.cmd = "PRE" => x.at + tRP <= a
        BY <3>1, <3>6 DEF ReadyBehind
      <4>5. BankBehind(d, x)
        BY <1>2, <3>2, <3>6, <4>3, <4>4 DEF BankBehind
      <4>6. QED BY <3>3, <4>5 DEF Behind, x
    <3>7. QED BY <3>4, <3>5, <3>6
  <2>2. Behind(d, y)
    <3>1. ActBehind(d, y) /\ ColBehind(d, y)
      BY <1>2, <1>3, <1>6 DEF ActBehind, ColBehind
    <3>2. Recovered(y, Rest(d.banks[k.bank]))
      BY <1>3, <1>11, Times DEF Recovered, IsCmd
    <3>3. BankBehind(d, y)
      BY <1>2, <1>3, <3>2 DEF BankBehind
    <3>4. QED BY <3>1, <3>3 DEF Behind
  <2>3. QED BY <1>4, <1>5, <2>1, <2>2
<1>13. OpenRows(d)
  <2> SUFFICES ASSUME NEW b \in Banks, d.banks[b].open # Nothing
               PROVE  \E i \in 1..Len(d.log) : /\ Opens(d.log, i, b, d.banks[b].open, Len(d.log) + 1)
                                               /\ d.log[i].at <= d.banks[b].act
    BY DEF OpenRows
  <2>1. CASE b = k.bank
    <3>1. Opens(d.log, Len(l) + 1, b, k.row, Len(d.log) + 1)
      BY <1>3, <1>4, <1>5, <2>1 DEF Opens
    <3>2. Len(l) + 1 \in 1..Len(d.log) /\ d.log[Len(l) + 1].at <= d.banks[b].act
      BY <1>2, <1>3, <1>4, <1>5, <2>1
    <3>3. QED BY <1>2, <2>1, <3>1, <3>2
  <2>2. CASE b # k.bank
    <3>1. d.banks[b] = c.banks[b] /\ OpenRow(c, b)
      BY <1>1, <1>2, <2>2 DEF Ready
    <3>2. PICK i \in 1..Len(l) : /\ Opens(l, i, b, c.banks[b].open, Len(l) + 1)
                                 /\ l[i].at <= c.banks[b].act
      BY <3>1 DEF OpenRow
    <3>3. Opens(d.log, i, b, c.banks[b].open, Len(d.log) + 1)
      <4>1. y.cmd # "REF" /\ y.cmd # "PRE"
        BY <1>3
      <4>2. QED BY <1>2, <1>4, <3>2, <4>1, OpensAppend
    <3>4. i \in 1..Len(d.log) /\ d.log[i] = l[i]
      BY <1>4, <1>5
    <3>5. QED BY <3>1, <3>2, <3>3, <3>4
  <2>3. QED BY <2>1, <2>2
<1>14. RowsInOrder(d)
  <2> SUFFICES ASSUME NEW j \in 1..Len(d.log), d.log[j].cmd = "COL"
               PROVE  Columned(d.log, j) /\ (tREFI > 0 => d.log[j].at < d.next_refresh)
    BY DEF RowsInOrder
  <2>1. j \in 1..Len(l) /\ d.log[j] = l[j]
    BY <1>3, <1>4, <1>5
  <2>2. Columned(l, j) /\ (tREFI > 0 => l[j].at < c.next_refresh)
    BY <1>1, <2>1 DEF Ready, RowsInOrder
  <2>3. QED BY <1>2, <1>4, <2>1, <2>2, ColumnedAppend
<1>15. InReach(d)
  <2> SUFFICES ASSUME tREFI > 0
               PROVE  /\ c.bus_free <= c.next_refresh + Far
                      /\ \A b \in Banks : /\ d.banks[b].act_ok <= c.next_refresh + Far
                                          /\ d.banks[b].act + tRAS <= c.next_refresh + Far
                                          /\ d.banks[b].pre_ok <= c.next_refresh + Far
    BY <1>2 DEF InReach
  <2>1. /\ c.bus_free <= c.next_refresh + Far
        /\ \A b \in Banks : /\ c.banks[b].act_ok <= c.next_refresh + Far
                            /\ c.banks[b].act + tRAS <= c.next_refresh + Far
                            /\ c.banks[b].pre_ok <= c.next_refresh + Far
    BY <1>1 DEF Ready, InReach
  <2>2. a + tRAS <= c.next_refresh + Far
    <3>1. a < c.next_refresh /\ c.next_refresh \in Int
      BY <1>1, ChannelFields DEF MayActivate
    <3>2. tRAS <= Far /\ Far \in Nat
      BY Times DEF Far
    <3>3. QED BY <3>1, <3>2, Times
  <2>3. ASSUME NEW b \in Banks
        PROVE  /\ d.banks[b].act_ok <= c.next_refresh + Far
               /\ d.banks[b].act + tRAS <= c.next_refresh + Far
               /\ d.banks[b].pre_ok <= c.next_refresh + Far
    <3>1. CASE b = k.bank
      BY <1>2, <2>1, <2>2, <3>1
    <3>2. CASE b # k.bank
      BY <1>2, <2>1, <3>2
    <3>3. QED BY <3>1, <3>2
  <2>4. QED BY <2>1, <2>3
<1>16. TurnsHold(d)
  <2>1. TurnsHold(c) /\ y.cmd # "COL"
    BY <1>1, <1>3 DEF Ready
  <2>2. QED BY <1>2, <1>4, <2>1, TurnsAppend
<1>17. QED BY <1>2, <1>9, <1>10, <1>12, <1>13, <1>14, <1>15, <1>16 DEF Channels, ChannelInv, d

Columning(c, pl, k, w, due) ==
  [c EXCEPT
     !.bus_free = pl.end, !.last_col = pl.col,
     !.last_col_at = <<k.bank[1], k.bank[2]>>, !.last_was_write = w,
     !.last_write_end = IF w THEN pl.end ELSE @,
     !.order = IF pl.first <= pl.col THEN pl.first ELSE pl.col,
     !.banks[k.bank].pre_ok = Later(@, Recovery(pl, w)),
     !.log = Append(@, [cmd |-> "COL", at |-> pl.col, bank |-> k.bank, row |-> k.row,
                        col |-> k.col, w |-> w, end |-> pl.end, due |-> due])]

\* The column command of pl keeps every constraint of the channel c.
MayColumn(c, pl, k, w, due) ==
  /\ c \in Channels /\ c.banks[k.bank].open = k.row /\ due \in Int
  /\ pl.col \in Int /\ pl.first \in Int /\ pl.end = pl.col + (IF w THEN tWL ELSE tRL) + burst
  /\ c.banks[k.bank].act + tRCD <= pl.col
  /\ LET same == c.last_col_at[1] = 0 /\ c.last_col_at[2] = k.bank[2] IN
     /\ c.last_col + (IF same THEN tCCD_L ELSE tCCD_S) <= pl.col
     /\ c.bus_free <= pl.col + (IF w THEN tWL ELSE tRL)
     /\ ~w /\ c.last_was_write => c.last_write_end + (IF same THEN tWTR_L ELSE tWTR_S) <= pl.col
     /\ w /\ ~c.last_was_write =>
          c.last_col + (IF same /\ tRTW_L # 0 THEN tRTW_L ELSE tRTW) <= pl.col
  /\ tREFI > 0 => pl.col < c.next_refresh

\* What a column command changes.
LEMMA ColumningIs ==
  ASSUME NEW c \in ChannelT, NEW k \in BurstT, NEW w \in BOOLEAN, NEW due \in Int,
         NEW pl, pl.col \in Int, pl.end \in Int, pl.first \in Int
  PROVE  LET d == Columning(c, pl, k, w, due)
             y == [cmd |-> "COL", at |-> pl.col, bank |-> k.bank, row |-> k.row,
                   col |-> k.col, w |-> w, end |-> pl.end, due |-> due]
         IN  /\ d \in ChannelT /\ y \in Command /\ d.log = Append(c.log, y)
             /\ d.bus_free = pl.end /\ d.last_col = pl.col /\ d.last_col_at = <<0, k.bank[2]>>
             /\ d.last_was_write = w
             /\ d.last_write_end = (IF w THEN pl.end ELSE c.last_write_end)
             /\ d.next_refresh = c.next_refresh
             /\ d.last_act = c.last_act /\ d.last_act_at = c.last_act_at /\ d.faw = c.faw
             /\ d.banks[k.bank].open = c.banks[k.bank].open
             /\ d.banks[k.bank].act = c.banks[k.bank].act
             /\ d.banks[k.bank].act_ok = c.banks[k.bank].act_ok
             /\ d.banks[k.bank].pre_ok = Later(c.banks[k.bank].pre_ok, Recovery(pl, w))
             /\ \A b \in Banks : b # k.bank => d.banks[b] = c.banks[b]
             /\ Recovery(pl, w) \in Int
<1> HIDE DEF Nothing
<1> DEFINE d == Columning(c, pl, k, w, due)
           y == [cmd |-> "COL", at |-> pl.col, bank |-> k.bank, row |-> k.row,
                 col |-> k.col, w |-> w, end |-> pl.end, due |-> due]
           r == Recovery(pl, w)
           B == [c.banks EXCEPT ![k.bank].pre_ok = Later(@, r)]
           L == Append(c.log, y)
           G == <<k.bank[1], k.bank[2]>>
           E == IF w THEN pl.end ELSE c.last_write_end
           o == IF pl.first <= pl.col THEN pl.first ELSE pl.col
<1>1. k.bank \in Banks /\ k.bank[1] = 0 /\ k.bank[2] \in Nat /\ k.row \in Nat /\ k.col \in Nat
  BY BurstIs
<1>2. y \in Command
  BY <1>1 DEF Command
<1>3. L \in Seq(Command)
  BY <1>2, ChannelFields, Appended
<1>4. G \in Int \X Int /\ G = <<0, k.bank[2]>>
  BY <1>1
<1>5. E \in Int /\ o \in Int
  BY ChannelFields
<1>6. r \in Int
  BY Times DEF Recovery
<1> HIDE DEF r
<1>7. /\ B \in [Banks -> BankT]
      /\ B[k.bank].open = c.banks[k.bank].open /\ B[k.bank].act = c.banks[k.bank].act
      /\ B[k.bank].act_ok = c.banks[k.bank].act_ok
      /\ B[k.bank].pre_ok = Later(c.banks[k.bank].pre_ok, r)
      /\ \A b \in Banks : b # k.bank => B[b] = c.banks[b]
  <2>1. c.banks \in [Banks -> BankT] /\ c.banks[k.bank] \in BankT
    BY <1>1, ChannelFields
  <2> DEFINE v == Later(c.banks[k.bank].pre_ok, r)
             z == [c.banks[k.bank] EXCEPT !.pre_ok = v]
  <2>2. v \in Int
    BY <1>6, BurstIs DEF Later
  <2>3. B = [c.banks EXCEPT ![k.bank] = z]
    OBVIOUS
  <2> HIDE DEF v
  <2>4. /\ z \in BankT /\ z.open = c.banks[k.bank].open /\ z.act = c.banks[k.bank].act
        /\ z.act_ok = c.banks[k.bank].act_ok /\ z.pre_ok = v
    BY <2>1, <2>2 DEF BankT
  <2> HIDE DEF z, B
  <2>5. B \in [Banks -> BankT] /\ B[k.bank] = z /\ \A b \in Banks : b # k.bank => B[b] = c.banks[b]
    BY <1>1, <2>1, <2>3, <2>4
  <2>6. QED BY <2>4, <2>5 DEF v
<1>8. d = [c EXCEPT !.bus_free = pl.end, !.last_col = pl.col, !.last_col_at = G,
             !.last_was_write = w, !.last_write_end = E, !.order = o, !.banks = B, !.log = L]
  BY DEF Columning, ChannelT, r
<1> HIDE DEF d, B, L, G, E, o
<1>9. /\ d.log = L /\ d.banks = B /\ d.bus_free = pl.end /\ d.last_col = pl.col
      /\ d.last_col_at = G /\ d.last_was_write = w /\ d.last_write_end = E
      /\ d.next_refresh = c.next_refresh
      /\ d.last_act = c.last_act /\ d.last_act_at = c.last_act_at /\ d.faw = c.faw
  BY <1>8 DEF ChannelT
<1>10. d \in ChannelT
  BY <1>3, <1>4, <1>5, <1>7, <1>8 DEF ChannelT
<1>11. QED BY <1>2, <1>4, <1>6, <1>7, <1>9, <1>10 DEF L, d, E, r

\* What a column command keeps to the column commands before it.
LEMMA ColumnFits ==
  ASSUME NEW c, NEW pl, NEW k \in BurstT, NEW w \in BOOLEAN, NEW due, MayColumn(c, pl, k, w, due),
         NEW i \in 1..Len(c.log), NEW y, y.cmd = "COL", y.at = pl.col, y.bank = k.bank, y.w = w
  PROVE  /\ Fits(c.log[i], y)
         /\ LET x == c.log[i] IN x.cmd = "COL" =>
              /\ x.end <= pl.end /\ x.end <= pl.col + (IF w THEN tWL ELSE tRL) /\ x.at <= pl.col
              /\ x.bank[2] # k.bank[2] => x.at + tCCD_S <= pl.col
              /\ x.w /\ ~w => x.end + tWTR_S <= pl.col
              /\ ~x.w /\ w => x.at + tRTW <= pl.col
              /\ ~x.w /\ w /\ x.bank[2] = k.bank[2] => x.at + Later(tRTW, tRTW_L) <= pl.col
<1> DEFINE x == c.log[i]
           lat == IF w THEN tWL ELSE tRL
           col == pl.col
<1>1. c \in ChannelT /\ ChannelInv(c) /\ Behind(c, x)
  BY DEF MayColumn, Channels, ChannelInv
<1>2. x \in Command
  BY <1>1, ChannelFields
<1>3. /\ k.bank \in Banks /\ k.bank[1] = 0 /\ k.bank[2] \in Nat /\ k.row \in Nat
      /\ c.banks[k.bank].act \in Int
      /\ c.last_col \in Int /\ c.bus_free \in Int /\ c.last_write_end \in Int
  <2> HIDE DEF Nothing
  <2>1. QED BY <1>1, BurstIs, ChannelFields
<1> HIDE DEF x
<1>4. /\ x.at \in Int /\ x.cmd \in {"REF", "PRE", "ACT", "COL"}
      /\ x.cmd = "REF" => x.end \in Int
      /\ x.cmd = "COL" => x.end \in Int /\ x.w \in BOOLEAN
      /\ x.cmd # "REF" => x.bank[1] = 0 /\ x.bank[2] \in Nat
  BY <1>2, CommandIs
<1>5. col \in Int /\ lat \in Nat /\ pl.end = col + lat + burst
  BY Times DEF MayColumn
<1>6. x.cmd = "COL" =>
        /\ x.end <= pl.end /\ x.end <= col + lat /\ x.at <= col
        /\ x.bank[2] # k.bank[2] => x.at + tCCD_S <= col
        /\ x.bank[2] = k.bank[2] => x.at + tCCD_L <= col
        /\ x.w /\ ~w => x.end + tWTR_S <= col
        /\ ~x.w /\ w => x.at + tRTW <= col
        /\ ~x.w /\ w /\ x.bank[2] = k.bank[2] => x.at + Later(tRTW, tRTW_L) <= col
  <2> SUFFICES ASSUME x.cmd = "COL"
               PROVE  /\ x.end <= pl.end /\ x.end <= col + lat /\ x.at <= col
                      /\ x.bank[2] # k.bank[2] => x.at + tCCD_S <= col
                      /\ x.bank[2] = k.bank[2] => x.at + tCCD_L <= col
                      /\ x.w /\ ~w => x.end + tWTR_S <= col
                      /\ ~x.w /\ w => x.at + tRTW <= col
                      /\ ~x.w /\ w /\ x.bank[2] = k.bank[2] => x.at + Later(tRTW, tRTW_L) <= col
    OBVIOUS
  <2> DEFINE same == c.last_col_at[2] = k.bank[2]
  <2>1. /\ x.end <= c.bus_free /\ c.last_col_at[1] = 0 /\ x.at <= c.last_col
        /\ c.last_col_at[2] # x.bank[2] => x.at + tCCD_S <= c.last_col
        /\ x.w => x.end <= c.last_write_end
        /\ x.w /\ ~c.last_was_write => x.end + tWTR_S <= c.last_col
        /\ ~x.w /\ c.last_was_write => /\ x.at + tRTW <= c.last_col
                                       /\ c.last_col_at[2] = x.bank[2] =>
                                            x.at + Later(tRTW, tRTW_L) <= c.last_col
    BY <1>1 DEF Behind, ColBehind
  <2>2. /\ c.last_col + (IF same THEN tCCD_L ELSE tCCD_S) <= col
        /\ c.bus_free <= col + lat
        /\ ~w /\ c.last_was_write => c.last_write_end + (IF same THEN tWTR_L ELSE tWTR_S) <= col
        /\ w /\ ~c.last_was_write =>
             c.last_col + (IF same /\ tRTW_L # 0 THEN tRTW_L ELSE tRTW) <= col
    BY <2>1 DEF MayColumn
  <2>3. /\ tCCD_S <= tCCD_L /\ tCCD_L <= 2 * tCCD_S /\ tWTR_S <= tWTR_L
        /\ tRTW_L = 0 \/ (tRTW <= tRTW_L /\ tRTW_L <= tRTW + tCCD_S)
    BY LastIsEnough
  <2> HIDE DEF col, lat
  <2>4. c.last_col + tCCD_S <= col /\ (same => c.last_col + tCCD_L <= col)
    <3>1. CASE same
      BY <1>3, <1>5, <2>2, <2>3, <3>1, Times
    <3>2. CASE ~same
      BY <1>3, <1>5, <2>2, <3>2, Times
    <3>3. QED BY <3>1, <3>2
  <2>5. /\ x.end <= pl.end /\ x.end <= col + lat /\ x.at <= col
        /\ x.bank[2] # k.bank[2] => x.at + tCCD_S <= col
    <3>a. x.at + tCCD_S <= col /\ x.at <= col
      <4>1. x.at <= c.last_col /\ c.last_col + tCCD_S <= col /\ x.at \in Int /\ col \in Int
            /\ c.last_col \in Int /\ tCCD_S \in Nat
        BY <1>3, <1>4, <1>5, <2>1, <2>4, Times
      <4>2. QED BY <4>1
    <3>b. x.end <= c.bus_free /\ c.bus_free <= col + lat
      BY <2>1, <2>2
    <3>c. x.end <= col + lat
      BY <1>3, <1>4, <1>5, <3>b
    <3>1. x.end <= col + lat /\ x.at <= col /\ x.at + tCCD_S <= col
      BY <3>a, <3>c
    <3>2. x.end <= pl.end
      BY <1>4, <1>5, <3>1, Times
    <3>3. QED BY <3>1, <3>2
  <2>6. x.bank[2] = k.bank[2] => x.at + tCCD_L <= col
    <3>1. CASE same
      BY <1>3, <1>4, <1>5, <2>1, <2>4, <3>1, Times
    <3>2. CASE ~same
      <4>1. x.bank[2] = k.bank[2] => x.at + tCCD_S <= c.last_col
        BY <2>1, <3>2
      <4>2. QED BY <1>3, <1>4, <1>5, <2>3, <2>4, <4>1, Times
    <3>3. QED BY <3>1, <3>2
  <2>7. x.w /\ ~w => x.end + tWTR_S <= col
    <3>1. CASE c.last_was_write
      BY <1>3, <1>4, <1>5, <2>1, <2>2, <2>3, <3>1, Times
    <3>2. CASE ~c.last_was_write
      BY <1>3, <1>4, <1>5, <2>1, <2>4, <3>2, Times
    <3>3. QED BY <3>1, <3>2
  <2>8. ~x.w /\ w => x.at + tRTW <= col
    <3>1. CASE c.last_was_write
      BY <1>3, <1>4, <1>5, <2>1, <2>4, <3>1, Times
    <3>2. CASE ~c.last_was_write
      BY <1>3, <1>4, <1>5, <2>1, <2>2, <2>3, <3>2, Times
    <3>3. QED BY <3>1, <3>2
  <2>9. ~x.w /\ w /\ x.bank[2] = k.bank[2] => x.at + Later(tRTW, tRTW_L) <= col
    <3> SUFFICES ASSUME ~x.w, w, x.bank[2] = k.bank[2] PROVE x.at + Later(tRTW, tRTW_L) <= col
      OBVIOUS
    <3> DEFINE L == Later(tRTW, tRTW_L)
    <3>1. L \in Nat /\ L <= tRTW + tCCD_S /\ (tRTW_L # 0 => L = tRTW_L) /\ (tRTW_L = 0 => L = tRTW)
      BY <2>3, Times DEF Later
    <3> HIDE DEF L
    <3>2. CASE same /\ c.last_was_write
      <4>1. x.at + L <= c.last_col
        BY <2>1, <3>2 DEF L
      <4>2. c.last_col + tCCD_S <= col
        BY <2>4
      <4>3. /\ x.at \in Int /\ col \in Int /\ c.last_col \in Int
            /\ tCCD_S \in Nat /\ L \in Int
        BY <1>3, <1>4, <1>5, <3>1, Times
      <4>4. QED BY <4>1, <4>2, <4>3 DEF L
    <3>3. CASE same /\ ~c.last_was_write
      <4>1. c.last_col + L <= col
        BY <2>2, <3>1, <3>3
      <4>2. x.at <= c.last_col
        BY <2>1
      <4>3. x.at \in Int /\ col \in Int /\ c.last_col \in Int /\ L \in Int
        BY <1>3, <1>4, <1>5, <3>1
      <4>4. QED BY <4>1, <4>2, <4>3 DEF L
    <3>4. CASE ~same /\ c.last_was_write
      <4>1. x.at + tRTW <= c.last_col
        BY <2>1, <3>4
      <4>2. QED BY <1>3, <1>4, <1>5, <2>4, <3>1, <4>1, Times DEF L
    <3>5. CASE ~same /\ ~c.last_was_write
      <4>1. x.at + tCCD_S <= c.last_col /\ c.last_col + tRTW <= col
        BY <2>1, <2>2, <3>5
      <4>2. QED BY <1>3, <1>4, <1>5, <3>1, <4>1, Times DEF L
    <3>6. QED BY <3>2, <3>3, <3>4, <3>5
  <2>10. QED BY <2>5, <2>6, <2>7, <2>8, <2>9
<1>7. BusShared(x, y)
  <2> SUFFICES ASSUME x.cmd = "COL"
               PROVE  /\ DataStart(y) >= x.end
                      /\ Spacing(x, y, tCCD_L, tCCD_S)
                      /\ ~x.w /\ w => Spacing(x, y, Later(tRTW, tRTW_L), tRTW)
                      /\ x.w /\ ~w => col >= x.end + tWTR_S
    BY DEF BusShared, WriteThenRead, IsCmd
  <2>1. DataStart(y) >= x.end
    BY <1>4, <1>5, <1>6 DEF DataStart
  <2>2. x.w /\ ~w => col >= x.end + tWTR_S
    BY <1>4, <1>5, <1>6, Times
  <2>3. (SameGroup(x, y) <=> x.bank[2] = k.bank[2]) /\ y.at = col
    BY <1>3, <1>4 DEF SameGroup, SameRank
  <2>4. Later(tRTW, tRTW_L) \in Int
    BY Times DEF Later
  <2> HIDE DEF col
  <2>5. Spacing(x, y, tCCD_L, tCCD_S)
    BY <1>4, <1>5, <1>6, <2>3, Times DEF Spacing
  <2>6. ~x.w /\ w => Spacing(x, y, Later(tRTW, tRTW_L), tRTW)
    BY <1>4, <1>5, <1>6, <2>3, <2>4, Times DEF Spacing
  <2>7. QED BY <2>1, <2>2, <2>5, <2>6
<1>8. RefreshAlone(x, y)
  <2>1. c.banks[k.bank].open # Nothing /\ c.banks[k.bank].act + tRCD <= col
    BY <1>3 DEF MayColumn, Nothing
  <2>2. x.cmd = "REF" => x.end <= c.banks[k.bank].act
    BY <1>1, <1>3, <2>1 DEF Behind, BankBehind
  <2>3. x.cmd = "REF" => col >= x.end
    <3> HIDE DEF Nothing, col
    <3>1. col \in Int /\ c.banks[k.bank].act \in Int /\ tRCD \in Nat
      BY <1>3, <1>5, Times
    <3>2. x.cmd = "REF" => x.end \in Int
      BY <1>4
    <3>3. QED BY <2>1, <2>2, <3>1, <3>2
  <2>4. QED BY <2>3 DEF RefreshAlone, IsCmd
<1>9. ActivatesApart(x, y) /\ ClosedWithCare(x, y)
  BY DEF ActivatesApart, ClosedWithCare, IsCmd
<1>10. QED BY <1>6, <1>7, <1>8, <1>9 DEF Fits, x

\* A read keeps the long turnaround to the writes that still bind its group, and a
\* write or a read of a group leaves no write of another one binding.
LEMMA ColumnTurns ==
  ASSUME NEW c, NEW pl, NEW k \in BurstT, NEW w \in BOOLEAN, NEW due, MayColumn(c, pl, k, w, due),
         NEW y \in Command, y.cmd = "COL", y.at = pl.col, y.bank = k.bank, y.w = w,
         NEW d, d.log = Append(c.log, y), d.last_col = pl.col, d.last_col_at = <<0, k.bank[2]>>,
         d.last_was_write = w
  PROVE  TurnsHold(d)
<1> DEFINE l == c.log
           m == Append(l, y)
<1>1. c \in ChannelT /\ ChannelInv(c) /\ TurnsHold(c) /\ pl.col \in Int
  BY DEF MayColumn, Channels, ChannelInv
<1>2. /\ c.last_col \in Int /\ c.last_write_end \in Int /\ c.last_was_write \in BOOLEAN
      /\ l \in Seq(Command) /\ Len(l) \in Nat
      /\ \A i \in 1..Len(l) : l[i] \in Command /\ ColBehind(c, l[i])
  BY <1>1, ChannelFields DEF ChannelInv, Behind
<1>3. ASSUME NEW i \in 1..Len(l), GroupWrite(l, i, Len(l) + 1), ~w, k.bank[2] = l[i].bank[2]
      PROVE  l[i].end + tWTR_L <= pl.col
  <2>1. /\ l[i].cmd = "COL" /\ l[i].w /\ l[i].end \in Int
        /\ l[i].end <= c.last_write_end /\ c.last_col_at[1] = 0
    BY <1>2, <1>3, CommandIs DEF GroupWrite, ColBehind
  <2>2. /\ c.last_col_at[2] = k.bank[2]
        /\ ~c.last_was_write => l[i].end + tWTR_L <= c.last_col
    BY <1>1, <1>3 DEF TurnsHold, TurnsBehind
  <2>3. /\ c.last_col + tCCD_L <= pl.col
        /\ c.last_was_write => c.last_write_end + tWTR_L <= pl.col
    BY <1>3, <2>1, <2>2 DEF MayColumn
  <2> DEFINE e == l[i].end
  <2>4. e \in Int /\ tWTR_L \in Nat /\ tCCD_L \in Nat /\ pl.col \in Int
        /\ c.last_col \in Int /\ c.last_write_end \in Int
    BY <1>1, <1>2, <2>1, Times
  <2>5. CASE c.last_was_write
    <3>1. e <= c.last_write_end /\ c.last_write_end + tWTR_L <= pl.col
      BY <2>1, <2>3, <2>5
    <3> HIDE DEF e
    <3>2. e + tWTR_L <= pl.col
      BY <2>4, <3>1
    <3>3. QED BY <3>2 DEF e
  <2>6. CASE ~c.last_was_write
    <3>1. e + tWTR_L <= c.last_col /\ c.last_col + tCCD_L <= pl.col
      BY <2>2, <2>3, <2>6
    <3> HIDE DEF e
    <3>2. e + tWTR_L <= pl.col
      BY <2>4, <3>1
    <3>3. QED BY <3>2 DEF e
  <2>7. QED BY <2>5, <2>6
<1>4. TurnsKept(m)
  BY <1>1, <1>2, <1>3, TurnsKeptAppend DEF TurnsHold
<1>5. /\ Len(m) = Len(l) + 1 /\ m[Len(l) + 1] = y
      /\ \A i \in 1..Len(l) : m[i] = l[i]
  BY <1>2, Appended
<1>6. \A i \in 1..Len(l) : GroupWrite(m, i, Len(m) + 1) =>
        GroupWrite(l, i, Len(l) + 1) /\ (y.cmd = "COL" => y.bank[2] = l[i].bank[2])
  BY <1>2, GroupWriteAppend
<1> HIDE DEF m
<1>7. ASSUME NEW i \in 1..Len(m), GroupWrite(m, i, Len(m) + 1)
      PROVE  /\ k.bank[2] = m[i].bank[2]
             /\ ~w => m[i].end + tWTR_L <= pl.col
  <2>1. CASE i = Len(l) + 1
    BY <1>5, <1>7, <2>1 DEF GroupWrite
  <2>2. CASE i \in 1..Len(l)
    <3>1. GroupWrite(l, i, Len(l) + 1) /\ k.bank[2] = l[i].bank[2] /\ m[i] = l[i]
      BY <1>5, <1>6, <1>7, <2>2
    <3>2. QED BY <1>3, <2>2, <3>1
  <2>3. QED BY <1>2, <1>5, <2>1, <2>2
<1>8. d.last_col_at[2] = k.bank[2]
  OBVIOUS
<1>9. QED BY <1>4, <1>7, <1>8 DEF TurnsHold, TurnsBehind, m

\* So a column command keeps the invariant.
LEMMA ColumningKeeps ==
  ASSUME NEW c, NEW pl, NEW k \in BurstT, NEW w \in BOOLEAN, NEW due, MayColumn(c, pl, k, w, due)
  PROVE  Columning(c, pl, k, w, due) \in Channels
<1> DEFINE d == Columning(c, pl, k, w, due)
           y == [cmd |-> "COL", at |-> pl.col, bank |-> k.bank, row |-> k.row,
                 col |-> k.col, w |-> w, end |-> pl.end, due |-> due]
           l == c.log
           b0 == c.banks[k.bank]
           r == Recovery(pl, w)
           lat == IF w THEN tWL ELSE tRL
<1>1. c \in ChannelT /\ ChannelInv(c)
  BY DEF MayColumn, Channels
<1>2. /\ pl.col \in Int /\ pl.first \in Int /\ due \in Int /\ pl.end = pl.col + lat + burst
      /\ b0.open = k.row /\ b0.act + tRCD <= pl.col
      /\ tREFI > 0 => pl.col < c.next_refresh
  BY DEF MayColumn
<1>3. pl.end \in Int /\ lat \in Nat /\ lat <= tRL + tWL
  BY <1>2, Times
<1>4. /\ d \in ChannelT /\ y \in Command /\ d.log = Append(c.log, y)
      /\ d.bus_free = pl.end /\ d.last_col = pl.col /\ d.last_col_at = <<0, k.bank[2]>>
      /\ d.last_was_write = w
      /\ d.last_write_end = (IF w THEN pl.end ELSE c.last_write_end)
      /\ d.next_refresh = c.next_refresh
      /\ d.last_act = c.last_act /\ d.last_act_at = c.last_act_at /\ d.faw = c.faw
      /\ d.banks[k.bank].open = b0.open
      /\ d.banks[k.bank].act = b0.act
      /\ d.banks[k.bank].act_ok = b0.act_ok
      /\ d.banks[k.bank].pre_ok = Later(b0.pre_ok, r)
      /\ \A b \in Banks : b # k.bank => d.banks[b] = c.banks[b]
      /\ r \in Int
  BY <1>1, <1>2, <1>3, ColumningIs
<1>5. /\ y.cmd = "COL" /\ y.at = pl.col /\ y.bank = k.bank /\ y.row = k.row /\ y.w = w
      /\ y.end = pl.end
  OBVIOUS
<1> HIDE DEF d, y
<1>6. l \in Seq(Command) /\ Len(l) \in Nat /\ \A i \in 1..Len(l) : l[i] \in Command /\ Behind(c, l[i])
  BY <1>1, ChannelFields DEF ChannelInv
<1>7. /\ Len(d.log) = Len(l) + 1 /\ d.log[Len(l) + 1] = y
      /\ \A i \in 1..Len(l) : d.log[i] = l[i]
  BY <1>4, <1>6, Appended
<1>8. /\ k.bank \in Banks /\ k.bank[2] \in Nat /\ k.row \in Nat
      /\ b0.act \in Int /\ b0.act_ok \in Int /\ b0.pre_ok \in Int
  <2> HIDE DEF Nothing
  <2>1. QED BY <1>1, BurstIs
<1>9. k.row # Nothing
  BY <1>8 DEF Nothing
<1> HIDE DEF b0, r, lat, Nothing
<1>10. \A i \in 1..Len(l) :
         /\ Fits(l[i], y)
         /\ l[i].cmd = "COL" =>
              /\ l[i].end <= pl.end /\ l[i].at <= pl.col
              /\ l[i].bank[2] # k.bank[2] => l[i].at + tCCD_S <= pl.col
              /\ l[i].w /\ ~w => l[i].end + tWTR_S <= pl.col
              /\ ~l[i].w /\ w => l[i].at + tRTW <= pl.col
              /\ ~l[i].w /\ w /\ l[i].bank[2] = k.bank[2] => l[i].at + Later(tRTW, tRTW_L) <= pl.col
  BY <1>5, ColumnFits
<1>11. Paired(d.log) /\ FawKept(d.log)
  BY <1>1, <1>4, <1>5, <1>6, <1>10, PairedAppend, FawKeptAppend DEF ChannelInv
<1>12. /\ Rest(b0) \in Int /\ Rest(d.banks[k.bank]) \in Int
       /\ Rest(b0) <= Rest(d.banks[k.bank]) /\ r <= Rest(d.banks[k.bank])
  <2>1. Rest(b0) = Later(b0.act + tRAS, b0.pre_ok)
    BY <1>2, <1>9 DEF Rest
  <2>2. Rest(d.banks[k.bank]) = Later(b0.act + tRAS, Later(b0.pre_ok, r))
    BY <1>2, <1>4, <1>9 DEF Rest
  <2>3. QED BY <1>4, <1>8, <2>1, <2>2, Times DEF Later
<1>13. \A i \in 1..Len(d.log) : Behind(d, d.log[i])
  <2>1. ASSUME NEW i \in 1..Len(l) PROVE Behind(d, l[i])
    <3> DEFINE x == l[i]
    <3>1. x \in Command /\ ActBehind(c, x) /\ ColBehind(c, x) /\ BankBehind(c, x)
      BY <1>6 DEF Behind
    <3>2. x.cmd = "COL" =>
              /\ x.end <= pl.end /\ x.at <= pl.col
              /\ x.bank[2] # k.bank[2] => x.at + tCCD_S <= pl.col
              /\ x.w /\ ~w => x.end + tWTR_S <= pl.col
              /\ ~x.w /\ w => x.at + tRTW <= pl.col
              /\ ~x.w /\ w /\ x.bank[2] = k.bank[2] => x.at + Later(tRTW, tRTW_L) <= pl.col
      BY <1>10
    <3> HIDE DEF x
    <3>3. ActBehind(d, x)
      BY <1>4, <3>1 DEF ActBehind
    <3>4. ColBehind(d, x)
      <4> SUFFICES ASSUME x.cmd = "COL" PROVE ColBehind(d, x)
        BY DEF ColBehind
      <4>1. x.w => x.end <= d.last_write_end
        BY <1>4, <3>1, <3>2 DEF ColBehind
      <4>2. d.last_col_at[1] = 0 /\ d.last_col_at[2] = k.bank[2]
        BY <1>4
      <4>3. QED BY <1>4, <3>2, <4>1, <4>2 DEF ColBehind
    <3>5. BankBehind(d, x)
      <4>1. CASE x.cmd = "REF"
        <5>1. \A b \in Banks : /\ x.end <= d.banks[b].act_ok
                               /\ d.banks[b].open # Nothing => x.end <= d.banks[b].act
          <6> TAKE b \in Banks
          <6>1. /\ x.end <= c.banks[b].act_ok
                /\ c.banks[b].open # Nothing => x.end <= c.banks[b].act
            BY <3>1, <4>1 DEF BankBehind
          <6>2. d.banks[b].open = c.banks[b].open /\ d.banks[b].act = c.banks[b].act
                /\ d.banks[b].act_ok = c.banks[b].act_ok
            BY <1>4 DEF b0
          <6>3. QED BY <6>1, <6>2
        <5>2. QED BY <4>1, <5>1 DEF BankBehind
      <4>2. CASE x.cmd # "REF" /\ x.bank # k.bank
        <5>1. x.bank \in Banks
          BY <3>1, <4>2, CommandIs
        <5>2. d.banks[x.bank] = c.banks[x.bank]
          BY <1>4, <4>2, <5>1
        <5>3. QED BY <3>1, <4>2, <5>2 DEF BankBehind
      <4>3. CASE x.cmd # "REF" /\ x.bank = k.bank
        <5>1. Recovered(x, Rest(b0))
          BY <3>1, <4>3 DEF BankBehind, b0
        <5>2. Recovered(x, Rest(d.banks[k.bank]))
          BY <1>12, <3>1, <5>1, RecoveredLater
        <5>3. d.banks[x.bank].act = c.banks[x.bank].act
          BY <1>4, <4>3 DEF b0
        <5>4. QED BY <3>1, <4>3, <5>2, <5>3 DEF BankBehind
      <4>4. QED BY <4>1, <4>2, <4>3
    <3>6. QED BY <3>3, <3>4, <3>5 DEF Behind, x
  <2>2. Behind(d, y)
    <3>1. ActBehind(d, y)
      BY <1>5 DEF ActBehind
    <3>2. ColBehind(d, y)
      BY <1>2, <1>3, <1>4, <1>5, <1>8 DEF ColBehind
    <3>3. Recovered(y, Rest(d.banks[k.bank]))
      <4>1. Recovered(y, r)
        BY <1>2, <1>3, <1>5, Times DEF Recovered, IsCmd, Recovery, r
      <4>2. QED BY <1>4, <1>12, <4>1, RecoveredLater
    <3>4. BankBehind(d, y)
      BY <1>5, <3>3 DEF BankBehind
    <3>5. QED BY <3>1, <3>2, <3>4 DEF Behind
  <2>3. QED BY <1>6, <1>7, <2>1, <2>2
<1>14. \A b \in Banks : d.banks[b].open = c.banks[b].open /\ d.banks[b].act = c.banks[b].act
                        /\ d.banks[b].act_ok = c.banks[b].act_ok
  <2> TAKE b \in Banks
  <2>1. CASE b = k.bank
    BY <1>4, <2>1 DEF b0
  <2>2. CASE b # k.bank
    BY <1>4, <2>2
  <2>3. QED BY <2>1, <2>2
<1>15. OpenRows(d)
  <2> SUFFICES ASSUME NEW b \in Banks, c.banks[b].open # Nothing
               PROVE  \E i \in 1..Len(d.log) : /\ Opens(d.log, i, b, c.banks[b].open, Len(d.log) + 1)
                                               /\ d.log[i].at <= c.banks[b].act
    BY <1>14 DEF OpenRows
  <2>1. PICK i \in 1..Len(l) : /\ Opens(l, i, b, c.banks[b].open, Len(l) + 1)
                               /\ l[i].at <= c.banks[b].act
    BY <1>1 DEF ChannelInv, OpenRows
  <2>2. y.cmd # "REF" /\ y.cmd # "PRE"
    BY <1>5
  <2>3. Opens(d.log, i, b, c.banks[b].open, Len(d.log) + 1)
    BY <1>4, <1>6, <2>1, <2>2, OpensAppend
  <2>4. i \in 1..Len(d.log) /\ d.log[i] = l[i]
    BY <1>6, <1>7
  <2>5. QED BY <2>1, <2>3, <2>4
<1>16. RowsInOrder(d)
  <2> SUFFICES ASSUME NEW j \in 1..Len(d.log), d.log[j].cmd = "COL"
               PROVE  Columned(d.log, j) /\ (tREFI > 0 => d.log[j].at < d.next_refresh)
    BY DEF RowsInOrder
  <2>1. CASE j \in 1..Len(l)
    <3>1. d.log[j] = l[j]
      BY <1>7, <2>1
    <3>2. Columned(l, j) /\ (tREFI > 0 => l[j].at < c.next_refresh)
      BY <1>1, <2>1, <3>1 DEF ChannelInv, RowsInOrder
    <3>3. QED BY <1>4, <1>6, <2>1, <3>1, <3>2, ColumnedAppend
  <2>2. CASE j = Len(l) + 1
    <3>1. d.log[j] = y /\ (tREFI > 0 => y.at < d.next_refresh)
      BY <1>2, <1>4, <1>5, <1>7, <2>2
    <3>2. PICK i \in 1..Len(l) : /\ Opens(l, i, k.bank, k.row, Len(l) + 1)
                                 /\ l[i].at <= b0.act
      BY <1>1, <1>2, <1>8, <1>9 DEF ChannelInv, OpenRows, b0
    <3>3. Opens(d.log, i, k.bank, k.row, Len(l) + 1)
      <4>1. Len(l) + 1 \in 1..(Len(l) + 1)
        BY <1>6
      <4>2. QED BY <1>4, <1>6, <3>2, <4>1, OpensAppend
    <3>4. d.log[i] = l[i] /\ i \in 1..(j - 1) /\ l[i].at \in Int
      BY <1>6, <1>7, <2>2, CommandIs
    <3>5. y.at >= l[i].at + tRCD
      <4>1. y.at = pl.col /\ b0.act + tRCD <= pl.col /\ b0.act \in Int /\ pl.col \in Int
        BY <1>2, <1>5, <1>8
      <4>2. QED BY <3>2, <3>4, <4>1, Times
    <3>6. Columned(d.log, j)
      BY <1>5, <2>2, <3>1, <3>3, <3>4, <3>5 DEF Columned
    <3>7. QED BY <3>1, <3>6
  <2>3. QED BY <1>6, <1>7, <2>1, <2>2
<1>17. FawHolds(d)
  <2>1. Acts(d.log, Len(d.log)) = Acts(l, Len(l))
    BY <1>4, <1>5, <1>6, ActsAppend
  <2>2. \A i \in Acts(l, Len(l)) : d.log[i] = l[i]
    BY <1>7 DEF Acts
  <2>3. \A z : {i \in Acts(d.log, Len(d.log)) : d.log[i].at > z} = {i \in Acts(l, Len(l)) : l[i].at > z}
    BY <2>1, <2>2
  <2>4. FawHolds(c) /\ d.faw = c.faw
    BY <1>1, <1>4 DEF ChannelInv
  <2>5. QED BY <2>1, <2>3, <2>4 DEF FawHolds
<1>18. InReach(d)
  <2> SUFFICES ASSUME tREFI > 0
               PROVE  /\ pl.end <= c.next_refresh + Far
                      /\ \A b \in Banks : /\ d.banks[b].act_ok <= c.next_refresh + Far
                                          /\ d.banks[b].act + tRAS <= c.next_refresh + Far
                                          /\ d.banks[b].pre_ok <= c.next_refresh + Far
    BY <1>4 DEF InReach
  <2>1. /\ \A b \in Banks : /\ c.banks[b].act_ok <= c.next_refresh + Far
                            /\ c.banks[b].act + tRAS <= c.next_refresh + Far
                            /\ c.banks[b].pre_ok <= c.next_refresh + Far
    BY <1>1 DEF ChannelInv, InReach
  <2>2. c.next_refresh \in Int /\ pl.col < c.next_refresh
    BY <1>1, <1>2, ChannelFields
  <2>3. pl.end <= c.next_refresh + Far
    BY <1>2, <1>3, <2>2, Times DEF Far
  <2>4. r <= c.next_refresh + Far
    <3>1. r = IF w THEN pl.end + tCK + tWR ELSE pl.col + tRTP
      BY DEF r, Recovery
    <3>2. QED BY <1>2, <1>3, <2>2, <3>1, Times DEF Far
  <2>5. ASSUME NEW b \in Banks PROVE d.banks[b].pre_ok <= c.next_refresh + Far
    <3>1. CASE b = k.bank
      <4>1. d.banks[b].pre_ok = Later(b0.pre_ok, r) /\ b0.pre_ok <= c.next_refresh + Far
        BY <1>4, <2>1, <3>1 DEF b0
      <4>2. QED BY <2>4, <4>1 DEF Later
    <3>2. CASE b # k.bank
      BY <1>4, <2>1, <3>2
    <3>3. QED BY <3>1, <3>2
  <2>6. QED BY <1>14, <2>1, <2>3, <2>5
<1>19. TurnsHold(d)
  BY <1>4, <1>5, ColumnTurns
<1>20. QED BY <1>4, <1>11, <1>13, <1>15, <1>16, <1>17, <1>18, <1>19 DEF Channels, ChannelInv, d

\* One burst of k was made between the histories of c and d, its column command last.
Extends(l, m) == Len(l) <= Len(m) /\ \A i \in 1..Len(l) : m[i] = l[i]
BurstMade(c, d, k, w, due) ==
  /\ Extends(c.log, d.log) /\ Len(c.log) < Len(d.log)
  /\ \A i \in (Len(c.log) + 1)..(Len(d.log) - 1) : d.log[i].cmd # "COL"
  /\ LET y == d.log[Len(d.log)] IN
     /\ y.cmd = "COL" /\ y.w = w /\ y.bank = k.bank /\ y.row = k.row /\ y.col = k.col
     /\ y.due = due /\ y.end = d.bus_free
  /\ c.bus_free <= d.bus_free

\* The bank is open on the burst's row at the time the plan says; e is c with the
\* PRECHARGE and the ACTIVATE of the plan.
OpenedFor(c, e, pl, k) ==
  /\ e \in Channels /\ e.banks[k.bank].open = k.row /\ e.banks[k.bank].act = pl.act
  /\ e.bus_free = c.bus_free /\ e.last_col = c.last_col /\ e.last_col_at = c.last_col_at
  /\ e.last_was_write = c.last_was_write /\ e.last_write_end = c.last_write_end
  /\ e.next_refresh = c.next_refresh
  /\ Extends(c.log, e.log) /\ \A i \in (Len(c.log) + 1)..Len(e.log) : e.log[i].cmd # "COL"

\* The row is open when the column command comes, in each of the three cases of plan().
LEMMA OpenedIs ==
  ASSUME NEW c \in Channels, NEW t \in Int, NEW k \in BurstT, NEW w \in BOOLEAN,
         NEW pl, pl = Plan(c, t, k, w), ~RefreshDue(c, pl.col)
  PROVE  OpenedFor(c, Activated(Precharged(c, pl, k), pl, k), pl, k)
<1> DEFINE b == c.banks[k.bank]
           r == Precharged(c, pl, k)
           e == Activated(r, pl, k)
           a == pl.act
<1> HIDE DEF Nothing
<1>1. c \in ChannelT /\ ChannelInv(c)
  BY DEF Channels
<1>2. /\ pl.kind = IF b.open = k.row THEN "hit"
                   ELSE IF b.open # Nothing THEN "conflict" ELSE "miss"
      /\ pl.pre \in Int /\ a \in Int /\ pl.col \in Int
      /\ t <= pl.pre /\ b.act + tRAS <= pl.pre /\ b.pre_ok <= pl.pre
      /\ pl.kind = "hit" => a = b.act
      /\ pl.kind # "hit" => a = ActivateAt(c, IF pl.kind = "conflict" THEN pl.pre + tRP ELSE t, k)
      /\ pl.col = ColumnAt(c, IF pl.kind = "hit" THEN Later(t, a + tRCD) ELSE a + tRCD, k, w)
  BY <1>1, PlanIs
<1>3. a + tRCD <= pl.col
  <2>1. a + tRCD \in Int /\ Later(t, a + tRCD) \in Int /\ a + tRCD <= Later(t, a + tRCD)
    BY <1>2, Times DEF Later
  <2>2. CASE pl.kind = "hit"
    <3>1. Later(t, a + tRCD) <= pl.col
      BY <1>1, <1>2, <2>1, <2>2, ColumnAtIs
    <3>2. QED BY <1>2, <2>1, <3>1
  <2>3. CASE pl.kind # "hit"
    BY <1>1, <1>2, <2>1, <2>3, ColumnAtIs
  <2>4. QED BY <2>2, <2>3
<1>4. CASE pl.kind = "hit"
  <2>1. e = c
    BY <1>4 DEF Activated, Precharged
  <2>2. b.open = k.row
    BY <1>2, <1>4
  <2>3. Len(c.log) \in Nat
    BY <1>1, ChannelFields
  <2> HIDE DEF e
  <2>4. OpenedFor(c, c, pl, k)
    BY <1>2, <1>4, <2>2, <2>3 DEF OpenedFor, Extends
  <2>5. QED BY <2>1, <2>4 DEF e, r
<1>5. CASE pl.kind # "hit"
  <2> DEFINE f == IF pl.kind = "conflict" THEN pl.pre + tRP ELSE t
  <2>1. f \in Int
    BY <1>2, Times
  <2>2. /\ f <= a /\ b.act_ok <= a /\ b.act + tRC <= a
        /\ c.last_act_at[1] = 0 =>
             c.last_act + (IF c.last_act_at[2] = k.bank[2] THEN tRRD_L ELSE tRRD_S) <= a
        /\ Len(c.faw[0]) = 4 => Head(c.faw[0]) + tFAW <= a
    BY <1>1, <1>2, <1>5, <2>1, ActivateAtIs
  <2>3. tREFI > 0 => a < c.next_refresh
    <3>1. tREFI > 0 => pl.col < c.next_refresh
      <4>1. c.next_refresh \in Int
        BY <1>1, ChannelFields
      <4>2. QED BY <1>2, <4>1 DEF RefreshDue
    <3>2. c.next_refresh \in Int
      BY <1>1, ChannelFields
    <3>3. QED BY <1>2, <1>3, <3>1, <3>2, Times
  <2>4. Len(c.faw[0]) = 4 => c.faw[0][1] + tFAW <= a
    <3>1. c.faw[0] \in Seq(Int)
      BY <1>1, ChannelFields
    <3>2. Len(c.faw[0]) = 4 => Head(c.faw[0]) = c.faw[0][1]
      BY <3>1, HeadIs
    <3>3. QED BY <2>2, <3>2
  <2>5. /\ Ready(r, k, a) /\ r.banks = c.banks /\ r.last_act_at = c.last_act_at
        /\ r.last_act = c.last_act /\ r.faw = c.faw /\ r.next_refresh = c.next_refresh
        /\ r.bus_free = c.bus_free /\ r.last_col = c.last_col /\ r.last_col_at = c.last_col_at
        /\ r.last_was_write = c.last_was_write /\ r.last_write_end = c.last_write_end
        /\ Extends(c.log, r.log) /\ \A i \in (Len(c.log) + 1)..Len(r.log) : r.log[i].cmd = "PRE"
    <3>1. CASE pl.kind = "miss"
      <4>1. r = c
        BY <3>1 DEF Precharged
      <4>2. b.open = Nothing
        BY <1>2, <3>1
      <4>3. Ready(c, k, a)
        BY <1>2, <2>2, <4>2, ReadyMiss
      <4>4. Len(c.log) \in Nat
        BY <1>1, ChannelFields
      <4> HIDE DEF r
      <4>5. QED BY <4>1, <4>3, <4>4 DEF Extends
    <3>2. CASE pl.kind = "conflict"
      <4>1. r = Precharging(c, k, pl.pre)
        BY <3>2 DEF Precharged, Precharging
      <4>2. b.open # Nothing
        BY <1>2, <3>2
      <4>3. pl.pre + tRP <= a
        BY <2>2, <3>2
      <4> HIDE DEF r
      <4>4. Ready(r, k, a)
        BY <1>2, <4>1, <4>2, <4>3, ReadyConflict
      <4> DEFINE y == [cmd |-> "PRE", at |-> pl.pre, bank |-> k.bank]
      <4>5. y \in Command /\ y.cmd = "PRE"
        BY <1>2 DEF Command, BurstT
      <4>6. r = [c EXCEPT !.log = Append(@, y)]
        BY <4>1 DEF Precharging
      <4> HIDE DEF y
      <4>7. /\ r.banks = c.banks /\ r.last_act_at = c.last_act_at
            /\ r.last_act = c.last_act /\ r.faw = c.faw /\ r.next_refresh = c.next_refresh
            /\ r.bus_free = c.bus_free /\ r.last_col = c.last_col /\ r.last_col_at = c.last_col_at
            /\ r.last_was_write = c.last_was_write /\ r.last_write_end = c.last_write_end
            /\ r.log = Append(c.log, y)
        BY <1>1, <4>6 DEF ChannelT
      <4>8. c.log \in Seq(Command)
        BY <1>1, ChannelFields
      <4>9. /\ Len(r.log) = Len(c.log) + 1 /\ r.log[Len(c.log) + 1] = y /\ Len(c.log) \in Nat
            /\ \A i \in 1..Len(c.log) : r.log[i] = c.log[i]
        BY <4>5, <4>7, <4>8, Appended
      <4>10. Extends(c.log, r.log) /\ \A i \in (Len(c.log) + 1)..Len(r.log) : r.log[i].cmd = "PRE"
        BY <4>5, <4>9 DEF Extends
      <4>11. QED BY <4>4, <4>7, <4>10
    <3>3. QED BY <1>2, <1>5, <3>1, <3>2
  <2> HIDE DEF r, f
  <2>6. MayActivate(r, k, a)
    BY <2>2, <2>3, <2>4, <2>5 DEF MayActivate
  <2>7. e = Activating(r, k, a)
    BY <1>5 DEF Activated, Activating
  <2>8. e \in Channels
    BY <1>2, <2>6, <2>7, ActivatingKeeps
  <2>9. r \in ChannelT /\ Len(r.faw[0]) <= 4
    BY <2>5 DEF Ready, FawHolds
  <2> DEFINE y == [cmd |-> "ACT", at |-> a, bank |-> k.bank, row |-> k.row]
  <2>10. /\ y \in Command /\ e.log = Append(r.log, y)
         /\ e.bus_free = r.bus_free /\ e.last_col = r.last_col
         /\ e.last_col_at = r.last_col_at /\ e.next_refresh = r.next_refresh
         /\ e.last_was_write = r.last_was_write /\ e.last_write_end = r.last_write_end
         /\ e.banks[k.bank].open = k.row /\ e.banks[k.bank].act = a
    <3> HIDE DEF e
    <3>1. QED BY <1>2, <2>7, <2>9, ActivatingIs
  <2>11. y.cmd = "ACT"
    OBVIOUS
  <2> HIDE DEF e, y
  <2>12. r.log \in Seq(Command) /\ Len(c.log) \in Nat /\ Len(r.log) \in Nat
    BY <1>1, <2>9, ChannelFields
  <2>13. /\ Len(e.log) = Len(r.log) + 1 /\ e.log[Len(r.log) + 1] = y
         /\ \A i \in 1..Len(r.log) : e.log[i] = r.log[i]
    BY <2>10, <2>12, Appended
  <2>14. Extends(c.log, e.log) /\ \A i \in (Len(c.log) + 1)..Len(e.log) : e.log[i].cmd # "COL"
    <3>1. \A i \in (Len(c.log) + 1)..Len(e.log) :
            i = Len(r.log) + 1 \/ (i \in (Len(c.log) + 1)..Len(r.log) /\ i \in 1..Len(r.log))
      BY <2>12, <2>13
    <3>2. \A i \in (Len(c.log) + 1)..Len(e.log) : e.log[i].cmd # "COL"
      BY <2>5, <2>11, <2>13, <3>1
    <3>3. QED BY <2>5, <2>12, <2>13, <3>2 DEF Extends
  <2>15. OpenedFor(c, e, pl, k)
    BY <2>5, <2>8, <2>10, <2>14 DEF OpenedFor
  <2>16. QED BY <2>15 DEF e, r
<1>6. QED BY <1>4, <1>5

\* commit() keeps the invariant, when no refresh is due before the column command.
LEMMA CommitKeeps ==
  ASSUME NEW c \in Channels, NEW t \in Int, NEW k \in BurstT, NEW w \in BOOLEAN, NEW due \in Int,
         NEW pl, pl = Plan(c, t, k, w), ~RefreshDue(c, pl.col)
  PROVE  LET d == Commit(c, pl, k, w, due) IN
         d \in Channels /\ BurstMade(c, d, k, w, due) /\ pl.end = d.bus_free
<1> DEFINE e == Activated(Precharged(c, pl, k), pl, k)
           d == Commit(c, pl, k, w, due)
           lat == IF w THEN tWL ELSE tRL
           y == [cmd |-> "COL", at |-> pl.col, bank |-> k.bank, row |-> k.row,
                 col |-> k.col, w |-> w, end |-> pl.end, due |-> due]
<1> HIDE DEF Nothing
<1>1. c \in ChannelT
  BY DEF Channels
<1>2. OpenedFor(c, e, pl, k)
  BY OpenedIs
<1> HIDE DEF e
<1>3. d = Columning(e, pl, k, w, due)
  BY DEF Commit, Columning, e
<1> HIDE DEF d
<1> DEFINE f == IF pl.kind = "hit" THEN Later(t, pl.act + tRCD) ELSE pl.act + tRCD
<1>4. /\ pl.act \in Int /\ pl.first \in Int /\ pl.col \in Int /\ pl.end \in Int /\ f \in Int
      /\ pl.col = ColumnAt(c, f, k, w)
      /\ pl.end = pl.col + lat + burst
  BY <1>1, PlanIs
<1>5. pl.act + tRCD <= f
  BY <1>4, Times DEF Later
<1> HIDE DEF f
<1>6. /\ f <= pl.col
      /\ LET same == c.last_col_at[1] = 0 /\ c.last_col_at[2] = k.bank[2] IN
         /\ c.last_col + (IF same THEN tCCD_L ELSE tCCD_S) <= pl.col
         /\ c.bus_free <= pl.col + lat
         /\ ~w /\ c.last_was_write => c.last_write_end + (IF same THEN tWTR_L ELSE tWTR_S) <= pl.col
         /\ w /\ ~c.last_was_write =>
              c.last_col + (IF same /\ tRTW_L # 0 THEN tRTW_L ELSE tRTW) <= pl.col
  BY <1>1, <1>4, ColumnAtIs
<1>7. pl.act + tRCD <= pl.col
  <2>1. pl.act + tRCD <= f /\ f <= pl.col
    BY <1>5, <1>6
  <2>2. pl.act + tRCD \in Int /\ f \in Int /\ pl.col \in Int
    BY <1>4, Times
  <2>3. QED BY <2>1, <2>2
<1>8. tREFI > 0 => pl.col < c.next_refresh
  <2>1. c.next_refresh \in Int
    BY <1>1, ChannelFields
  <2>2. QED BY <1>4, <2>1 DEF RefreshDue
<1>9. MayColumn(e, pl, k, w, due)
  BY <1>2, <1>4, <1>6, <1>7, <1>8 DEF OpenedFor, MayColumn
<1>10. d \in Channels
  BY <1>3, <1>9, ColumningKeeps
<1>11. e \in ChannelT
  BY <1>2 DEF OpenedFor, Channels
<1>12. y \in Command /\ d.log = Append(e.log, y) /\ d.bus_free = pl.end
  <2>1. pl.col \in Int /\ pl.end \in Int /\ pl.first \in Int
    BY <1>4
  <2> HIDE DEF lat
  <2>2. QED BY <1>3, <1>11, <2>1, ColumningIs
<1>13. /\ y.cmd = "COL" /\ y.w = w /\ y.bank = k.bank /\ y.row = k.row /\ y.col = k.col
       /\ y.due = due /\ y.end = pl.end
  OBVIOUS
<1> HIDE DEF y
<1>14. e.log \in Seq(Command) /\ Len(e.log) \in Nat /\ Len(c.log) \in Nat /\ c.bus_free \in Int
  BY <1>1, <1>11, ChannelFields
<1>15. /\ Len(d.log) = Len(e.log) + 1 /\ d.log[Len(e.log) + 1] = y
       /\ \A i \in 1..Len(e.log) : d.log[i] = e.log[i]
  BY <1>12, <1>14, Appended
<1>16. Extends(c.log, e.log) /\ \A i \in (Len(c.log) + 1)..Len(e.log) : e.log[i].cmd # "COL"
  BY <1>2 DEF OpenedFor
<1>17. Extends(c.log, d.log) /\ Len(c.log) < Len(d.log)
  BY <1>14, <1>15, <1>16 DEF Extends
<1>18. \A i \in (Len(c.log) + 1)..(Len(d.log) - 1) : d.log[i].cmd # "COL"
  <2> TAKE i \in (Len(c.log) + 1)..(Len(d.log) - 1)
  <2>1. i \in (Len(c.log) + 1)..Len(e.log) /\ i \in 1..Len(e.log)
    BY <1>14, <1>15
  <2>2. QED BY <1>15, <1>16, <2>1
<1>19. d.log[Len(d.log)] = y
  BY <1>15
<1>20. c.bus_free <= d.bus_free
  <2>1. lat \in Nat
    BY Times
  <2>2. QED BY <1>4, <1>6, <1>12, <1>14, <2>1, Times
<1>21. BurstMade(c, d, k, w, due)
  BY <1>12, <1>13, <1>17, <1>18, <1>19, <1>20 DEF BurstMade
<1>22. QED BY <1>10, <1>12, <1>21 DEF d

\* What burst() does to the channel of the burst, refreshes and all.
BurstTo(c, t, k, w, due) ==
  LET x == Settled(Refresh(c, t), t, k, w) IN Commit(x, Plan(x, t, k, w), k, w, due)

\* burst(), on its channel: refreshes, the plan, and the commit.
LEMMA BurstToIs ==
  ASSUME NEW c \in Channels, NEW t \in Int, NEW k \in BurstT, NEW w \in BOOLEAN, NEW due \in Int
  PROVE  LET x == Settled(Refresh(c, t), t, k, w)
             d == BurstTo(c, t, k, w, due)
         IN  d \in Channels /\ BurstMade(c, d, k, w, due) /\ Plan(x, t, k, w).end = d.bus_free
<1> DEFINE z == Refresh(c, t)
           x == Settled(z, t, k, w)
           pl == Plan(x, t, k, w)
           d == Commit(x, pl, k, w, due)
<1>1. z \in Channels /\ Refreshed(c, z)
  BY RefreshIs
<1> HIDE DEF z
<1>2. x \in Channels /\ Refreshed(z, x) /\ ~RefreshDue(x, pl.col)
  BY <1>1, SettledIs
<1> HIDE DEF x
<1>3. Refreshed(c, x)
  BY <1>1, <1>2, RefreshedTwice DEF Channels
<1> HIDE DEF pl
<1>4. pl = Plan(x, t, k, w)
  BY DEF pl
<1>5. d \in Channels /\ BurstMade(x, d, k, w, due) /\ pl.end = d.bus_free
  BY <1>2, <1>4, CommitKeeps
<1> HIDE DEF d
<1>6. Len(c.log) \in Nat /\ Len(x.log) \in Nat /\ Len(d.log) \in Nat
  BY <1>2, <1>5, ChannelFields DEF Channels
<1>7. /\ Len(c.log) <= Len(x.log) /\ \A i \in 1..Len(c.log) : x.log[i] = c.log[i]
      /\ \A i \in (Len(c.log) + 1)..Len(x.log) : x.log[i].cmd = "REF"
      /\ x.bus_free = c.bus_free
  BY <1>3 DEF Refreshed
<1>8. /\ Len(x.log) < Len(d.log) /\ \A i \in 1..Len(x.log) : d.log[i] = x.log[i]
      /\ \A i \in (Len(x.log) + 1)..(Len(d.log) - 1) : d.log[i].cmd # "COL"
  BY <1>5 DEF BurstMade, Extends
<1>9. Extends(c.log, d.log) /\ Len(c.log) < Len(d.log)
  BY <1>6, <1>7, <1>8 DEF Extends
<1>10. \A i \in (Len(c.log) + 1)..(Len(d.log) - 1) : d.log[i].cmd # "COL"
  <2> TAKE i \in (Len(c.log) + 1)..(Len(d.log) - 1)
  <2>1. CASE i <= Len(x.log)
    <3>1. i \in 1..Len(x.log) /\ i \in (Len(c.log) + 1)..Len(x.log)
      BY <1>6, <2>1
    <3>2. QED BY <1>7, <1>8, <3>1
  <2>2. CASE ~(i <= Len(x.log))
    <3>1. i \in (Len(x.log) + 1)..(Len(d.log) - 1)
      BY <1>6, <2>2
    <3>2. QED BY <1>8, <3>1
  <2>3. QED BY <2>1, <2>2
<1>11. BurstMade(c, d, k, w, due)
  BY <1>5, <1>7, <1>9, <1>10 DEF BurstMade
<1>12. QED BY <1>5, <1>11 DEF BurstTo, x, z, pl, d

------------------------------------------------------------------------------
(* The engine. *)

Chans == 0..(channels - 1)
QueuedT == [arrive : Int, to : BurstT]
EngineT == [chan : [Chans -> Channels], wq : Seq(QueuedT), leaving : Seq(Int), merged : Int,
            done : Int, all : Int, at : Int]

\* No burst waits twice.
Distinct(q) == \A i, j \in DOMAIN q : q[i].to.addr = q[j].to.addr => i = j
Engines == {s \in EngineT : Distinct(s.wq)}

\* The fields of the engine.
LEMMA EngineIs ==
  ASSUME NEW s \in EngineT
  PROVE  /\ s.chan \in [Chans -> Channels] /\ s.wq \in Seq(QueuedT) /\ s.leaving \in Seq(Int)
         /\ Len(s.wq) \in Nat /\ Len(s.leaving) \in Nat
         /\ s.merged \in Int /\ s.done \in Int /\ s.all \in Int /\ s.at \in Int
         /\ \A c \in Chans : s.chan[c] \in Channels /\ s.chan[c] \in ChannelT
                             /\ s.chan[c].order \in Int /\ s.chan[c].bus_free \in Int
                             /\ s.chan[c].log \in Seq(Command) /\ Len(s.chan[c].log) \in Nat
                             /\ DOMAIN s.chan[c].log = 1..Len(s.chan[c].log)
         /\ DOMAIN s.chan = Chans /\ DOMAIN s.wq = 1..Len(s.wq)
         /\ \A i \in 1..Len(s.wq) : s.wq[i].arrive \in Int /\ s.wq[i].to \in BurstT
<1>1. /\ s.chan \in [Chans -> Channels] /\ s.wq \in Seq(QueuedT) /\ s.leaving \in Seq(Int)
      /\ s.merged \in Int /\ s.done \in Int /\ s.all \in Int /\ s.at \in Int
  BY DEF EngineT
<1>2. Len(s.wq) \in Nat /\ Len(s.leaving) \in Nat /\ DOMAIN s.wq = 1..Len(s.wq)
  BY <1>1
<1>3. \A c \in Chans : s.chan[c] \in Channels /\ s.chan[c] \in ChannelT
  BY <1>1 DEF Channels
<1>4. \A c \in Chans : /\ s.chan[c].order \in Int /\ s.chan[c].bus_free \in Int
                       /\ s.chan[c].log \in Seq(Command) /\ Len(s.chan[c].log) \in Nat
  BY <1>3, ChannelFields
<1>5. \A l \in Seq(Command) : DOMAIN l = 1..Len(l)
  OBVIOUS
<1>6. \A i \in 1..Len(s.wq) : s.wq[i].arrive \in Int /\ s.wq[i].to \in BurstT
  <2> TAKE i \in 1..Len(s.wq)
  <2>1. s.wq[i] \in QueuedT
    BY <1>1
  <2>2. QED BY <2>1 DEF QueuedT
<1>7. QED BY <1>1, <1>2, <1>3, <1>4, <1>5, <1>6

\* r is s after one burst.
Burstly(s, r, k, w, due) ==
  /\ r \in EngineT /\ r.wq = s.wq /\ r.leaving = s.leaving /\ r.merged = s.merged
  /\ r.all = s.all /\ r.at = s.at
  /\ BurstMade(s.chan[k.ch], r.chan[k.ch], k, w, due) /\ r.done = r.chan[k.ch].bus_free
  /\ \A c \in Chans : c # k.ch => r.chan[c] = s.chan[c]

\* burst(), in the engine.
LEMMA BurstKeeps ==
  ASSUME NEW s \in EngineT, NEW arrive \in Int, NEW k \in BurstT, NEW w \in BOOLEAN, NEW due \in Int
  PROVE  Burstly(s, Burst(s, arrive, k, w, due), k, w, due)
<1> DEFINE t == Later(arrive, s.chan[k.ch].order)
           x == Settled(Refresh(s.chan[k.ch], t), t, k, w)
           pl == Plan(x, t, k, w)
           d == Commit(x, pl, k, w, due)
           r == Burst(s, arrive, k, w, due)
<1>1. k.ch \in Chans
  BY DEF BurstT, Chans
<1>2. s.chan[k.ch] \in Channels /\ t \in Int
  BY <1>1, EngineIs DEF Later
<1>3. r = [s EXCEPT !.chan[k.ch] = d, !.done = pl.end]
  BY DEF Burst, BurstNow, SentIn, Sent
<1> HIDE DEF t, r
<1>4. d \in Channels /\ BurstMade(s.chan[k.ch], d, k, w, due) /\ pl.end = d.bus_free
  <2>1. d = BurstTo(s.chan[k.ch], t, k, w, due)
    BY DEF BurstTo
  <2> HIDE DEF d
  <2>2. QED BY <1>2, <2>1, BurstToIs
<1> HIDE DEF d, pl, x
<1>5. pl.end \in Int
  BY <1>4, ChannelFields DEF Channels
<1> DEFINE H == [s.chan EXCEPT ![k.ch] = d]
<1>6. r = [s EXCEPT !.chan = H, !.done = pl.end]
  BY <1>3 DEF EngineT
<1>7. H \in [Chans -> Channels] /\ H[k.ch] = d /\ \A c \in Chans : c # k.ch => H[c] = s.chan[c]
  BY <1>1, <1>4, EngineIs
<1> HIDE DEF H
<1>8. /\ r \in EngineT /\ r.wq = s.wq /\ r.leaving = s.leaving /\ r.merged = s.merged
      /\ r.all = s.all /\ r.at = s.at /\ r.chan = H /\ r.done = pl.end
  BY <1>5, <1>6, <1>7 DEF EngineT
<1>9. QED BY <1>4, <1>7, <1>8 DEF Burstly, r

------------------------------------------------------------------------------
(* The writes the DRAM got. *)

WritesIn(ch) == UNION {{<<c, i>> : i \in {j \in DOMAIN ch[c].log :
                          IsCmd(ch[c].log[j], "COL") /\ ch[c].log[j].w = TRUE}} : c \in DOMAIN ch}
Tally(s) == s.merged + Len(s.wq) + Cardinality(WritesIn(s.chan))

\* The writes a set of histories holds are finitely many.
LEMMA WritesAre ==
  ASSUME NEW ch \in [Chans -> Channels]
  PROVE  /\ \A c, i : <<c, i>> \in WritesIn(ch) <=>
              /\ c \in Chans /\ i \in 1..Len(ch[c].log)
              /\ ch[c].log[i].cmd = "COL" /\ ch[c].log[i].w = TRUE
         /\ \A p \in WritesIn(ch) : p = <<p[1], p[2]>>
         /\ IsFiniteSet(WritesIn(ch)) /\ Cardinality(WritesIn(ch)) \in Nat
<1>1. \A c \in Chans : ch[c].log \in Seq(Command)
  BY ChannelFields DEF Channels
<1>2. \A c \in Chans : DOMAIN ch[c].log = 1..Len(ch[c].log) /\ Len(ch[c].log) \in Nat
  <2>1. \A l \in Seq(Command) : DOMAIN l = 1..Len(l) /\ Len(l) \in Nat
    OBVIOUS
  <2>2. QED BY <1>1, <2>1
<1> DEFINE J(c) == {j \in DOMAIN ch[c].log : IsCmd(ch[c].log[j], "COL") /\ ch[c].log[j].w = TRUE}
           I(c) == {<<c, i>> : i \in J(c)}
           U == {I(c) : c \in Chans}
<1>3. WritesIn(ch) = UNION U
  BY DEF WritesIn
<1>4. \A c, i : <<c, i>> \in WritesIn(ch) <=>
              /\ c \in Chans /\ i \in 1..Len(ch[c].log)
              /\ ch[c].log[i].cmd = "COL" /\ ch[c].log[i].w = TRUE
  BY <1>2, <1>3 DEF IsCmd
<1>5. \A p \in WritesIn(ch) : p = <<p[1], p[2]>>
  BY <1>3
<1>6. IsFiniteSet(U)
  <2>1. channels - 1 \in Int /\ 0 \in Int
    BY Times
  <2>2. IsFiniteSet(Chans)
    BY <2>1, FS_Interval DEF Chans
  <2> DEFINE f == [c \in Chans |-> I(c)]
  <2>3. f \in Surjection(Chans, U)
    <3> HIDE DEF I
    <3>1. f \in [Chans -> U] /\ \A y \in U : \E c \in Chans : f[c] = y
      OBVIOUS
    <3> HIDE DEF f, U
    <3>2. QED BY <3>1 DEF Surjection
  <2> HIDE DEF f, U
  <2>4. QED BY <2>2, <2>3, FS_Surjection
<1>7. \A T \in U : IsFiniteSet(T)
  <2> SUFFICES ASSUME NEW c \in Chans PROVE IsFiniteSet(I(c))
    OBVIOUS
  <2>1. IsFiniteSet(1..Len(ch[c].log))
    BY <1>2, FS_Interval
  <2>2. J(c) \subseteq 1..Len(ch[c].log)
    BY <1>2
  <2>3. IsFiniteSet(J(c))
    BY <2>1, <2>2, FS_Subset
  <2> DEFINE f == [i \in J(c) |-> <<c, i>>]
  <2>4. f \in Surjection(J(c), I(c))
    <3> HIDE DEF J
    <3>1. f \in [J(c) -> I(c)] /\ \A y \in I(c) : \E i \in J(c) : f[i] = y
      OBVIOUS
    <3> HIDE DEF f, I
    <3>2. QED BY <3>1 DEF Surjection
  <2> HIDE DEF f, I, J
  <2>5. QED BY <2>3, <2>4, FS_Surjection
<1> HIDE DEF U
<1>8. IsFiniteSet(UNION U)
  BY <1>6, <1>7, FS_UNION
<1>9. QED BY <1>3, <1>4, <1>5, <1>8, FS_CardinalityType

\* A write burst adds itself to them, and a read none.
LEMMA BurstWrites ==
  ASSUME NEW ch \in [Chans -> Channels], NEW dh \in [Chans -> Channels], NEW k \in BurstT,
         NEW w \in BOOLEAN, NEW due, BurstMade(ch[k.ch], dh[k.ch], k, w, due),
         \A c \in Chans : c # k.ch => dh[c] = ch[c]
  PROVE  WritesIn(dh) = IF w THEN WritesIn(ch) \cup {<<k.ch, Len(dh[k.ch].log)>>} ELSE WritesIn(ch)
<1> DEFINE l == ch[k.ch].log
           m == dh[k.ch].log
           p == <<k.ch, Len(m)>>
           y == m[Len(m)]
<1>1. k.ch \in Chans
  BY DEF BurstT, Chans
<1>2. ch[k.ch] \in ChannelT /\ dh[k.ch] \in ChannelT
  BY <1>1 DEF Channels
<1>3. Len(l) \in Nat /\ Len(m) \in Nat
  BY <1>2, ChannelFields
<1>4. /\ Len(l) < Len(m) /\ \A i \in 1..Len(l) : m[i] = l[i]
      /\ \A i \in (Len(l) + 1)..(Len(m) - 1) : m[i].cmd # "COL"
      /\ y.cmd = "COL" /\ y.w = w
  BY DEF BurstMade, Extends
<1>5. \A c, i : <<c, i>> \in WritesIn(ch) <=> /\ c \in Chans /\ i \in 1..Len(ch[c].log)
                                              /\ ch[c].log[i].cmd = "COL" /\ ch[c].log[i].w = TRUE
  BY WritesAre
<1>6. \A c, i : <<c, i>> \in WritesIn(dh) <=> /\ c \in Chans /\ i \in 1..Len(dh[c].log)
                                              /\ dh[c].log[i].cmd = "COL" /\ dh[c].log[i].w = TRUE
  BY WritesAre
<1> HIDE DEF l, m, y
<1>7. \A i : <<k.ch, i>> \in WritesIn(dh) <=> <<k.ch, i>> \in WritesIn(ch) \/ (w /\ i = Len(m))
  <2> TAKE i
  <2>1. <<k.ch, i>> \in WritesIn(ch) <=> i \in 1..Len(l) /\ l[i].cmd = "COL" /\ l[i].w = TRUE
    BY <1>1, <1>5 DEF l
  <2>2. <<k.ch, i>> \in WritesIn(dh) <=> i \in 1..Len(m) /\ m[i].cmd = "COL" /\ m[i].w = TRUE
    BY <1>1, <1>6 DEF m
  <2>3. CASE i \in 1..Len(l)
    <3>1. m[i] = l[i] /\ i \in 1..Len(m) /\ i # Len(m)
      BY <1>3, <1>4, <2>3
    <3>2. QED BY <2>1, <2>2, <2>3, <3>1
  <2>4. CASE i = Len(m)
    <3>1. i \in 1..Len(m) /\ m[i].cmd = "COL" /\ m[i].w = w /\ i \notin 1..Len(l)
      BY <1>3, <1>4, <2>4 DEF y
    <3>2. QED BY <2>1, <2>2, <2>4, <3>1
  <2>5. CASE i \notin 1..Len(l) /\ i # Len(m)
    <3>1. i \in 1..Len(m) => i \in (Len(l) + 1)..(Len(m) - 1)
      BY <1>3, <2>5
    <3>2. i \in 1..Len(m) => m[i].cmd # "COL"
      BY <1>4, <3>1
    <3>3. QED BY <2>1, <2>2, <2>5, <3>2
  <2>6. QED BY <2>3, <2>4, <2>5
<1>8. \A c, i : c # k.ch => (<<c, i>> \in WritesIn(dh) <=> <<c, i>> \in WritesIn(ch))
  BY <1>5, <1>6
<1>10. \A c, i : <<c, i>> \in WritesIn(dh) <=> <<c, i>> \in WritesIn(ch) \/ (w /\ <<c, i>> = p)
  <2> TAKE c, i
  <2>1. CASE c = k.ch
    BY <1>7, <2>1
  <2>2. CASE c # k.ch
    BY <1>8, <2>2
  <2>3. QED BY <2>1, <2>2
<1>11. (\A z \in WritesIn(dh) : z = <<z[1], z[2]>>) /\ (\A z \in WritesIn(ch) : z = <<z[1], z[2]>>)
  BY WritesAre
<1>12. WritesIn(dh) = IF w THEN WritesIn(ch) \cup {p} ELSE WritesIn(ch)
  <2> DEFINE q == p
  <2>1. \A z \in WritesIn(dh) : z \in WritesIn(ch) \/ (w /\ z = p)
    <3> TAKE z \in WritesIn(dh)
    <3>1. PICK c, i : z = <<c, i>>
      BY <1>11
    <3> HIDE DEF p
    <3>2. QED BY <1>10, <3>1
  <2>2. \A z \in WritesIn(ch) : z \in WritesIn(dh)
    <3> TAKE z \in WritesIn(ch)
    <3>1. PICK c, i : z = <<c, i>>
      BY <1>11
    <3> HIDE DEF p
    <3>2. QED BY <1>10, <3>1
  <2>3. w => p \in WritesIn(dh)
    BY <1>10
  <2> HIDE DEF p
  <2>4. QED BY <2>1, <2>2, <2>3
<1>13. QED BY <1>12 DEF p, m

\* So a burst makes them one more, or none.
LEMMA BurstCounts ==
  ASSUME NEW ch \in [Chans -> Channels], NEW dh \in [Chans -> Channels], NEW k \in BurstT,
         NEW w \in BOOLEAN, NEW due, BurstMade(ch[k.ch], dh[k.ch], k, w, due),
         \A c \in Chans : c # k.ch => dh[c] = ch[c]
  PROVE  Cardinality(WritesIn(dh)) = Cardinality(WritesIn(ch)) + (IF w THEN 1 ELSE 0)
<1> DEFINE p == <<k.ch, Len(dh[k.ch].log)>>
<1>1. WritesIn(dh) = IF w THEN WritesIn(ch) \cup {p} ELSE WritesIn(ch)
  BY BurstWrites
<1>2. p \notin WritesIn(ch)
  <2>1. k.ch \in Chans
    BY DEF BurstT, Chans
  <2>2. Len(ch[k.ch].log) \in Nat /\ Len(dh[k.ch].log) \in Nat
    BY <2>1, ChannelFields DEF Channels
  <2>3. Len(ch[k.ch].log) < Len(dh[k.ch].log)
    BY DEF BurstMade
  <2>4. Len(dh[k.ch].log) \notin 1..Len(ch[k.ch].log)
    BY <2>2, <2>3
  <2>5. \A c, i : <<c, i>> \in WritesIn(ch) => i \in 1..Len(ch[c].log)
    BY WritesAre
  <2>6. QED BY <2>4, <2>5
<1>3. IsFiniteSet(WritesIn(ch)) /\ Cardinality(WritesIn(ch)) \in Nat
  BY WritesAre
<1> HIDE DEF p
<1>4. CASE w
  <2>1. Cardinality(WritesIn(ch) \cup {p}) = Cardinality(WritesIn(ch)) + 1
    BY <1>2, <1>3, FS_AddElement
  <2>2. QED BY <1>1, <1>4, <2>1
<1>5. CASE ~w
  BY <1>1, <1>3, <1>5
<1>6. QED BY <1>4, <1>5

\* The same of a write.
LEMMA OneMoreWrite ==
  ASSUME NEW ch \in [Chans -> Channels], NEW dh \in [Chans -> Channels], NEW k \in BurstT,
         NEW due, BurstMade(ch[k.ch], dh[k.ch], k, TRUE, due),
         \A c \in Chans : c # k.ch => dh[c] = ch[c]
  PROVE  Cardinality(WritesIn(dh)) = Cardinality(WritesIn(ch)) + 1
<1> DEFINE Sum(w) == Cardinality(WritesIn(ch)) + (IF w THEN 1 ELSE 0)
<1>1. \A w \in BOOLEAN : BurstMade(ch[k.ch], dh[k.ch], k, w, due) => Cardinality(WritesIn(dh)) = Sum(w)
  <2> SUFFICES ASSUME NEW w \in BOOLEAN, BurstMade(ch[k.ch], dh[k.ch], k, w, due)
               PROVE  Cardinality(WritesIn(dh)) = Sum(w)
    OBVIOUS
  <2>1. QED BY BurstCounts
<1>2. Cardinality(WritesIn(dh)) = Sum(TRUE)
  <2> HIDE DEF Sum
  <2>1. QED BY <1>1
<1>3. QED BY <1>2

\* Refreshes leave them alone.
LEMMA SameWrites ==
  ASSUME NEW ch \in [Chans -> Channels], NEW dh \in [Chans -> Channels],
         \A c \in Chans : Refreshed(ch[c], dh[c])
  PROVE  WritesIn(dh) = WritesIn(ch)
<1>1. \A c \in Chans : ch[c] \in ChannelT /\ dh[c] \in ChannelT
  BY DEF Channels
<1>2. \A c, i : <<c, i>> \in WritesIn(ch) <=> /\ c \in Chans /\ i \in 1..Len(ch[c].log)
                                              /\ ch[c].log[i].cmd = "COL" /\ ch[c].log[i].w = TRUE
  BY WritesAre
<1>3. \A c, i : <<c, i>> \in WritesIn(dh) <=> /\ c \in Chans /\ i \in 1..Len(dh[c].log)
                                              /\ dh[c].log[i].cmd = "COL" /\ dh[c].log[i].w = TRUE
  BY WritesAre
<1>4. \A c, i : <<c, i>> \in WritesIn(ch) <=> <<c, i>> \in WritesIn(dh)
  <2> TAKE c, i
  <2>1. CASE c \in Chans
    <3>1. /\ Len(ch[c].log) <= Len(dh[c].log) /\ \A j \in 1..Len(ch[c].log) : dh[c].log[j] = ch[c].log[j]
          /\ \A j \in (Len(ch[c].log) + 1)..Len(dh[c].log) : dh[c].log[j].cmd = "REF"
      BY <2>1 DEF Refreshed
    <3>2. Len(ch[c].log) \in Nat /\ Len(dh[c].log) \in Nat
      BY <1>1, <2>1, ChannelFields
    <3>3. CASE i \in 1..Len(ch[c].log)
      <4>1. i \in 1..Len(dh[c].log) /\ dh[c].log[i] = ch[c].log[i]
        BY <3>1, <3>2, <3>3
      <4>2. QED BY <1>2, <1>3, <2>1, <3>3, <4>1
    <3>4. CASE i \notin 1..Len(ch[c].log)
      <4>1. i \in 1..Len(dh[c].log) => i \in (Len(ch[c].log) + 1)..Len(dh[c].log)
        BY <3>2, <3>4
      <4>2. i \in 1..Len(dh[c].log) => dh[c].log[i].cmd = "REF"
        BY <3>1, <4>1
      <4>3. QED BY <1>2, <1>3, <3>4, <4>2
    <3>5. QED BY <3>3, <3>4
  <2>2. CASE c \notin Chans
    BY <1>2, <1>3, <2>2
  <2>3. QED BY <2>1, <2>2
<1>5. (\A z \in WritesIn(dh) : z = <<z[1], z[2]>>) /\ (\A z \in WritesIn(ch) : z = <<z[1], z[2]>>)
  BY WritesAre
<1>6. \A z : z \in WritesIn(dh) <=> z \in WritesIn(ch)
  <2> TAKE z
  <2>1. CASE z = <<z[1], z[2]>>
    BY <1>4, <2>1
  <2>2. CASE z # <<z[1], z[2]>>
    BY <1>5, <2>2
  <2>3. QED BY <2>1, <2>2
<1>7. QED BY <1>6

------------------------------------------------------------------------------
(* What the write queue's operations do. *)

\* Nothing is taken back from s to r, and what no longer waits went to the DRAM.
Gone(s, r, q) ==
  LET l == s.chan[q.to.ch].log
      m == r.chan[q.to.ch].log
  IN  \E j \in (Len(l) + 1)..Len(m) :
        m[j].cmd = "COL" /\ m[j].w /\ Target(m[j]) = <<q.to.bank, q.to.row, q.to.col>>
Grown(s, r) ==
  /\ \A c \in Chans : Extends(s.chan[c].log, r.chan[c].log)
  /\ \A q \in ToSet(s.wq) : q \in ToSet(r.wq) \/ Gone(s, r, q)
NoReads(s, r) ==
  \A c \in Chans : \A j \in (Len(s.chan[c].log) + 1)..Len(r.chan[c].log) :
    r.chan[c].log[j].cmd = "COL" => r.chan[c].log[j].w
Moved(s, r) == Grown(s, r) /\ NoReads(s, r) /\ Tally(r) = Tally(s)

\* A history of a history.
LEMMA ExtendsTwice ==
  ASSUME NEW l \in Seq(Command), NEW m \in Seq(Command), NEW o \in Seq(Command),
         Extends(l, m), Extends(m, o)
  PROVE  Extends(l, o)
<1>1. Len(l) \in Nat /\ Len(m) \in Nat /\ Len(o) \in Nat
  OBVIOUS
<1>2. \A i \in 1..Len(l) : i \in 1..Len(m)
  BY <1>1 DEF Extends
<1>3. QED BY <1>1, <1>2 DEF Extends

\* What has gone to the DRAM has gone, whatever comes later.
LEMMA GrownTwice ==
  ASSUME NEW s \in EngineT, NEW r \in EngineT, NEW u \in EngineT, Grown(s, r), Grown(r, u)
  PROVE  Grown(s, u)
<1>1. \A c \in Chans : Extends(s.chan[c].log, u.chan[c].log)
  BY EngineIs, ExtendsTwice DEF Grown
<1>2. ASSUME NEW q \in ToSet(s.wq), q \notin ToSet(u.wq) PROVE Gone(s, u, q)
  <2> DEFINE c == q.to.ch
  <2>1. c \in Chans
    <3>1. PICK i \in 1..Len(s.wq) : q = s.wq[i]
      BY EngineIs DEF ToSet
    <3>2. q.to \in BurstT
      BY <3>1, EngineIs
    <3>3. QED BY <3>2 DEF BurstT, Chans
  <2>2. /\ Len(s.chan[c].log) \in Nat /\ Len(r.chan[c].log) \in Nat /\ Len(u.chan[c].log) \in Nat
        /\ Extends(s.chan[c].log, r.chan[c].log) /\ Extends(r.chan[c].log, u.chan[c].log)
    BY <2>1, EngineIs DEF Grown
  <2>3. CASE q \in ToSet(r.wq)
    <3>1. PICK j \in (Len(r.chan[c].log) + 1)..Len(u.chan[c].log) :
            LET x == u.chan[c].log[j] IN
            x.cmd = "COL" /\ x.w /\ Target(x) = <<q.to.bank, q.to.row, q.to.col>>
      BY <1>2, <2>3 DEF Grown, Gone
    <3>2. \A a, b, e \in Nat : \A i \in (b + 1)..e : a <= b => i \in (a + 1)..e
      OBVIOUS
    <3>3. Len(s.chan[c].log) <= Len(r.chan[c].log)
      BY <2>2 DEF Extends
    <3>4. j \in (Len(s.chan[c].log) + 1)..Len(u.chan[c].log)
      BY <2>2, <3>2, <3>3
    <3>5. QED BY <3>1, <3>4 DEF Gone
  <2>4. CASE q \notin ToSet(r.wq)
    <3>1. PICK j \in (Len(s.chan[c].log) + 1)..Len(r.chan[c].log) :
            LET x == r.chan[c].log[j] IN
            x.cmd = "COL" /\ x.w /\ Target(x) = <<q.to.bank, q.to.row, q.to.col>>
      BY <2>4 DEF Grown, Gone
    <3>2. \A a, b, e \in Nat : \A i \in (a + 1)..b : b <= e => i \in (a + 1)..e /\ i \in 1..b
      OBVIOUS
    <3>3. /\ Len(r.chan[c].log) <= Len(u.chan[c].log)
          /\ \A i \in 1..Len(r.chan[c].log) : u.chan[c].log[i] = r.chan[c].log[i]
      BY <2>2 DEF Extends
    <3>4. j \in (Len(s.chan[c].log) + 1)..Len(u.chan[c].log) /\ u.chan[c].log[j] = r.chan[c].log[j]
      BY <2>2, <3>2, <3>3
    <3>5. QED BY <3>1, <3>4 DEF Gone
  <2>5. QED BY <2>3, <2>4
<1>3. QED BY <1>1, <1>2 DEF Grown

\* Writes that move from the queue to the DRAM, and then more of them.
LEMMA MovedTwice ==
  ASSUME NEW s \in EngineT, NEW r \in EngineT, NEW u \in EngineT, Moved(s, r), Moved(r, u)
  PROVE  Moved(s, u)
<1>1. Grown(s, u) /\ Tally(u) = Tally(s)
  BY GrownTwice DEF Moved
<1>2. NoReads(s, u)
  <2> SUFFICES ASSUME NEW c \in Chans, NEW j \in (Len(s.chan[c].log) + 1)..Len(u.chan[c].log),
                      u.chan[c].log[j].cmd = "COL"
               PROVE  u.chan[c].log[j].w
    BY DEF NoReads
  <2>1. /\ Len(s.chan[c].log) \in Nat /\ Len(r.chan[c].log) \in Nat /\ Len(u.chan[c].log) \in Nat
        /\ Extends(r.chan[c].log, u.chan[c].log)
    BY EngineIs DEF Moved, Grown
  <2>2. CASE j <= Len(r.chan[c].log)
    <3>1. j \in (Len(s.chan[c].log) + 1)..Len(r.chan[c].log) /\ u.chan[c].log[j] = r.chan[c].log[j]
      BY <2>1, <2>2 DEF Extends
    <3>2. QED BY <3>1 DEF Moved, NoReads
  <2>3. CASE ~(j <= Len(r.chan[c].log))
    <3>1. j \in (Len(r.chan[c].log) + 1)..Len(u.chan[c].log)
      BY <2>1, <2>3
    <3>2. QED BY <3>1 DEF Moved, NoReads
  <2>4. QED BY <2>2, <2>3
<1>3. QED BY <1>1, <1>2 DEF Moved

\* Nothing moves.
LEMMA MovedNot ==
  ASSUME NEW s \in EngineT, NEW r, r.chan = s.chan, r.wq = s.wq, r.merged = s.merged
  PROVE  Moved(s, r)
<1>1. \A c \in Chans : Len(s.chan[c].log) \in Nat
  BY EngineIs
<1>2. Tally(r) = Tally(s)
  BY DEF Tally
<1>3. QED BY <1>1, <1>2 DEF Moved, Grown, NoReads, Extends

\* The oldest write of the queue, and the rest of it.
LEMMA QueueTail ==
  ASSUME NEW q \in Seq(QueuedT), q # <<>>
  PROVE  /\ Head(q) = q[1] /\ Head(q) \in QueuedT /\ Tail(q) \in Seq(QueuedT)
         /\ Len(q) \in Nat /\ Len(q) > 0 /\ Len(Tail(q)) = Len(q) - 1 /\ Len(Tail(q)) \in Nat
         /\ \A i \in 1..(Len(q) - 1) : Tail(q)[i] = q[i + 1]
         /\ Distinct(q) => Distinct(Tail(q))
         /\ \A x \in ToSet(q) : x = Head(q) \/ x \in ToSet(Tail(q))
<1>1. /\ Head(q) \in QueuedT /\ Tail(q) \in Seq(QueuedT) /\ Len(Tail(q)) = Len(q) - 1
      /\ \A i \in 1..Len(Tail(q)) : Tail(q)[i] = q[i + 1]
  BY HeadTailProperties
<1>2. Len(q) \in Nat /\ Len(q) > 0 /\ DOMAIN q = 1..Len(q) /\ Head(q) = q[1]
  OBVIOUS
<1>3. PICK u \in Seq(QueuedT) : u = Tail(q)
  BY <1>1
<1>4. DOMAIN u = 1..Len(u) /\ Len(u) = Len(q) - 1 /\ Len(u) \in Nat
      /\ \A i \in 1..Len(u) : u[i] = q[i + 1]
  BY <1>1, <1>2, <1>3
<1>5. Distinct(q) => Distinct(u)
  <2> SUFFICES ASSUME Distinct(q), NEW i \in 1..Len(u), NEW j \in 1..Len(u),
                      u[i].to.addr = u[j].to.addr
               PROVE  i = j
    BY <1>4 DEF Distinct
  <2>1. i + 1 \in DOMAIN q /\ j + 1 \in DOMAIN q /\ q[i + 1].to.addr = q[j + 1].to.addr
    BY <1>2, <1>4
  <2>2. i + 1 = j + 1
    BY <2>1 DEF Distinct
  <2>3. QED BY <1>4, <2>2
<1>6. \A x \in ToSet(q) : x = q[1] \/ x \in ToSet(u)
  <2> SUFFICES ASSUME NEW i \in 1..Len(q) PROVE q[i] = q[1] \/ q[i] \in ToSet(u)
    BY <1>2 DEF ToSet
  <2>1. CASE i = 1
    BY <2>1
  <2>2. CASE i # 1
    <3>1. i - 1 \in 1..Len(u) /\ (i - 1) + 1 = i
      BY <1>2, <1>4, <2>2
    <3>2. u[i - 1] = q[i]
      BY <1>4, <3>1
    <3>3. QED BY <1>4, <3>1, <3>2 DEF ToSet
  <2>3. QED BY <2>1, <2>2
<1>7. QED BY <1>1, <1>2, <1>3, <1>4, <1>5, <1>6

\* r is s after the oldest write waiting was sent to the DRAM.
Issued(s, r, due) ==
  LET k == Head(s.wq).to IN
  /\ r \in Engines /\ Moved(s, r)
  /\ r.wq = Tail(s.wq) /\ r.leaving = Append(s.leaving, r.done)
  /\ r.merged = s.merged /\ r.all = s.all /\ r.at = s.at
  /\ BurstMade(s.chan[k.ch], r.chan[k.ch], k, TRUE, due) /\ r.done = r.chan[k.ch].bus_free
  /\ \A c \in Chans : c # k.ch => r.chan[c] = s.chan[c]

\* issue_oldest() makes the burst of the oldest write and keeps its slot until its data
\* has left.
LEMMA IssueIs ==
  ASSUME NEW s \in Engines, s.wq # <<>>, NEW t \in Int, NEW due \in Int
  PROVE  Issued(s, IssueOldest(s, t, due), due)
<1> DEFINE q == Head(s.wq)
           k == q.to
           s1 == [s EXCEPT !.wq = Tail(s.wq)]
           b == Burst(s1, Later(t, q.arrive), k, TRUE, due)
           r == [b EXCEPT !.leaving = Append(b.leaving, b.done)]
<1>1. s \in EngineT /\ Distinct(s.wq) /\ s.wq \in Seq(QueuedT)
  BY EngineIs DEF Engines
<1>2. /\ q = s.wq[1] /\ q \in QueuedT /\ Tail(s.wq) \in Seq(QueuedT)
      /\ Len(s.wq) \in Nat /\ Len(Tail(s.wq)) = Len(s.wq) - 1 /\ Distinct(Tail(s.wq))
      /\ \A x \in ToSet(s.wq) : x = q \/ x \in ToSet(Tail(s.wq))
  BY <1>1, QueueTail
<1>3. r = IssueOldest(s, t, due)
  BY DEF IssueOldest, Leaving
<1> HIDE DEF q
<1>4. k \in BurstT /\ q.arrive \in Int /\ Later(t, q.arrive) \in Int
  BY <1>2 DEF QueuedT, Later
<1>5. /\ s1 \in EngineT /\ s1.chan = s.chan /\ s1.wq = Tail(s.wq) /\ s1.leaving = s.leaving
      /\ s1.merged = s.merged /\ s1.all = s.all /\ s1.at = s.at
  BY <1>1, <1>2 DEF EngineT
<1> HIDE DEF s1, k
<1>6. Burstly(s1, b, k, TRUE, due)
  BY <1>4, <1>5, BurstKeeps
<1> HIDE DEF b
<1>7. /\ b \in EngineT /\ b.wq = Tail(s.wq) /\ b.leaving = s.leaving /\ b.merged = s.merged
      /\ b.all = s.all /\ b.at = s.at
      /\ BurstMade(s.chan[k.ch], b.chan[k.ch], k, TRUE, due) /\ b.done = b.chan[k.ch].bus_free
      /\ \A c \in Chans : c # k.ch => b.chan[c] = s.chan[c]
  BY <1>5, <1>6 DEF Burstly
<1>8. Append(b.leaving, b.done) \in Seq(Int)
  <2>1. b.leaving \in Seq(Int) /\ b.done \in Int
    BY <1>7, EngineIs
  <2>2. QED BY <2>1, AppendIs
<1>9. /\ r \in EngineT /\ r.wq = Tail(s.wq) /\ r.leaving = Append(s.leaving, r.done)
      /\ r.merged = s.merged /\ r.all = s.all /\ r.at = s.at /\ r.chan = b.chan /\ r.done = b.done
  BY <1>7, <1>8 DEF EngineT
<1> HIDE DEF r
<1>10. r \in Engines
  BY <1>2, <1>9 DEF Engines
<1>11. k.ch \in Chans
  BY <1>4 DEF BurstT, Chans
<1>12. Tally(r) = Tally(s)
  <2>1. s.chan \in [Chans -> Channels] /\ r.chan \in [Chans -> Channels] /\ s.merged \in Int
    BY <1>1, <1>9, EngineIs
  <2>2. /\ BurstMade(s.chan[k.ch], r.chan[k.ch], k, TRUE, due) /\ TRUE \in BOOLEAN
        /\ \A c \in Chans : c # k.ch => r.chan[c] = s.chan[c]
    BY <1>7, <1>9
  <2>3. Cardinality(WritesIn(r.chan)) = Cardinality(WritesIn(s.chan)) + 1
    <3> DEFINE ch == s.chan
               dh == r.chan
    <3>1. /\ ch \in [Chans -> Channels] /\ dh \in [Chans -> Channels]
          /\ BurstMade(ch[k.ch], dh[k.ch], k, TRUE, due)
          /\ \A c \in Chans : c # k.ch => dh[c] = ch[c]
      BY <2>1, <2>2
    <3> HIDE DEF ch, dh
    <3>2. Cardinality(WritesIn(dh)) = Cardinality(WritesIn(ch)) + 1
      BY <1>4, <3>1, OneMoreWrite
    <3>3. QED BY <3>2 DEF ch, dh
  <2>4. Cardinality(WritesIn(s.chan)) \in Nat
    BY <2>1, WritesAre
  <2>5. \A g, x, y \in Int : g + (y - 1) + (x + 1) = g + y + x
    OBVIOUS
  <2>6. Len(r.wq) = Len(s.wq) - 1 /\ r.merged = s.merged
    BY <1>2, <1>9
  <2>7. QED
    <3> HIDE DEF r
    <3>1. PICK x \in Nat : x = Cardinality(WritesIn(s.chan))
      BY <2>4
    <3>2. PICK y \in Nat : y = Len(s.wq)
      BY <1>2
    <3>3. PICK g \in Int : g = s.merged
      BY <2>1
    <3>4. Tally(s) = g + y + x
      BY <3>1, <3>2, <3>3 DEF Tally
    <3>5. Tally(r) = g + (y - 1) + (x + 1)
      BY <2>3, <2>6, <3>1, <3>2, <3>3 DEF Tally
    <3>6. QED BY <3>4, <3>5
<1>13. \A c \in Chans : Len(s.chan[c].log) \in Nat /\ Len(r.chan[c].log) \in Nat
  BY <1>1, <1>9, EngineIs
<1>14. \A c \in Chans : Extends(s.chan[c].log, r.chan[c].log)
  <2> TAKE c \in Chans
  <2>1. CASE c = k.ch
    BY <1>7, <1>9, <2>1 DEF BurstMade
  <2>2. CASE c # k.ch
    BY <1>7, <1>9, <1>13, <2>2 DEF Extends
  <2>3. QED BY <2>1, <2>2
<1> DEFINE l == s.chan[k.ch].log
           m == r.chan[k.ch].log
           y == m[Len(m)]
<1>15. /\ Len(l) \in Nat /\ Len(m) \in Nat /\ Len(l) < Len(m)
       /\ \A i \in (Len(l) + 1)..(Len(m) - 1) : m[i].cmd # "COL"
       /\ y.cmd = "COL" /\ y.w = TRUE /\ y.bank = k.bank /\ y.row = k.row /\ y.col = k.col
  BY <1>7, <1>9, <1>11, <1>13 DEF BurstMade
<1>16. Gone(s, r, q)
  <2>1. Len(m) \in (Len(l) + 1)..Len(m)
    BY <1>15
  <2>2. Target(y) = <<q.to.bank, q.to.row, q.to.col>>
    BY <1>15 DEF Target, k
  <2>3. QED BY <1>15, <2>1, <2>2 DEF Gone, k
<1>17. Grown(s, r)
  BY <1>2, <1>9, <1>14, <1>16 DEF Grown
<1>18. NoReads(s, r)
  <2> SUFFICES ASSUME NEW c \in Chans, NEW j \in (Len(s.chan[c].log) + 1)..Len(r.chan[c].log),
                      r.chan[c].log[j].cmd = "COL"
               PROVE  r.chan[c].log[j].w
    BY DEF NoReads
  <2>1. CASE c = k.ch
    <3>1. j \in (Len(l) + 1)..(Len(m) - 1) \/ j = Len(m)
      BY <1>15, <2>1
    <3>2. QED BY <1>15, <2>1, <3>1
  <2>2. CASE c # k.ch
    <3>1. r.chan[c] = s.chan[c]
      BY <1>7, <1>9, <2>2
    <3>2. QED BY <1>13, <3>1
  <2>3. QED BY <2>1, <2>2
<1>19. Moved(s, r)
  BY <1>12, <1>17, <1>18 DEF Moved
<1>20. Issued(s, r, due)
  BY <1>7, <1>9, <1>10, <1>19 DEF Issued, k, q
<1>21. QED BY <1>3, <1>20

\* The write queue's loops and that of access(), turn by turn, as RefreshIn.
LEMMA DrainIn ==
  ASSUME NEW s, NEW t, Len(s.wq) \in Nat, NEW V, s \in V[0],
         \A k \in 1..Len(s.wq) : \A x \in V[k - 1] : DrainTurn(x, t) \in V[k]
  PROVE  DrainIdle(s, t) \in V[Len(s.wq)]
<1> DEFINE N == Len(s.wq)
           Turn(x, k) == DrainTurn(x, t)
           G == [k \in 1..N |-> [x \in V[k - 1] |-> Turn(x, k)]]
           Is(f) == f = [i \in 0..N |-> IF i = 0 THEN s ELSE Turn(f[i - 1], i)]
           f0 == CHOOSE f : Is(f)
<1>1. DrainIdle(s, t) = f0[N]
  BY DEF DrainIdle, Loop
<1>2. N \in Nat /\ \A k \in 1..N : \A x \in V[k - 1] : Turn(x, k) \in V[k]
  OBVIOUS
<1> HIDE DEF N, Turn
<1>3. \A k \in 1..N : \A x \in V[k - 1] : G[k][x] = Turn(x, k)
  OBVIOUS
<1> HIDE DEF G
<1>4. PICK g : IsRun(g, s, G, V, N)
  <2>1. Leads(G, V, N)
    BY <1>2, <1>3 DEF Leads
  <2>2. QED BY <1>2, <2>1, Iterates
<1>5. Is(g)
  <2>1. \A k \in 0..N : k # 0 => k - 1 \in 0..N /\ k \in 1..N
    BY <1>2
  <2>2. \A k \in 0..N : g[k] = IF k = 0 THEN s ELSE Turn(g[k - 1], k)
    BY <1>2, <1>3, <1>4, <2>1 DEF IsRun
  <2>3. QED BY <1>4, <2>2 DEF IsRun
<1>6. f0[0] = s /\ \A k \in 1..N : f0[k] = Turn(f0[k - 1], k)
  <2>1. Is(f0)
    BY <1>5
  <2> HIDE DEF f0
  <2>2. QED BY <1>2, <2>1
<1> HIDE DEF f0, Is
<1>7. f0[0] \in V[0] /\ \A k \in 1..N : f0[k - 1] \in V[k - 1] => f0[k] \in V[k]
  BY <1>2, <1>6
<1>8. f0[N] \in V[N]
  BY <1>2, <1>7, StaysIn
<1>9. QED BY <1>1, <1>8 DEF N

\* retire().
LEMMA RetireIn ==
  ASSUME NEW s, NEW t, Len(s.leaving) \in Nat, NEW V, s \in V[0],
         \A k \in 1..Len(s.leaving) : \A x \in V[k - 1] : RetireTurn(x, t) \in V[k]
  PROVE  Retire(s, t) \in V[Len(s.leaving)]
<1> DEFINE N == Len(s.leaving)
           Turn(x, k) == RetireTurn(x, t)
           G == [k \in 1..N |-> [x \in V[k - 1] |-> Turn(x, k)]]
           Is(f) == f = [i \in 0..N |-> IF i = 0 THEN s ELSE Turn(f[i - 1], i)]
           f0 == CHOOSE f : Is(f)
<1>1. Retire(s, t) = f0[N]
  BY DEF Retire, Loop
<1>2. N \in Nat /\ \A k \in 1..N : \A x \in V[k - 1] : Turn(x, k) \in V[k]
  OBVIOUS
<1> HIDE DEF N, Turn
<1>3. \A k \in 1..N : \A x \in V[k - 1] : G[k][x] = Turn(x, k)
  OBVIOUS
<1> HIDE DEF G
<1>4. PICK g : IsRun(g, s, G, V, N)
  <2>1. Leads(G, V, N)
    BY <1>2, <1>3 DEF Leads
  <2>2. QED BY <1>2, <2>1, Iterates
<1>5. Is(g)
  <2>1. \A k \in 0..N : k # 0 => k - 1 \in 0..N /\ k \in 1..N
    BY <1>2
  <2>2. \A k \in 0..N : g[k] = IF k = 0 THEN s ELSE Turn(g[k - 1], k)
    BY <1>2, <1>3, <1>4, <2>1 DEF IsRun
  <2>3. QED BY <1>4, <2>2 DEF IsRun
<1>6. f0[0] = s /\ \A k \in 1..N : f0[k] = Turn(f0[k - 1], k)
  <2>1. Is(f0)
    BY <1>5
  <2> HIDE DEF f0
  <2>2. QED BY <1>2, <2>1
<1> HIDE DEF f0, Is
<1>7. f0[0] \in V[0] /\ \A k \in 1..N : f0[k - 1] \in V[k - 1] => f0[k] \in V[k]
  BY <1>2, <1>6
<1>8. f0[N] \in V[N]
  BY <1>2, <1>7, StaysIn
<1>9. QED BY <1>1, <1>8 DEF N

\* The wait for a slot.
LEMMA RoomIn ==
  ASSUME NEW s, (Len(s.wq) + Len(s.leaving)) \in Nat, NEW V, s \in V[0],
         \A k \in 1..(Len(s.wq) + Len(s.leaving)) : \A x \in V[k - 1] : RoomTurn(x) \in V[k]
  PROVE  MakeRoom(s) \in V[(Len(s.wq) + Len(s.leaving))]
<1> DEFINE N == (Len(s.wq) + Len(s.leaving))
           Turn(x, k) == RoomTurn(x)
           G == [k \in 1..N |-> [x \in V[k - 1] |-> Turn(x, k)]]
           Is(f) == f = [i \in 0..N |-> IF i = 0 THEN s ELSE Turn(f[i - 1], i)]
           f0 == CHOOSE f : Is(f)
<1>1. MakeRoom(s) = f0[N]
  BY DEF MakeRoom, Loop
<1>2. N \in Nat /\ \A k \in 1..N : \A x \in V[k - 1] : Turn(x, k) \in V[k]
  OBVIOUS
<1> HIDE DEF N, Turn
<1>3. \A k \in 1..N : \A x \in V[k - 1] : G[k][x] = Turn(x, k)
  OBVIOUS
<1> HIDE DEF G
<1>4. PICK g : IsRun(g, s, G, V, N)
  <2>1. Leads(G, V, N)
    BY <1>2, <1>3 DEF Leads
  <2>2. QED BY <1>2, <2>1, Iterates
<1>5. Is(g)
  <2>1. \A k \in 0..N : k # 0 => k - 1 \in 0..N /\ k \in 1..N
    BY <1>2
  <2>2. \A k \in 0..N : g[k] = IF k = 0 THEN s ELSE Turn(g[k - 1], k)
    BY <1>2, <1>3, <1>4, <2>1 DEF IsRun
  <2>3. QED BY <1>4, <2>2 DEF IsRun
<1>6. f0[0] = s /\ \A k \in 1..N : f0[k] = Turn(f0[k - 1], k)
  <2>1. Is(f0)
    BY <1>5
  <2> HIDE DEF f0
  <2>2. QED BY <1>2, <2>1
<1> HIDE DEF f0, Is
<1>7. f0[0] \in V[0] /\ \A k \in 1..N : f0[k - 1] \in V[k - 1] => f0[k] \in V[k]
  BY <1>2, <1>6
<1>8. f0[N] \in V[N]
  BY <1>2, <1>7, StaysIn
<1>9. QED BY <1>1, <1>8 DEF N

\* A batch.
LEMMA BatchIn ==
  ASSUME NEW s, NEW t, Len(s.wq) \in Nat, NEW V, s \in V[0],
         \A k \in 1..Len(s.wq) : \A x \in V[k - 1] : BatchTurn(x, t) \in V[k]
  PROVE  Batch(s, t) \in V[Len(s.wq)]
<1> DEFINE N == Len(s.wq)
           Turn(x, k) == BatchTurn(x, t)
           G == [k \in 1..N |-> [x \in V[k - 1] |-> Turn(x, k)]]
           Is(f) == f = [i \in 0..N |-> IF i = 0 THEN s ELSE Turn(f[i - 1], i)]
           f0 == CHOOSE f : Is(f)
<1>1. Batch(s, t) = f0[N]
  BY DEF Batch, Loop
<1>2. N \in Nat /\ \A k \in 1..N : \A x \in V[k - 1] : Turn(x, k) \in V[k]
  OBVIOUS
<1> HIDE DEF N, Turn
<1>3. \A k \in 1..N : \A x \in V[k - 1] : G[k][x] = Turn(x, k)
  OBVIOUS
<1> HIDE DEF G
<1>4. PICK g : IsRun(g, s, G, V, N)
  <2>1. Leads(G, V, N)
    BY <1>2, <1>3 DEF Leads
  <2>2. QED BY <1>2, <2>1, Iterates
<1>5. Is(g)
  <2>1. \A k \in 0..N : k # 0 => k - 1 \in 0..N /\ k \in 1..N
    BY <1>2
  <2>2. \A k \in 0..N : g[k] = IF k = 0 THEN s ELSE Turn(g[k - 1], k)
    BY <1>2, <1>3, <1>4, <2>1 DEF IsRun
  <2>3. QED BY <1>4, <2>2 DEF IsRun
<1>6. f0[0] = s /\ \A k \in 1..N : f0[k] = Turn(f0[k - 1], k)
  <2>1. Is(f0)
    BY <1>5
  <2> HIDE DEF f0
  <2>2. QED BY <1>2, <2>1
<1> HIDE DEF f0, Is
<1>7. f0[0] \in V[0] /\ \A k \in 1..N : f0[k - 1] \in V[k - 1] => f0[k] \in V[k]
  BY <1>2, <1>6
<1>8. f0[N] \in V[N]
  BY <1>2, <1>7, StaysIn
<1>9. QED BY <1>1, <1>8 DEF N

\* access().
LEMMA GranulesIn ==
  ASSUME NEW s, NEW arrive, NEW line, NEW span, NEW w, (nb * span) \in Nat, NEW V, s \in V[0],
         \A k \in 1..(nb * span) : \A x \in V[k - 1] : OneBurst(x, arrive, Decode(line * nb + k - 1), w) \in V[k]
  PROVE  Granules(s, arrive, line, span, w) \in V[(nb * span)]
<1> DEFINE N == (nb * span)
           Turn(x, k) == OneBurst(x, arrive, Decode(line * nb + k - 1), w)
           G == [k \in 1..N |-> [x \in V[k - 1] |-> Turn(x, k)]]
           Is(f) == f = [i \in 0..N |-> IF i = 0 THEN s ELSE Turn(f[i - 1], i)]
           f0 == CHOOSE f : Is(f)
<1>1. Granules(s, arrive, line, span, w) = f0[N]
  BY DEF Granules, Loop
<1>2. N \in Nat /\ \A k \in 1..N : \A x \in V[k - 1] : Turn(x, k) \in V[k]
  OBVIOUS
<1> HIDE DEF N, Turn
<1>3. \A k \in 1..N : \A x \in V[k - 1] : G[k][x] = Turn(x, k)
  OBVIOUS
<1> HIDE DEF G
<1>4. PICK g : IsRun(g, s, G, V, N)
  <2>1. Leads(G, V, N)
    BY <1>2, <1>3 DEF Leads
  <2>2. QED BY <1>2, <2>1, Iterates
<1>5. Is(g)
  <2>1. \A k \in 0..N : k # 0 => k - 1 \in 0..N /\ k \in 1..N
    BY <1>2
  <2>2. \A k \in 0..N : g[k] = IF k = 0 THEN s ELSE Turn(g[k - 1], k)
    BY <1>2, <1>3, <1>4, <2>1 DEF IsRun
  <2>3. QED BY <1>4, <2>2 DEF IsRun
<1>6. f0[0] = s /\ \A k \in 1..N : f0[k] = Turn(f0[k - 1], k)
  <2>1. Is(f0)
    BY <1>5
  <2> HIDE DEF f0
  <2>2. QED BY <1>2, <2>1
<1> HIDE DEF f0, Is
<1>7. f0[0] \in V[0] /\ \A k \in 1..N : f0[k - 1] \in V[k - 1] => f0[k] \in V[k]
  BY <1>2, <1>6
<1>8. f0[N] \in V[N]
  BY <1>2, <1>7, StaysIn
<1>9. QED BY <1>1, <1>8 DEF N

------------------------------------------------------------------------------
(* The slots of the write queue. *)

Above(q, u) == {i \in 1..Len(q) : q[i] > u}
Ending(ch, u) == {p \in WritesIn(ch) : ch[p[1]].log[p[2]].end > u}

\* There are at most as many of these as slots.
LEMMA AboveIs ==
  ASSUME NEW q \in Seq(Int), NEW u \in Int
  PROVE  IsFiniteSet(Above(q, u)) /\ Cardinality(Above(q, u)) \in Nat
                                  /\ Cardinality(Above(q, u)) <= Len(q)
<1>1. Len(q) \in Nat /\ 1 \in Int /\ Len(q) \in Int
  OBVIOUS
<1>2. IsFiniteSet(1..Len(q)) /\ Cardinality(1..Len(q)) = Len(q)
  <2>1. Cardinality(1..Len(q)) = IF 1 > Len(q) THEN 0 ELSE Len(q) - 1 + 1
    BY <1>1, FS_Interval
  <2>2. IsFiniteSet(1..Len(q))
    BY <1>1, FS_Interval
  <2>3. QED BY <1>1, <2>1, <2>2
<1>3. Above(q, u) \in SUBSET (1..Len(q))
  BY DEF Above
<1>4. IsFiniteSet(Above(q, u)) /\ Cardinality(Above(q, u)) <= Len(q)
  BY <1>2, <1>3, FS_Subset
<1>5. QED BY <1>4, FS_CardinalityType

\* One more slot, taken until e.
LEMMA AboveAppend ==
  ASSUME NEW q \in Seq(Int), NEW e \in Int, NEW u \in Int
  PROVE  Cardinality(Above(Append(q, e), u)) = Cardinality(Above(q, u)) + (IF e > u THEN 1 ELSE 0)
<1> DEFINE f == Append(q, e)
           S == Above(q, u)
           m == Len(q) + 1
<1>1. /\ f \in Seq(Int) /\ Len(f) = m /\ f[m] = e /\ Len(q) \in Nat
      /\ \A i \in 1..Len(q) : f[i] = q[i]
  <2>1. Len(f) = m /\ f[Len(f)] = e
    BY AppendIs
  <2>2. QED BY <2>1, AppendIs
<1>2. IsFiniteSet(S) /\ Cardinality(S) \in Nat
  BY AboveIs
<1>3. m \notin S
  BY <1>1 DEF Above
<1> HIDE DEF f
<1>4. \A i \in 1..m : i \in 1..Len(q) \/ i = m
  BY <1>1
<1>5. m \in 1..m /\ \A i \in 1..Len(q) : i \in 1..m
  BY <1>1
<1> HIDE DEF m
<1>6. CASE e > u
  <2>1. Above(f, u) = S \cup {m}
    BY <1>1, <1>4, <1>5, <1>6 DEF Above
  <2>2. Cardinality(S \cup {m}) = Cardinality(S) + 1
    BY <1>2, <1>3, FS_AddElement
  <2>3. QED BY <1>6, <2>1, <2>2 DEF f
<1>7. CASE ~(e > u)
  <2>1. Above(f, u) = S
    BY <1>1, <1>4, <1>5, <1>7 DEF Above
  <2>2. QED BY <1>2, <1>7, <2>1 DEF f
<1>8. QED BY <1>6, <1>7

\* One slot less, which was free by u.
LEMMA AboveTail ==
  ASSUME NEW q \in Seq(Int), q # <<>>, NEW u \in Int, Head(q) <= u
  PROVE  Cardinality(Above(q, u)) <= Cardinality(Above(Tail(q), u))
<1> DEFINE r == Tail(q)
           S == Above(r, u)
           T == Above(q, u)
           f == [i \in S |-> i + 1]
<1>1. /\ Head(q) = q[1] /\ r \in Seq(Int) /\ Len(r) = Len(q) - 1 /\ Len(r) \in Nat
      /\ Len(q) \in Nat /\ \A i \in 1..Len(r) : r[i] = q[i + 1]
  BY HeadTailProperties
<1> HIDE DEF r
<1>2. IsFiniteSet(S)
  BY <1>1, AboveIs
<1>3. \A i \in S : i + 1 \in T
  BY <1>1 DEF Above
<1>4. \A j \in T : j - 1 \in S /\ (j - 1) + 1 = j
  <2> TAKE j \in T
  <2>1. j \in 1..Len(q) /\ q[j] > u /\ j # 1
    BY <1>1 DEF Above
  <2>2. j - 1 \in 1..Len(r) /\ (j - 1) + 1 = j
    BY <1>1, <2>1
  <2>3. r[j - 1] = q[j]
    BY <1>1, <2>2
  <2>4. QED BY <2>1, <2>2, <2>3 DEF Above
<1> HIDE DEF S, T
<1>5. f \in [S -> T]
  BY <1>3
<1>6. \A j \in T : \E i \in S : f[i] = j
  BY <1>4
<1> HIDE DEF f
<1>7. f \in Surjection(S, T)
  BY <1>5, <1>6 DEF Surjection
<1>8. QED BY <1>2, <1>7, FS_Surjection DEF S, T, r

\* The writes that end after u are finitely many.
LEMMA EndingIs ==
  ASSUME NEW ch \in [Chans -> Channels], NEW u \in Int
  PROVE  IsFiniteSet(Ending(ch, u)) /\ Cardinality(Ending(ch, u)) \in Nat
<1>1. IsFiniteSet(WritesIn(ch)) /\ Ending(ch, u) \in SUBSET WritesIn(ch)
  BY WritesAre DEF Ending
<1>2. IsFiniteSet(Ending(ch, u))
  BY <1>1, FS_Subset
<1>3. QED BY <1>2, FS_CardinalityType

\* No write a burst or refreshes leave alone ends at another time.
LEMMA SameEnds ==
  ASSUME NEW ch \in [Chans -> Channels], NEW dh \in [Chans -> Channels], NEW u \in Int,
         \A c \in Chans : Extends(ch[c].log, dh[c].log)
  PROVE  \A p \in WritesIn(ch) : p \in Ending(dh, u) => p \in Ending(ch, u)
<1> SUFFICES ASSUME NEW p \in WritesIn(ch), p \in Ending(dh, u) PROVE p \in Ending(ch, u)
  OBVIOUS
<1>1. PICK c, i : p = <<c, i>>
  BY WritesAre
<1>2. c \in Chans /\ i \in 1..Len(ch[c].log)
  BY <1>1, WritesAre
<1>3. dh[c].log[i] = ch[c].log[i]
  BY <1>2 DEF Extends
<1>4. p[1] = c /\ p[2] = i
  BY <1>1
<1>5. QED BY <1>3, <1>4 DEF Ending

\* A burst adds itself at most, if its data ends after u.
LEMMA EndingBurst ==
  ASSUME NEW ch \in [Chans -> Channels], NEW dh \in [Chans -> Channels], NEW k \in BurstT,
         NEW w \in BOOLEAN, NEW due, BurstMade(ch[k.ch], dh[k.ch], k, w, due),
         \A c \in Chans : c # k.ch => dh[c] = ch[c], NEW u \in Int
  PROVE  Cardinality(Ending(dh, u)) <=
           Cardinality(Ending(ch, u)) + (IF w /\ dh[k.ch].bus_free > u THEN 1 ELSE 0)
<1> DEFINE p == <<k.ch, Len(dh[k.ch].log)>>
           S == Ending(ch, u)
           T == Ending(dh, u)
<1>1. WritesIn(dh) = IF w THEN WritesIn(ch) \cup {p} ELSE WritesIn(ch)
  BY BurstWrites
<1>2. \A c \in Chans : Extends(ch[c].log, dh[c].log)
  <2> TAKE c \in Chans
  <2>1. CASE c = k.ch
    BY <2>1 DEF BurstMade
  <2>2. CASE c # k.ch
    <3>1. dh[c] = ch[c] /\ ch[c].log \in Seq(Command)
      BY <2>2, ChannelFields DEF Channels
    <3>2. QED BY <3>1 DEF Extends
  <2>3. QED BY <2>1, <2>2
<1>3. \A z \in WritesIn(ch) : z \in T => z \in S
  BY <1>2, SameEnds
<1>4. IsFiniteSet(S) /\ Cardinality(S) \in Nat
  BY EndingIs
<1>5. dh[k.ch].log[Len(dh[k.ch].log)].end = dh[k.ch].bus_free
  BY DEF BurstMade
<1>6. p \in T => dh[k.ch].bus_free > u
  <2>1. p[1] = k.ch /\ p[2] = Len(dh[k.ch].log)
    OBVIOUS
  <2>2. QED BY <1>5, <2>1 DEF Ending
<1>7. T \subseteq WritesIn(dh)
  BY DEF Ending
<1> HIDE DEF p, S, T
<1>8. CASE w /\ dh[k.ch].bus_free > u
  <2>1. T \subseteq S \cup {p}
    BY <1>1, <1>3, <1>7
  <2>2. Cardinality(T) <= Cardinality(S) + 1
    BY <1>4, <2>1, CardinalityGrows
  <2>3. QED BY <1>8, <2>2 DEF S, T
<1>9. CASE ~(w /\ dh[k.ch].bus_free > u)
  <2>1. T \in SUBSET S
    BY <1>1, <1>3, <1>6, <1>7, <1>9
  <2>2. Cardinality(T) <= Cardinality(S)
    BY <1>4, <2>1, FS_Subset
  <2>3. QED BY <1>4, <1>9, <2>2 DEF S, T
<1>10. QED BY <1>8, <1>9

\* Refreshes add none.
LEMMA EndingSame ==
  ASSUME NEW ch \in [Chans -> Channels], NEW dh \in [Chans -> Channels],
         \A c \in Chans : Refreshed(ch[c], dh[c]), NEW u \in Int
  PROVE  Cardinality(Ending(dh, u)) <= Cardinality(Ending(ch, u))
<1>1. WritesIn(dh) = WritesIn(ch)
  BY SameWrites
<1>2. \A c \in Chans : Extends(ch[c].log, dh[c].log)
  BY DEF Refreshed, Extends
<1>3. \A z \in WritesIn(ch) : z \in Ending(dh, u) => z \in Ending(ch, u)
  BY <1>2, SameEnds
<1>4. Ending(dh, u) \in SUBSET Ending(ch, u)
  BY <1>1, <1>3 DEF Ending
<1>5. IsFiniteSet(Ending(ch, u))
  BY EndingIs
<1>6. QED BY <1>4, <1>5, FS_Subset

Total(s) == Len(s.wq) + Len(s.leaving)

\* The writes that still occupy a slot are those whose data ends last, in order;
\* whatever has left ended by D.
Slots(s, D) ==
  /\ channels = 1 /\ D <= s.chan[0].bus_free
  /\ \A i \in 1..Len(s.leaving) :
       /\ D <= s.leaving[i] /\ s.leaving[i] <= s.chan[0].bus_free
       /\ \A j \in 1..Len(s.leaving) : i <= j => s.leaving[i] <= s.leaving[j]
  /\ \A u \in Int : D <= u => Cardinality(Ending(s.chan, u)) <= Cardinality(Above(s.leaving, u))

\* The last write accepted came at D or later.
Late(s, D) == s.wq # <<>> => D <= s.wq[Len(s.wq)].arrive

\* r is s after some of the writes waiting were sent to the DRAM.
Served(s, r) ==
  /\ r \in Engines /\ Moved(s, r) /\ Total(r) = Total(s)
  /\ ToSet(r.wq) \subseteq ToSet(s.wq)
  /\ \A D \in Int : (Slots(s, D) => Slots(r, D)) /\ (Late(s, D) => Late(r, D))

\* Some are sent, and then some more.
LEMMA ServedTwice ==
  ASSUME NEW s \in Engines, NEW r \in Engines, NEW u \in Engines, Served(s, r), Served(r, u)
  PROVE  Served(s, u)
<1>1. s \in EngineT /\ r \in EngineT /\ u \in EngineT
  BY DEF Engines
<1>2. Moved(s, u)
  BY <1>1, MovedTwice DEF Served
<1>3. QED BY <1>2 DEF Served

\* None is sent.
LEMMA ServedNot ==
  ASSUME NEW s \in Engines
  PROVE  Served(s, s)
<1>1. Moved(s, s)
  BY MovedNot DEF Engines
<1>2. QED BY <1>1 DEF Served

\* issue_oldest() sends one, and its slot is the last to be free.
LEMMA IssueServes ==
  ASSUME NEW s \in Engines, s.wq # <<>>, NEW r, NEW due, Issued(s, r, due)
  PROVE  Served(s, r)
<1> DEFINE k == Head(s.wq).to
           q == s.leaving
           e == r.done
<1>1. s \in EngineT /\ r \in EngineT
  BY DEF Engines, Issued
<1>2. /\ q \in Seq(Int) /\ e \in Int /\ Len(q) \in Nat /\ s.wq \in Seq(QueuedT)
      /\ s.chan \in [Chans -> Channels] /\ r.chan \in [Chans -> Channels]
  BY <1>1, EngineIs
<1>3. k \in BurstT
  BY <1>2, QueueTail DEF QueuedT
<1>4. k.ch \in Chans
  BY <1>3 DEF BurstT, Chans
<1> HIDE DEF k
<1>5. /\ r.wq = Tail(s.wq) /\ r.leaving = Append(q, e) /\ e = r.chan[k.ch].bus_free
      /\ BurstMade(s.chan[k.ch], r.chan[k.ch], k, TRUE, due)
      /\ \A c \in Chans : c # k.ch => r.chan[c] = s.chan[c]
  BY DEF Issued, k
<1>6. /\ Len(Tail(s.wq)) = Len(s.wq) - 1 /\ Len(s.wq) \in Nat /\ Len(Tail(s.wq)) \in Nat
      /\ \A i \in 1..(Len(s.wq) - 1) : Tail(s.wq)[i] = s.wq[i + 1]
      /\ DOMAIN Tail(s.wq) = 1..Len(Tail(s.wq)) /\ DOMAIN s.wq = 1..Len(s.wq)
  BY <1>2, QueueTail
<1>7. /\ Len(r.leaving) = Len(q) + 1 /\ r.leaving[Len(q) + 1] = e
      /\ \A i \in 1..Len(q) : r.leaving[i] = q[i]
  <2>1. Len(Append(q, e)) = Len(q) + 1 /\ Append(q, e)[Len(Append(q, e))] = e
        /\ \A i \in 1..Len(q) : Append(q, e)[i] = q[i]
    BY <1>2, AppendIs
  <2>2. QED BY <1>5, <2>1
<1> HIDE DEF q, e
<1>8. Total(r) = Total(s)
  <2>1. Len(r.wq) = Len(s.wq) - 1
    BY <1>5, <1>6
  <2>2. Total(s) = Len(s.wq) + Len(q)
    BY DEF Total, q
  <2>3. Total(r) = (Len(s.wq) - 1) + (Len(q) + 1)
    BY <1>7, <2>1 DEF Total
  <2>4. PICK x \in Int, y \in Int : x = Len(s.wq) /\ y = Len(q)
    BY <1>2, <1>6
  <2>5. Total(s) = x + y /\ Total(r) = (x - 1) + (y + 1)
    BY <2>2, <2>3, <2>4
  <2>6. QED BY <2>5
<1>9. ToSet(r.wq) \subseteq ToSet(s.wq)
  <2> SUFFICES ASSUME NEW i \in 1..Len(Tail(s.wq)) PROVE Tail(s.wq)[i] \in ToSet(s.wq)
    BY <1>5, <1>6 DEF ToSet
  <2>1. Tail(s.wq)[i] = s.wq[i + 1] /\ i + 1 \in 1..Len(s.wq)
    BY <1>6
  <2>2. QED BY <1>6, <2>1 DEF ToSet
<1>10. ASSUME NEW D \in Int, Slots(s, D) PROVE Slots(r, D)
  <2>1. channels = 1 /\ k.ch = 0 /\ 0 \in Chans
    BY <1>4, <1>10 DEF Slots, Chans
  <2>2. s.chan[0].bus_free <= e /\ e = r.chan[0].bus_free /\ s.chan[0].bus_free \in Int
    <3>1. s.chan[0].bus_free \in Int
      BY <1>1, <2>1, EngineIs
    <3>2. QED BY <1>5, <2>1, <3>1 DEF BurstMade
  <2>3. \A i \in 1..Len(q) : /\ D <= q[i] /\ q[i] <= s.chan[0].bus_free /\ q[i] \in Int
                             /\ \A j \in 1..Len(q) : i <= j => q[i] <= q[j]
    BY <1>2, <1>10 DEF Slots, q
  <2>4. D <= e
    BY <1>2, <1>10, <2>2 DEF Slots
  <2>5. ASSUME NEW i \in 1..Len(r.leaving)
        PROVE  /\ D <= r.leaving[i] /\ r.leaving[i] <= e
               /\ \A j \in 1..Len(r.leaving) : i <= j => r.leaving[i] <= r.leaving[j]
    <3>1. CASE i = Len(q) + 1
      <4>1. \A j \in 1..Len(r.leaving) : i <= j => j = i
        BY <1>2, <1>7, <3>1
      <4>2. QED BY <1>2, <1>7, <2>4, <3>1, <4>1
    <3>2. CASE i # Len(q) + 1
      <4>1. i \in 1..Len(q)
        BY <1>2, <1>7, <3>2
      <4>2. D <= q[i] /\ q[i] <= e /\ r.leaving[i] = q[i]
        BY <1>2, <1>7, <2>2, <2>3, <4>1
      <4>3. \A j \in 1..Len(r.leaving) : j \in 1..Len(q) \/ j = Len(q) + 1
        BY <1>2, <1>7
      <4>4. QED BY <1>7, <2>3, <4>1, <4>2, <4>3
    <3>3. QED BY <3>1, <3>2
  <2>6. ASSUME NEW u \in Int, D <= u
        PROVE  Cardinality(Ending(r.chan, u)) <= Cardinality(Above(r.leaving, u))
    <3>1. Cardinality(Ending(s.chan, u)) <= Cardinality(Above(q, u))
      BY <1>10, <2>6 DEF Slots, q
    <3>2. Cardinality(Above(r.leaving, u)) = Cardinality(Above(q, u)) + (IF e > u THEN 1 ELSE 0)
      BY <1>2, <1>5, AboveAppend
    <3>3. Cardinality(Ending(r.chan, u)) <= Cardinality(Ending(s.chan, u)) + (IF e > u THEN 1 ELSE 0)
      <4>1. PICK w \in BOOLEAN : w = TRUE
        OBVIOUS
      <4>2. BurstMade(s.chan[k.ch], r.chan[k.ch], k, w, due)
        BY <1>5, <4>1
      <4> DEFINE ch == s.chan
                 dh == r.chan
      <4>3. /\ ch \in [Chans -> Channels] /\ dh \in [Chans -> Channels]
            /\ BurstMade(ch[k.ch], dh[k.ch], k, w, due)
            /\ \A c \in Chans : c # k.ch => dh[c] = ch[c]
        BY <1>2, <1>5, <4>2
      <4> HIDE DEF ch, dh
      <4>4. Cardinality(Ending(dh, u)) <=
              Cardinality(Ending(ch, u)) + (IF w /\ dh[k.ch].bus_free > u THEN 1 ELSE 0)
        BY <1>3, <4>3, EndingBurst
      <4>5. QED BY <1>5, <4>1, <4>4 DEF ch, dh
    <3>4. Cardinality(Above(q, u)) \in Nat /\ Cardinality(Ending(s.chan, u)) \in Nat
          /\ Cardinality(Ending(r.chan, u)) \in Nat
      BY <1>2, AboveIs, EndingIs
    <3>5. QED BY <3>1, <3>2, <3>3, <3>4
  <2>7. QED BY <2>1, <2>2, <2>4, <2>5, <2>6 DEF Slots
<1>11. ASSUME NEW D \in Int, Late(s, D) PROVE Late(r, D)
  <2> SUFFICES ASSUME r.wq # <<>> PROVE D <= r.wq[Len(r.wq)].arrive
    BY DEF Late
  <2>1. Len(Tail(s.wq)) > 0
    <3>1. Tail(s.wq) \in Seq(QueuedT) /\ Tail(s.wq) # <<>>
      BY <1>2, <1>5, QueueTail
    <3>2. QED BY <3>1
  <2>2. Len(s.wq) - 1 \in 1..(Len(s.wq) - 1) /\ (Len(s.wq) - 1) + 1 = Len(s.wq)
    BY <1>6, <2>1
  <2>3. r.wq[Len(r.wq)] = s.wq[Len(s.wq)]
    BY <1>5, <1>6, <2>2
  <2>4. QED BY <1>11, <2>3 DEF Late
<1>12. QED BY <1>8, <1>9, <1>10, <1>11 DEF Served, Issued

\* A refresh that drain_idle() lets go first sends none.
LEMMA RefreshServes ==
  ASSUME NEW s \in Engines, NEW g \in Chans, NEW t \in Int
  PROVE  LET r == [s EXCEPT !.chan[g] = Refresh(s.chan[g], t)] IN
         Served(s, r) /\ r.wq = s.wq
<1> DEFINE d == Refresh(s.chan[g], t)
           H == [s.chan EXCEPT ![g] = d]
           r == [s EXCEPT !.chan = H]
<1>1. s \in EngineT /\ Distinct(s.wq)
  BY DEF Engines
<1>2. s.chan \in [Chans -> Channels] /\ s.chan[g] \in Channels /\ DOMAIN s.chan = Chans
  BY <1>1, EngineIs
<1>3. d \in Channels /\ Refreshed(s.chan[g], d)
  BY <1>2, RefreshIs
<1>4. r = [s EXCEPT !.chan[g] = Refresh(s.chan[g], t)]
  BY DEF EngineT
<1> HIDE DEF d
<1>5. H \in [Chans -> Channels] /\ H[g] = d /\ \A c \in Chans : c # g => H[c] = s.chan[c]
  BY <1>2, <1>3
<1> HIDE DEF H
<1>6. /\ r \in EngineT /\ r.wq = s.wq /\ r.leaving = s.leaving /\ r.merged = s.merged
      /\ r.all = s.all /\ r.at = s.at /\ r.done = s.done /\ r.chan = H
  BY <1>1, <1>5 DEF EngineT
<1> HIDE DEF r
<1>7. r \in Engines /\ Total(r) = Total(s)
  BY <1>1, <1>6 DEF Engines, Total
<1>8. \A c \in Chans : Len(s.chan[c].log) \in Nat /\ s.chan[c] \in ChannelT
  BY <1>1, EngineIs
<1>9. \A c \in Chans : Refreshed(s.chan[c], H[c])
  <2> TAKE c \in Chans
  <2>1. CASE c = g
    BY <1>3, <1>5, <2>1
  <2>2. CASE c # g
    <3>1. s.chan[c].next_refresh <= s.chan[c].next_refresh
      BY <1>8, ChannelFields
    <3>2. H[c] = s.chan[c]
      BY <1>5, <2>2
    <3>3. QED BY <1>8, <3>1, <3>2 DEF Refreshed
  <2>3. QED BY <2>1, <2>2
<1>10. \A c \in Chans : Extends(s.chan[c].log, H[c].log)
  BY <1>9 DEF Refreshed, Extends
<1>11. NoReads(s, r)
  BY <1>6, <1>9 DEF NoReads, Refreshed
<1>12. WritesIn(H) = WritesIn(s.chan)
  BY <1>2, <1>5, <1>9, SameWrites
<1>13. Moved(s, r)
  <2>1. Tally(r) = Tally(s)
    BY <1>6, <1>12 DEF Tally
  <2>2. Grown(s, r)
    BY <1>6, <1>10 DEF Grown
  <2>3. QED BY <1>11, <2>1, <2>2 DEF Moved
<1>14. ASSUME NEW D \in Int, Slots(s, D) PROVE Slots(r, D)
  <2>1. channels = 1 /\ 0 \in Chans
    BY <1>14 DEF Slots, Chans
  <2>2. H[0].bus_free = s.chan[0].bus_free
    BY <1>9, <2>1 DEF Refreshed
  <2>3. ASSUME NEW u \in Int, D <= u
        PROVE  Cardinality(Ending(H, u)) <= Cardinality(Above(s.leaving, u))
    <3>1. Cardinality(Ending(H, u)) <= Cardinality(Ending(s.chan, u))
      BY <1>2, <1>5, <1>9, EndingSame
    <3>2. Cardinality(Ending(s.chan, u)) <= Cardinality(Above(s.leaving, u))
      BY <1>14, <2>3 DEF Slots
    <3>3. Cardinality(Ending(H, u)) \in Nat /\ Cardinality(Ending(s.chan, u)) \in Nat
      BY <1>2, <1>5, EndingIs
    <3>4. Cardinality(Above(s.leaving, u)) \in Nat
      BY <1>1, EngineIs, AboveIs
    <3>5. QED BY <3>1, <3>2, <3>3, <3>4
  <2>4. QED BY <1>6, <1>14, <2>2, <2>3 DEF Slots
<1>15. \A D \in Int : Late(s, D) => Late(r, D)
  BY <1>6 DEF Late
<1>16. Served(s, r) /\ r.wq = s.wq
  BY <1>6, <1>7, <1>13, <1>14, <1>15 DEF Served
<1>17. QED BY <1>4, <1>16

\* A turn of drain_idle().
LEMMA DrainTurnServes ==
  ASSUME NEW s \in Engines, NEW t \in Int
  PROVE  Served(s, DrainTurn(s, t))
<1> DEFINE k == Head(s.wq).to
           start == Later(Head(s.wq).arrive, s.chan[k.ch].order)
           r == [s EXCEPT !.chan[k.ch] = Refresh(s.chan[k.ch], start)]
           late == Plan(r.chan[k.ch], start, k, TRUE).col >= t
<1>1. DrainTurn(s, t) = IF s.wq = <<>> \/ start >= t THEN s
                        ELSE IF late THEN r ELSE IssueOldest(r, start, t)
  BY DEF DrainTurn
<1>2. CASE s.wq = <<>> \/ start >= t
  BY <1>1, <1>2, ServedNot
<1>3. CASE ~(s.wq = <<>> \/ start >= t)
  <2>1. s.wq \in Seq(QueuedT) /\ s.wq # <<>> /\ s \in EngineT
    BY <1>3, EngineIs DEF Engines
  <2>2. k \in BurstT /\ Head(s.wq).arrive \in Int
    BY <2>1, QueueTail DEF QueuedT
  <2> HIDE DEF k
  <2>3. k.ch \in Chans
    BY <2>2 DEF BurstT, Chans
  <2>4. start \in Int
    BY <2>1, <2>2, <2>3, EngineIs DEF Later
  <2> HIDE DEF start, late
  <2>5. Served(s, r) /\ r.wq = s.wq
    BY <2>3, <2>4, RefreshServes
  <2> HIDE DEF r
  <2>6. CASE late
    BY <1>1, <1>3, <2>5, <2>6
  <2>7. CASE ~late
    <3>1. r \in Engines /\ r.wq # <<>>
      BY <2>1, <2>5 DEF Served
    <3>2. Issued(r, IssueOldest(r, start, t), t)
      BY <2>4, <3>1, IssueIs
    <3>3. Served(r, IssueOldest(r, start, t))
      BY <3>1, <3>2, IssueServes
    <3>4. IssueOldest(r, start, t) \in Engines
      BY <3>3 DEF Served
    <3>5. Served(s, IssueOldest(r, start, t))
      BY <2>5, <3>1, <3>3, <3>4, ServedTwice
    <3>6. QED BY <1>1, <1>3, <2>7, <3>5
  <2>8. QED BY <2>6, <2>7
<1>4. QED BY <1>2, <1>3

\* drain_idle() only sends writes that wait, the oldest first.
LEMMA DrainServes ==
  ASSUME NEW s \in Engines, NEW t \in Int
  PROVE  Served(s, DrainIdle(s, t))
<1> DEFINE N == Len(s.wq)
           V == [k \in 0..N |-> {r \in Engines : Served(s, r)}]
<1>1. N \in Nat
  BY EngineIs DEF Engines
<1>2. s \in V[0]
  BY <1>1, ServedNot
<1>3. \A k \in 1..N : \A x \in V[k - 1] : DrainTurn(x, t) \in V[k]
  <2> TAKE k \in 1..N
  <2>1. k - 1 \in 0..N /\ k \in 0..N
    BY <1>1
  <2> SUFFICES ASSUME NEW x \in Engines, Served(s, x)
               PROVE  DrainTurn(x, t) \in Engines /\ Served(s, DrainTurn(x, t))
    BY <2>1
  <2>2. Served(x, DrainTurn(x, t))
    BY DrainTurnServes
  <2>3. DrainTurn(x, t) \in Engines
    BY <2>2 DEF Served
  <2>4. QED BY <2>2, <2>3, ServedTwice
<1>4. DrainIdle(s, t) \in V[N]
  <2> HIDE DEF V
  <2>1. QED BY <1>1, <1>2, <1>3, DrainIn
<1>5. N \in 0..N
  BY <1>1
<1>6. QED BY <1>4, <1>5

\* A turn of a batch.
LEMMA BatchTurnServes ==
  ASSUME NEW s \in Engines, NEW t \in Int, wq_depth > 0
  PROVE  Served(s, BatchTurn(s, t))
<1>1. CASE Len(s.wq) >= wq_low /\ s.wq # <<>>
  <2>1. Nothing \in Int
    BY DEF Nothing
  <2>2. Issued(s, IssueOldest(s, t, Nothing), Nothing)
    BY <1>1, <2>1, IssueIs
  <2>3. Served(s, IssueOldest(s, t, Nothing))
    BY <1>1, <2>2, IssueServes
  <2>4. QED BY <1>1, <2>3 DEF BatchTurn
<1>2. CASE ~(Len(s.wq) >= wq_low)
  BY <1>2, ServedNot DEF BatchTurn
<1>3. Len(s.wq) >= wq_low => s.wq # <<>>
  <2>1. wq_low > 0 /\ wq_low \in Nat
    BY Parameters, Times
  <2>2. s.wq = <<>> => Len(s.wq) = 0
    OBVIOUS
  <2>3. QED BY <2>1, <2>2
<1>4. QED BY <1>1, <1>2, <1>3

\* A batch, down to the low watermark, only sends writes that wait.
LEMMA BatchServes ==
  ASSUME NEW s \in Engines, NEW t \in Int, wq_depth > 0
  PROVE  Served(s, Batch(s, t))
<1> DEFINE N == Len(s.wq)
           V == [k \in 0..N |-> {r \in Engines : Served(s, r)}]
<1>1. N \in Nat
  BY EngineIs DEF Engines
<1>2. s \in V[0]
  BY <1>1, ServedNot
<1>3. \A k \in 1..N : \A x \in V[k - 1] : BatchTurn(x, t) \in V[k]
  <2> TAKE k \in 1..N
  <2>1. k - 1 \in 0..N /\ k \in 0..N
    BY <1>1
  <2> SUFFICES ASSUME NEW x \in Engines, Served(s, x)
               PROVE  BatchTurn(x, t) \in Engines /\ Served(s, BatchTurn(x, t))
    BY <2>1
  <2>2. Served(x, BatchTurn(x, t))
    BY BatchTurnServes
  <2>3. BatchTurn(x, t) \in Engines
    BY <2>2 DEF Served
  <2>4. QED BY <2>2, <2>3, ServedTwice
<1>4. Batch(s, t) \in V[N]
  <2> HIDE DEF V
  <2>1. QED BY <1>1, <1>2, <1>3, BatchIn
<1>5. N \in 0..N
  BY <1>1
<1>6. QED BY <1>4, <1>5

\* The oldest write leaves its slot.
Dropped(s, r, D) ==
  /\ r \in Engines /\ r.chan = s.chan /\ r.wq = s.wq /\ r.merged = s.merged /\ r.all = s.all
  /\ s.leaving # <<>> /\ D = Head(s.leaving) /\ Total(r) = Total(s) - 1
  /\ \A C \in Int : Slots(s, C) => Slots(r, D)

\* The slot at the front is given back at the time it is free.
LEMMA DropIs ==
  ASSUME NEW s \in Engines, s.leaving # <<>>, NEW t \in Int
  PROVE  LET r == [s EXCEPT !.leaving = Tail(s.leaving), !.at = t] IN
         Dropped(s, r, Head(s.leaving)) /\ r.at = t
<1> DEFINE q == s.leaving
           u == Tail(q)
           h == Head(q)
           r == [s EXCEPT !.leaving = u, !.at = t]
<1>1. s \in EngineT /\ Distinct(s.wq)
  BY DEF Engines
<1>2. q \in Seq(Int) /\ Len(s.wq) \in Nat
  BY <1>1, EngineIs
<1>3. /\ h = q[1] /\ u \in Seq(Int) /\ Len(u) = Len(q) - 1 /\ Len(u) \in Nat /\ h \in Int
      /\ Len(q) \in Nat /\ \A i \in 1..Len(u) : u[i] = q[i + 1]
  BY <1>2, HeadTailProperties
<1> HIDE DEF u, h
<1>4. /\ r \in EngineT /\ r.wq = s.wq /\ r.leaving = u /\ r.merged = s.merged
      /\ r.all = s.all /\ r.at = t /\ r.chan = s.chan
  BY <1>1, <1>3 DEF EngineT
<1> HIDE DEF r, q
<1>5. r \in Engines
  BY <1>1, <1>4 DEF Engines
<1>6. Total(r) = Total(s) - 1
  <2>1. PICK x \in Int, y \in Int : x = Len(s.wq) /\ y = Len(q)
    BY <1>2, <1>3
  <2>2. Total(s) = x + y /\ Total(r) = x + (y - 1)
    BY <1>3, <1>4, <2>1 DEF Total, q
  <2>3. QED BY <2>2
<1>7. ASSUME NEW C \in Int, Slots(s, C) PROVE Slots(r, h)
  <2>1. /\ channels = 1 /\ \A i \in 1..Len(q) :
             /\ C <= q[i] /\ q[i] <= s.chan[0].bus_free
             /\ \A j \in 1..Len(q) : i <= j => q[i] <= q[j]
        /\ \A v \in Int : C <= v => Cardinality(Ending(s.chan, v)) <= Cardinality(Above(q, v))
    BY <1>7 DEF Slots, q
  <2>2. 1 \in 1..Len(q)
    BY <1>3
  <2>3. C <= h /\ h <= s.chan[0].bus_free
    BY <1>3, <2>1, <2>2
  <2>4. ASSUME NEW i \in 1..Len(u)
        PROVE  /\ h <= u[i] /\ u[i] <= s.chan[0].bus_free
               /\ \A j \in 1..Len(u) : i <= j => u[i] <= u[j]
    <3>1. i + 1 \in 1..Len(q) /\ 1 <= i + 1 /\ u[i] = q[i + 1]
      BY <1>3
    <3>2. h <= u[i] /\ u[i] <= s.chan[0].bus_free
      BY <1>3, <2>1, <2>2, <3>1
    <3>3. ASSUME NEW j \in 1..Len(u), i <= j PROVE u[i] <= u[j]
      <4>1. j + 1 \in 1..Len(q) /\ i + 1 <= j + 1 /\ u[j] = q[j + 1]
        BY <1>3, <3>3
      <4>2. \A a, b \in 1..Len(q) : a <= b => q[a] <= q[b]
        BY <2>1
      <4>3. q[i + 1] <= q[j + 1]
        BY <3>1, <4>1, <4>2
      <4>4. QED BY <3>1, <4>1, <4>3
    <3>4. QED BY <3>2, <3>3
  <2>5. ASSUME NEW v \in Int, h <= v
        PROVE  Cardinality(Ending(s.chan, v)) <= Cardinality(Above(u, v))
    <3>1. C <= v
      BY <1>3, <2>3, <2>5
    <3>2. Cardinality(Ending(s.chan, v)) <= Cardinality(Above(q, v))
      BY <2>1, <3>1
    <3>3. Cardinality(Above(q, v)) <= Cardinality(Above(u, v))
      <4>1. q \in Seq(Int) /\ q # <<>> /\ Head(q) <= v
        BY <1>2, <2>5 DEF q, h
      <4>2. QED BY <4>1, AboveTail DEF u
    <3>4. Cardinality(Ending(s.chan, v)) \in Nat
      BY <1>1, EngineIs, EndingIs
    <3>5. Cardinality(Above(q, v)) \in Nat /\ Cardinality(Above(u, v)) \in Nat
      BY <1>2, <1>3, AboveIs DEF q
    <3>6. QED BY <3>2, <3>3, <3>4, <3>5
  <2>6. QED BY <1>4, <2>1, <2>3, <2>4, <2>5 DEF Slots
<1>8. Dropped(s, r, h) /\ r.at = t
  BY <1>4, <1>5, <1>6, <1>7 DEF Dropped, h, q
<1>9. QED BY <1>8 DEF r, h, u, q

\* Nothing waits in r that did not wait in s, and what waits no more was written.
Kept(s, r) == r \in Engines /\ Moved(s, r) /\ ToSet(r.wq) \subseteq ToSet(s.wq)

\* What is known of the slots between two operations, each at t or later, ...
Held(s, t) ==
  \E D \in Int : /\ Slots(s, D) /\ Total(s) <= wq_depth
                 /\ D <= t \/ Total(s) = wq_depth
\* ... with the writes that wait ...
Room(s, t) ==
  \E D \in Int : /\ Slots(s, D) /\ Late(s, D) /\ Total(s) <= wq_depth
                 /\ D <= t \/ Total(s) = wq_depth
\* ... and before a write takes its slot.
Freed(s, t) ==
  \E D \in Int : /\ Slots(s, D) /\ Total(s) < wq_depth /\ D <= s.at
                 /\ D <= t \/ Total(s) + 1 = wq_depth

\* One after the other.
LEMMA KeptTwice ==
  ASSUME NEW s \in Engines, NEW r \in Engines, NEW u \in Engines, Kept(s, r), Kept(r, u)
  PROVE  Kept(s, u)
<1>1. s \in EngineT /\ r \in EngineT /\ u \in EngineT
  BY DEF Engines
<1>2. Moved(s, u)
  BY <1>1, MovedTwice DEF Kept
<1>3. QED BY <1>2 DEF Kept

\* Sending writes keeps the account of the slots.
LEMMA ServedKeeps ==
  ASSUME NEW s \in Engines, NEW r, Served(s, r), NEW t \in Int
  PROVE  Kept(s, r) /\ (Room(s, t) => Room(r, t)) /\ (Held(s, t) => Held(r, t))
<1>1. Kept(s, r)
  BY DEF Served, Kept
<1>2. Total(r) = Total(s) /\ \A D \in Int : (Slots(s, D) => Slots(r, D)) /\ (Late(s, D) => Late(r, D))
  BY DEF Served
<1>3. QED BY <1>1, <1>2 DEF Room, Held

\* The slots taken.
LEMMA TotalIs ==
  ASSUME NEW s \in Engines
  PROVE  /\ Total(s) \in Nat /\ Len(s.wq) \in Nat /\ Len(s.leaving) \in Nat
         /\ s.leaving = <<>> => Len(s.leaving) = 0
         /\ s.leaving \in Seq(Int) /\ s.wq \in Seq(QueuedT)
<1>1. /\ Len(s.wq) \in Nat /\ Len(s.leaving) \in Nat
      /\ s.leaving \in Seq(Int) /\ s.wq \in Seq(QueuedT)
  BY EngineIs DEF Engines
<1>2. s.leaving = <<>> => Len(s.leaving) = 0
  OBVIOUS
<1>3. PICK x \in Nat, y \in Nat : x = Len(s.wq) /\ y = Len(s.leaving)
  BY <1>1
<1>4. Total(s) = x + y
  BY <1>3 DEF Total
<1>5. Total(s) \in Nat
  BY <1>4
<1>6. QED BY <1>1, <1>2, <1>5

\* So does giving back a slot, as far as the writes go.
LEMMA DropKeeps ==
  ASSUME NEW s \in Engines, NEW r, NEW D, Dropped(s, r, D)
  PROVE  Kept(s, r) /\ D \in Int
<1>1. r \in Engines /\ r.chan = s.chan /\ r.wq = s.wq /\ r.merged = s.merged
  BY DEF Dropped
<1>2. Moved(s, r)
  BY <1>1, MovedNot DEF Engines
<1>3. D \in Int
  <2>1. s.leaving \in Seq(Int) /\ s.leaving # <<>> /\ D = Head(s.leaving)
    BY TotalIs DEF Dropped
  <2>2. QED BY <2>1
<1>4. QED BY <1>1, <1>2, <1>3 DEF Kept

\* A turn of retire(): only slots that are free by t are given back.
LEMMA RetireTurnKeeps ==
  ASSUME NEW s \in Engines, NEW t \in Int
  PROVE  LET r == RetireTurn(s, t) IN
         Kept(s, r) /\ r.wq = s.wq /\ (Held(s, t) => Held(r, t))
<1> DEFINE h == Head(s.leaving)
           r == [s EXCEPT !.leaving = Tail(s.leaving), !.at = s.at]
<1>1. CASE s.leaving # <<>> /\ h <= t
  <2>1. RetireTurn(s, t) = r
    BY <1>1 DEF RetireTurn, Engines, EngineT
  <2>2. s.at \in Int
    BY EngineIs DEF Engines
  <2>3. Dropped(s, r, h)
    BY <1>1, <2>2, DropIs
  <2> HIDE DEF r, h
  <2>4. Kept(s, r) /\ h \in Int /\ r.wq = s.wq
    BY <2>3, DropKeeps DEF Dropped
  <2>5. Held(s, t) => Held(r, t)
    <3> SUFFICES ASSUME NEW C \in Int, Slots(s, C), Total(s) <= wq_depth
                 PROVE  Held(r, t)
      BY DEF Held
    <3>1. Slots(r, h) /\ Total(r) = Total(s) - 1
      BY <2>3 DEF Dropped
    <3>2. Total(s) \in Nat
      BY TotalIs
    <3>3. Total(r) <= wq_depth
      BY <3>1, <3>2, Times
    <3>4. QED BY <1>1, <2>4, <3>1, <3>3 DEF Held
  <2>6. QED BY <2>1, <2>4, <2>5
<1>2. CASE ~(s.leaving # <<>> /\ h <= t)
  <2>1. RetireTurn(s, t) = s
    BY <1>2 DEF RetireTurn
  <2>2. Kept(s, s)
    BY MovedNot DEF Kept, Engines
  <2>3. QED BY <2>1, <2>2
<1>3. QED BY <1>1, <1>2

\* retire().
LEMMA RetireKeeps ==
  ASSUME NEW s \in Engines, NEW t \in Int
  PROVE  LET r == Retire(s, t) IN
         Kept(s, r) /\ r.wq = s.wq /\ (Held(s, t) => Held(r, t))
<1> DEFINE N == Len(s.leaving)
           P(r) == Kept(s, r) /\ r.wq = s.wq /\ (Held(s, t) => Held(r, t))
           V == [k \in 0..N |-> {r \in Engines : P(r)}]
<1>1. N \in Nat
  BY TotalIs
<1>2. P(s)
  BY MovedNot DEF Kept, Engines
<1>3. \A x \in Engines : P(x) => RetireTurn(x, t) \in Engines /\ P(RetireTurn(x, t))
  <2> SUFFICES ASSUME NEW x \in Engines, P(x)
               PROVE  RetireTurn(x, t) \in Engines /\ P(RetireTurn(x, t))
    OBVIOUS
  <2> DEFINE y == RetireTurn(x, t)
  <2>1. Kept(x, y) /\ y.wq = x.wq /\ (Held(x, t) => Held(y, t))
    BY RetireTurnKeeps
  <2> HIDE DEF y
  <2>2. y \in Engines
    BY <2>1 DEF Kept
  <2>3. Kept(s, y)
    BY <2>1, <2>2, KeptTwice
  <2>4. QED BY <2>1, <2>2, <2>3 DEF y
<1> HIDE DEF P
<1>4. s \in V[0]
  BY <1>1, <1>2
<1>5. \A k \in 1..N : \A x \in V[k - 1] : RetireTurn(x, t) \in V[k]
  <2> TAKE k \in 1..N
  <2>1. k - 1 \in 0..N /\ k \in 0..N
    BY <1>1
  <2>2. QED BY <1>3, <2>1
<1>6. Retire(s, t) \in V[N]
  <2> HIDE DEF V
  <2>1. QED BY <1>1, <1>4, <1>5, RetireIn
<1>7. N \in 0..N
  BY <1>1
<1>8. P(Retire(s, t))
  BY <1>6, <1>7
<1>9. QED BY <1>8 DEF P

\* The wait for the slot at the front, when the queue is full.
LEMMA FreeSlotKeeps ==
  ASSUME NEW s \in Engines, s.leaving # <<>>
  PROVE  LET r == FreeSlot(s) IN
         Kept(s, r) /\ (Held(s, s.at) /\ Full(s) => Freed(r, s.at))
<1> DEFINE h == Head(s.leaving)
           a == Later(s.at, h)
           r == [s EXCEPT !.leaving = Tail(s.leaving), !.at = a]
<1>1. FreeSlot(s) = r
  BY DEF FreeSlot, Engines, EngineT
<1>2. s.at \in Int /\ h \in Int
  <2>1. s.leaving \in Seq(Int) /\ s.at \in Int
    BY EngineIs DEF Engines
  <2>2. QED BY <2>1
<1> HIDE DEF h
<1>3. a \in Int /\ h <= a
  BY <1>2 DEF Later
<1> HIDE DEF a
<1>4. Dropped(s, r, h) /\ r.at = a
  BY <1>3, DropIs DEF h
<1> HIDE DEF r
<1>5. Kept(s, r)
  BY <1>4, DropKeeps
<1>6. ASSUME Held(s, s.at), Full(s) PROVE Freed(r, s.at)
  <2>1. PICK C \in Int : Slots(s, C) /\ Total(s) <= wq_depth
    BY <1>6 DEF Held
  <2>2. Slots(r, h) /\ Total(r) = Total(s) - 1
    BY <1>4, <2>1 DEF Dropped
  <2>3. Total(s) >= wq_depth
    BY <1>6 DEF Full, Total
  <2>4. Total(s) = wq_depth /\ Total(r) < wq_depth /\ Total(r) + 1 = wq_depth
    <3>1. Total(s) \in Nat
      BY TotalIs
    <3>2. QED BY <2>1, <2>2, <2>3, <3>1, Times
  <2>5. QED BY <1>2, <1>3, <1>4, <2>2, <2>4 DEF Freed
<1>7. QED BY <1>1, <1>5, <1>6

\* A turn of the wait for a slot.
LEMMA RoomTurnKeeps ==
  ASSUME NEW s \in Engines, wq_depth > 0, NEW t \in Int
  PROVE  LET r == RoomTurn(s) IN
         /\ Kept(s, r)
         /\ Held(s, t) /\ s.at = t => Freed(r, t)
         /\ Freed(s, t) => Freed(r, t)
<1>1. Total(s) \in Nat /\ Len(s.wq) \in Nat
  BY TotalIs
<1>2. Kept(s, s)
  BY MovedNot DEF Kept, Engines
<1>3. CASE ~Full(s)
  <2>1. RoomTurn(s) = s
    BY <1>3 DEF RoomTurn
  <2>2. Total(s) < wq_depth
    <3>1. ~(Total(s) >= wq_depth)
      BY <1>3 DEF Full, Total
    <3>2. QED BY <1>1, <3>1, Times
  <2>3. Held(s, t) /\ s.at = t => Freed(s, t)
    <3> SUFFICES ASSUME NEW D \in Int, Slots(s, D), D <= t \/ Total(s) = wq_depth, s.at = t
                 PROVE  Freed(s, t)
      BY DEF Held
    <3>1. D <= t
      BY <1>1, <2>2, Times
    <3>2. QED BY <2>2, <3>1 DEF Freed
  <2>4. QED BY <1>2, <2>1, <2>3
<1>4. CASE Full(s) /\ s.leaving # <<>>
  <2>1. RoomTurn(s) = FreeSlot(s)
    BY <1>4 DEF RoomTurn
  <2>2. Kept(s, FreeSlot(s)) /\ (Held(s, s.at) /\ Full(s) => Freed(FreeSlot(s), s.at))
    BY <1>4, FreeSlotKeeps
  <2>3. ~Freed(s, t)
    <3>1. Total(s) >= wq_depth
      BY <1>4 DEF Full, Total
    <3>2. ~(Total(s) < wq_depth)
      BY <1>1, <3>1, Times
    <3>3. QED BY <3>2 DEF Freed
  <2>4. QED BY <1>4, <2>1, <2>2, <2>3
<1>5. CASE Full(s) /\ s.leaving = <<>>
  <2> DEFINE u == IssueOldest(s, s.at, Nothing)
  <2>1. RoomTurn(s) = FreeSlot(u)
    BY <1>5 DEF RoomTurn
  <2>2. s.wq # <<>>
    <3>1. Total(s) = Len(s.wq) + 0 /\ Total(s) >= wq_depth
      BY <1>5, TotalIs DEF Full, Total
    <3>2. Len(s.wq) > 0
      BY <1>1, <3>1, Times
    <3>3. s.wq = <<>> => Len(s.wq) = 0
      OBVIOUS
    <3>4. QED BY <3>2, <3>3
  <2>3. s.at \in Int /\ Nothing \in Int
    BY EngineIs DEF Engines, Nothing
  <2>4. Issued(s, u, Nothing)
    BY <2>2, <2>3, IssueIs
  <2> HIDE DEF u
  <2>5. Served(s, u) /\ u.at = s.at /\ u \in Engines /\ Total(u) = Total(s)
    BY <2>2, <2>4, IssueServes DEF Issued, Served
  <2>6. u.leaving # <<>>
    <3>1. u.leaving = Append(s.leaving, u.done)
      BY <2>4 DEF Issued
    <3>2. s.leaving \in Seq(Int) /\ u.done \in Int
      BY <2>5, EngineIs DEF Engines
    <3>3. Len(u.leaving) = Len(s.leaving) + 1 /\ Len(s.leaving) \in Nat
      BY <3>1, <3>2, AppendIs
    <3>4. u.leaving = <<>> => Len(u.leaving) = 0
      OBVIOUS
    <3>5. QED BY <3>3, <3>4
  <2>7. Kept(s, u) /\ (Held(s, t) => Held(u, t))
    BY <2>5, ServedKeeps
  <2>8. Kept(u, FreeSlot(u)) /\ (Held(u, u.at) /\ Full(u) => Freed(FreeSlot(u), u.at))
    BY <2>5, <2>6, FreeSlotKeeps
  <2>9. Full(u)
    BY <1>5, <2>5 DEF Full, Total
  <2>10. Kept(s, FreeSlot(u))
    <3>1. FreeSlot(u) \in Engines
      BY <2>8 DEF Kept
    <3>2. QED BY <2>5, <2>7, <2>8, <3>1, KeptTwice
  <2>11. ~Freed(s, t)
    <3>1. Total(s) >= wq_depth
      BY <1>5 DEF Full, Total
    <3>2. ~(Total(s) < wq_depth)
      BY <1>1, <3>1, Times
    <3>3. QED BY <3>2 DEF Freed
  <2>12. QED BY <2>1, <2>5, <2>7, <2>8, <2>9, <2>10, <2>11
<1>6. QED BY <1>3, <1>4, <1>5

\* The wait for a slot ends with one free, at the time the write is then accepted.
LEMMA RoomKeeps ==
  ASSUME NEW s \in Engines, wq_depth > 0, NEW t \in Int
  PROVE  LET r == MakeRoom(s) IN
         Kept(s, r) /\ (Held(s, t) /\ s.at = t => Freed(r, t))
<1> DEFINE N == Len(s.wq) + Len(s.leaving)
           P(r, k) == Kept(s, r) /\ (Held(s, t) /\ s.at = t => (k = 0 /\ r = s) \/ Freed(r, t))
           V == [k \in 0..N |-> {r \in Engines : P(r, k)}]
<1>1. N \in Nat /\ N = Total(s)
  BY TotalIs DEF Total
<1>2. P(s, 0)
  BY MovedNot DEF Kept, Engines
<1> HIDE DEF N
<1>3. \A k \in 1..N : \A x \in Engines :
        P(x, k - 1) => RoomTurn(x) \in Engines /\ P(RoomTurn(x), k)
  <2> SUFFICES ASSUME NEW k \in 1..N, NEW x \in Engines, P(x, k - 1)
               PROVE  RoomTurn(x) \in Engines /\ P(RoomTurn(x), k)
    OBVIOUS
  <2> DEFINE y == RoomTurn(x)
  <2>1. /\ Kept(x, y) /\ (Held(x, t) /\ x.at = t => Freed(y, t))
        /\ (Freed(x, t) => Freed(y, t))
    BY RoomTurnKeeps
  <2> HIDE DEF y
  <2>2. y \in Engines
    BY <2>1 DEF Kept
  <2>3. Kept(s, y)
    BY <2>1, <2>2, KeptTwice
  <2>4. Held(s, t) /\ s.at = t => Freed(y, t)
    BY <2>1
  <2>5. QED BY <2>2, <2>3, <2>4 DEF y
<1>4. 0 \in 0..N /\ N \in 0..N /\ \A k \in 1..N : k - 1 \in 0..N /\ k \in 0..N
  BY <1>1
<1> HIDE DEF P
<1>5. s \in V[0]
  BY <1>2, <1>4
<1>6. \A k \in 1..N : \A x \in V[k - 1] : RoomTurn(x) \in V[k]
  BY <1>3, <1>4
<1>7. MakeRoom(s) \in V[N]
  <2> HIDE DEF V
  <2>1. QED BY <1>1, <1>5, <1>6, RoomIn DEF N
<1>8. P(MakeRoom(s), N)
  BY <1>4, <1>7
<1>9. ASSUME Held(s, t), s.at = t, N = 0 PROVE Freed(s, t)
  <2>1. PICK D \in Int : Slots(s, D) /\ (D <= t \/ Total(s) = wq_depth)
    BY <1>9 DEF Held
  <2>2. Total(s) < wq_depth
    BY <1>1, <1>9
  <2>3. D <= t
    BY <1>1, <1>9, <2>1
  <2>4. QED BY <1>9, <2>1, <2>2, <2>3 DEF Freed
<1>10. QED BY <1>8, <1>9 DEF P

------------------------------------------------------------------------------
(* One burst through the queue. *)

\* A read of k is the only read from s to r, and a write of k that waited in s goes
\* before it.
OwnRead(s, r, k) ==
  \A c \in Chans : \A j \in (Len(s.chan[c].log) + 1)..Len(r.chan[c].log) :
    LET x == r.chan[c].log[j] IN
    x.cmd = "COL" /\ ~x.w =>
      /\ c = k.ch /\ Target(x) = <<k.bank, k.row, k.col>>
      /\ \A q \in ToSet(s.wq) : q.to.addr = k.addr =>
           \E i \in (Len(s.chan[q.to.ch].log) + 1)..Len(r.chan[q.to.ch].log) :
             LET y == r.chan[q.to.ch].log[i] IN
             /\ y.cmd = "COL" /\ y.w /\ Target(y) = <<q.to.bank, q.to.row, q.to.col>>
             /\ q.to.ch = c => i < j
Took(s, r, k, w) ==
  /\ r \in Engines /\ Grown(s, r) /\ Tally(r) = Tally(s) + (IF w THEN 1 ELSE 0)
  /\ \A q \in ToSet(r.wq) : q \in ToSet(s.wq) \/ q.to = k
  /\ OwnRead(s, r, k)

\* What waits in the queue.
LEMMA QueuedIs ==
  ASSUME NEW s \in EngineT
  PROVE  \A q \in ToSet(s.wq) : q.to \in BurstT /\ q.to.ch \in Chans /\ q.arrive \in Int
<1> SUFFICES ASSUME NEW q \in ToSet(s.wq)
             PROVE  q.to \in BurstT /\ q.to.ch \in Chans /\ q.arrive \in Int
  OBVIOUS
<1>1. PICK i \in 1..Len(s.wq) : q = s.wq[i]
  BY EngineIs DEF ToSet
<1>2. q.to \in BurstT /\ q.arrive \in Int
  BY <1>1, EngineIs
<1>3. QED BY <1>2 DEF BurstT, Chans

\* Writes are sent before the burst is taken, ...
LEMMA TookAfter ==
  ASSUME NEW s \in Engines, NEW d \in Engines, NEW r \in Engines, NEW k, NEW w,
         Kept(s, d), Took(d, r, k, w)
  PROVE  Took(s, r, k, w)
<1>1. s \in EngineT /\ d \in EngineT /\ r \in EngineT
  BY DEF Engines
<1>2. Grown(s, d) /\ NoReads(s, d) /\ Tally(d) = Tally(s) /\ ToSet(d.wq) \subseteq ToSet(s.wq)
  BY DEF Kept, Moved
<1>3. Grown(d, r) /\ OwnRead(d, r, k)
  BY DEF Took
<1>4. Grown(s, r)
  BY <1>1, <1>2, <1>3, GrownTwice
<1>5. OwnRead(s, r, k)
  <2> SUFFICES ASSUME NEW c \in Chans, NEW j \in (Len(s.chan[c].log) + 1)..Len(r.chan[c].log),
                      r.chan[c].log[j].cmd = "COL", ~r.chan[c].log[j].w
               PROVE  /\ c = k.ch /\ Target(r.chan[c].log[j]) = <<k.bank, k.row, k.col>>
                      /\ \A q \in ToSet(s.wq) : q.to.addr = k.addr =>
                           \E i \in (Len(s.chan[q.to.ch].log) + 1)..Len(r.chan[q.to.ch].log) :
                             LET y == r.chan[q.to.ch].log[i] IN
                             /\ y.cmd = "COL" /\ y.w
                             /\ Target(y) = <<q.to.bank, q.to.row, q.to.col>>
                             /\ q.to.ch = c => i < j
    BY DEF OwnRead
  <2>1. \A g \in Chans :
          /\ Len(s.chan[g].log) \in Nat /\ Len(d.chan[g].log) \in Nat /\ Len(r.chan[g].log) \in Nat
          /\ Len(s.chan[g].log) <= Len(d.chan[g].log) /\ Len(d.chan[g].log) <= Len(r.chan[g].log)
          /\ \A i \in 1..Len(d.chan[g].log) : r.chan[g].log[i] = d.chan[g].log[i]
    BY <1>1, <1>2, <1>3, EngineIs DEF Grown, Extends
  <2>2. ~(j <= Len(d.chan[c].log))
    <3> SUFFICES ASSUME j <= Len(d.chan[c].log) PROVE FALSE
      OBVIOUS
    <3>1. j \in (Len(s.chan[c].log) + 1)..Len(d.chan[c].log) /\ j \in 1..Len(d.chan[c].log)
      BY <2>1
    <3>2. d.chan[c].log[j].cmd = "COL" /\ ~d.chan[c].log[j].w
      BY <2>1, <3>1
    <3>3. QED BY <1>2, <3>1, <3>2 DEF NoReads
  <2>3. j \in (Len(d.chan[c].log) + 1)..Len(r.chan[c].log)
    BY <2>1, <2>2
  <2>4. c = k.ch /\ Target(r.chan[c].log[j]) = <<k.bank, k.row, k.col>>
    BY <1>3, <2>3 DEF OwnRead
  <2>5. ASSUME NEW q \in ToSet(s.wq), q.to.addr = k.addr
        PROVE  \E i \in (Len(s.chan[q.to.ch].log) + 1)..Len(r.chan[q.to.ch].log) :
                 LET y == r.chan[q.to.ch].log[i] IN
                 /\ y.cmd = "COL" /\ y.w /\ Target(y) = <<q.to.bank, q.to.row, q.to.col>>
                 /\ q.to.ch = c => i < j
    <3> DEFINE g == q.to.ch
               l == s.chan[g].log
               m == d.chan[g].log
               o == r.chan[g].log
    <3>1. g \in Chans
      BY <1>1, QueuedIs
    <3>2. /\ Len(l) \in Nat /\ Len(m) \in Nat /\ Len(o) \in Nat /\ Len(l) <= Len(m)
          /\ Len(m) <= Len(o) /\ \A i \in 1..Len(m) : o[i] = m[i]
      BY <2>1, <3>1
    <3>3. CASE q \in ToSet(d.wq)
      <4>1. PICK i \in (Len(m) + 1)..Len(o) :
              /\ o[i].cmd = "COL" /\ o[i].w /\ Target(o[i]) = <<q.to.bank, q.to.row, q.to.col>>
              /\ g = c => i < j
        BY <1>3, <2>3, <2>5, <3>3 DEF OwnRead
      <4> HIDE DEF l, m, o
      <4>2. i \in (Len(l) + 1)..Len(o)
        BY <3>2
      <4>3. QED BY <4>1, <4>2 DEF l, o
    <3>4. CASE q \notin ToSet(d.wq)
      <4>1. PICK i \in (Len(l) + 1)..Len(m) :
              m[i].cmd = "COL" /\ m[i].w /\ Target(m[i]) = <<q.to.bank, q.to.row, q.to.col>>
        BY <1>2, <3>4 DEF Grown, Gone
      <4>2. g = c => Len(m) < j
        BY <2>1, <2>2
      <4> HIDE DEF l, m, o
      <4>3. i \in (Len(l) + 1)..Len(o) /\ o[i] = m[i] /\ i <= Len(m)
        BY <3>2
      <4>4. g = c => i < j
        <5>1. j \in Int /\ i \in Int /\ Len(m) \in Int
          BY <3>2
        <5>2. QED BY <4>2, <4>3, <5>1
      <4>5. QED BY <4>1, <4>3, <4>4 DEF l, o
    <3>5. QED BY <3>3, <3>4
  <2>6. QED BY <2>4, <2>5
<1>6. QED BY <1>2, <1>4, <1>5 DEF Took

\* ... or after it.
LEMMA TookBefore ==
  ASSUME NEW s \in Engines, NEW d \in Engines, NEW r \in Engines, NEW k, NEW w,
         Took(s, d, k, w), Kept(d, r)
  PROVE  Took(s, r, k, w)
<1>1. s \in EngineT /\ d \in EngineT /\ r \in EngineT
  BY DEF Engines
<1>2. Grown(d, r) /\ NoReads(d, r) /\ Tally(r) = Tally(d) /\ ToSet(r.wq) \subseteq ToSet(d.wq)
  BY DEF Kept, Moved
<1>3. Grown(s, d) /\ OwnRead(s, d, k)
  BY DEF Took
<1>4. Grown(s, r)
  BY <1>1, <1>2, <1>3, GrownTwice
<1>5. OwnRead(s, r, k)
  <2> SUFFICES ASSUME NEW c \in Chans, NEW j \in (Len(s.chan[c].log) + 1)..Len(r.chan[c].log),
                      r.chan[c].log[j].cmd = "COL", ~r.chan[c].log[j].w
               PROVE  /\ c = k.ch /\ Target(r.chan[c].log[j]) = <<k.bank, k.row, k.col>>
                      /\ \A q \in ToSet(s.wq) : q.to.addr = k.addr =>
                           \E i \in (Len(s.chan[q.to.ch].log) + 1)..Len(r.chan[q.to.ch].log) :
                             LET y == r.chan[q.to.ch].log[i] IN
                             /\ y.cmd = "COL" /\ y.w
                             /\ Target(y) = <<q.to.bank, q.to.row, q.to.col>>
                             /\ q.to.ch = c => i < j
    BY DEF OwnRead
  <2>1. \A g \in Chans :
          /\ Len(s.chan[g].log) \in Nat /\ Len(d.chan[g].log) \in Nat /\ Len(r.chan[g].log) \in Nat
          /\ Len(s.chan[g].log) <= Len(d.chan[g].log) /\ Len(d.chan[g].log) <= Len(r.chan[g].log)
          /\ \A i \in 1..Len(d.chan[g].log) : r.chan[g].log[i] = d.chan[g].log[i]
    BY <1>1, <1>2, <1>3, EngineIs DEF Grown, Extends
  <2>2. j <= Len(d.chan[c].log)
    <3> SUFFICES ASSUME ~(j <= Len(d.chan[c].log)) PROVE FALSE
      OBVIOUS
    <3>1. j \in (Len(d.chan[c].log) + 1)..Len(r.chan[c].log)
      BY <2>1
    <3>2. QED BY <1>2, <3>1 DEF NoReads
  <2>3. /\ j \in (Len(s.chan[c].log) + 1)..Len(d.chan[c].log)
        /\ r.chan[c].log[j] = d.chan[c].log[j]
    <3>1. j \in 1..Len(d.chan[c].log)
      BY <2>1, <2>2
    <3>2. QED BY <2>1, <2>2, <3>1
  <2>4. c = k.ch /\ Target(r.chan[c].log[j]) = <<k.bank, k.row, k.col>>
    BY <1>3, <2>3 DEF OwnRead
  <2>5. ASSUME NEW q \in ToSet(s.wq), q.to.addr = k.addr
        PROVE  \E i \in (Len(s.chan[q.to.ch].log) + 1)..Len(r.chan[q.to.ch].log) :
                 LET y == r.chan[q.to.ch].log[i] IN
                 /\ y.cmd = "COL" /\ y.w /\ Target(y) = <<q.to.bank, q.to.row, q.to.col>>
                 /\ q.to.ch = c => i < j
    <3> DEFINE g == q.to.ch
               l == s.chan[g].log
               m == d.chan[g].log
               o == r.chan[g].log
    <3>1. g \in Chans
      BY <1>1, QueuedIs
    <3>2. /\ Len(l) \in Nat /\ Len(m) \in Nat /\ Len(o) \in Nat /\ Len(l) <= Len(m)
          /\ Len(m) <= Len(o) /\ \A i \in 1..Len(m) : o[i] = m[i]
      BY <2>1, <3>1
    <3>3. PICK i \in (Len(l) + 1)..Len(m) :
            /\ m[i].cmd = "COL" /\ m[i].w /\ Target(m[i]) = <<q.to.bank, q.to.row, q.to.col>>
            /\ g = c => i < j
      BY <1>3, <2>3, <2>5 DEF OwnRead
    <3> HIDE DEF l, m, o
    <3>4. i \in (Len(l) + 1)..Len(o) /\ o[i] = m[i]
      BY <3>2
    <3>5. QED BY <3>3, <3>4 DEF l, o
  <2>6. QED BY <2>4, <2>5
<1>6. Tally(r) = Tally(s) + (IF w THEN 1 ELSE 0)
  BY <1>2 DEF Took
<1>7. QED BY <1>2, <1>4, <1>5, <1>6 DEF Took

\* Times that only pass from call to call make no difference.
LEMMA SetKeeps ==
  ASSUME NEW s \in Engines, NEW r \in EngineT, r.chan = s.chan, r.wq = s.wq,
         r.leaving = s.leaving, r.merged = s.merged, NEW t \in Int
  PROVE  Kept(s, r) /\ (Room(s, t) => Room(r, t)) /\ (Held(s, t) => Held(r, t))
<1>1. r \in Engines
  BY DEF Engines
<1>2. Moved(s, r)
  BY MovedNot DEF Engines
<1>3. \A D \in Int : (Slots(s, D) <=> Slots(r, D)) /\ (Late(s, D) <=> Late(r, D))
  BY DEF Slots, Late
<1>4. Total(r) = Total(s)
  BY DEF Total
<1>5. QED BY <1>1, <1>2, <1>3, <1>4 DEF Kept, Room, Held

\* A burst that does not wait in the queue goes to the DRAM.
LEMMA BurstTakes ==
  ASSUME NEW s \in Engines, NEW a \in Int, NEW k \in BurstT, NEW w \in BOOLEAN,
         \A q \in ToSet(s.wq) : q.to.addr # k.addr, NEW t \in Int
  PROVE  LET r == Burst(s, a, k, w, Nothing) IN
         Took(s, r, k, w) /\ r.wq = s.wq /\ (~w /\ Room(s, t) => Room(r, t))
<1> DEFINE r == Burst(s, a, k, w, Nothing)
           l == s.chan[k.ch].log
           m == r.chan[k.ch].log
           y == m[Len(m)]
<1>1. s \in EngineT /\ Nothing \in Int
  BY DEF Engines, Nothing
<1> HIDE DEF Nothing
<1>2. Burstly(s, r, k, w, Nothing)
  BY <1>1, BurstKeeps
<1> HIDE DEF r
<1>3. /\ r \in EngineT /\ r.wq = s.wq /\ r.leaving = s.leaving /\ r.merged = s.merged
      /\ BurstMade(s.chan[k.ch], r.chan[k.ch], k, w, Nothing)
      /\ \A c \in Chans : c # k.ch => r.chan[c] = s.chan[c]
  BY <1>2 DEF Burstly
<1>4. k.ch \in Chans
  BY DEF BurstT, Chans
<1>5. r \in Engines /\ Total(r) = Total(s)
  BY <1>3 DEF Engines, Total
<1>6. s.chan \in [Chans -> Channels] /\ r.chan \in [Chans -> Channels]
      /\ \A c \in Chans : Len(s.chan[c].log) \in Nat /\ Len(r.chan[c].log) \in Nat
  BY <1>1, <1>3, EngineIs
<1>7. Cardinality(WritesIn(r.chan)) = Cardinality(WritesIn(s.chan)) + (IF w THEN 1 ELSE 0)
  <2> DEFINE ch == s.chan
             dh == r.chan
  <2>1. /\ ch \in [Chans -> Channels] /\ dh \in [Chans -> Channels]
        /\ BurstMade(ch[k.ch], dh[k.ch], k, w, Nothing)
        /\ \A c \in Chans : c # k.ch => dh[c] = ch[c]
    BY <1>3, <1>6
  <2> HIDE DEF ch, dh
  <2>2. Cardinality(WritesIn(dh)) = Cardinality(WritesIn(ch)) + (IF w THEN 1 ELSE 0)
    BY <2>1, BurstCounts
  <2>3. QED BY <2>2 DEF ch, dh
<1>8. Tally(r) = Tally(s) + (IF w THEN 1 ELSE 0)
  <2>1. s.merged \in Int /\ Len(s.wq) \in Int
    BY <1>1, EngineIs
  <2>2. Cardinality(WritesIn(s.chan)) \in Nat
    BY <1>6, WritesAre
  <2>3. PICK z \in Nat : z = Cardinality(WritesIn(s.chan))
    BY <2>2
  <2>4. PICK g \in Int, x \in Int : g = s.merged /\ x = Len(s.wq)
    BY <2>1
  <2>5. Tally(s) = g + x + z /\ Tally(r) = g + x + (z + (IF w THEN 1 ELSE 0))
    BY <1>3, <1>7, <2>3, <2>4 DEF Tally
  <2>6. QED BY <2>5
<1>9. \A c \in Chans : Extends(s.chan[c].log, r.chan[c].log)
  <2> TAKE c \in Chans
  <2>1. CASE c = k.ch
    BY <1>3, <2>1 DEF BurstMade
  <2>2. CASE c # k.ch
    BY <1>3, <1>6, <2>2 DEF Extends
  <2>3. QED BY <2>1, <2>2
<1>10. Grown(s, r)
  BY <1>3, <1>9 DEF Grown
<1>11. /\ Len(l) \in Nat /\ Len(m) \in Nat /\ Len(l) < Len(m)
       /\ \A i \in (Len(l) + 1)..(Len(m) - 1) : m[i].cmd # "COL"
       /\ y.bank = k.bank /\ y.row = k.row /\ y.col = k.col
  BY <1>3, <1>4, <1>6 DEF BurstMade
<1>12. OwnRead(s, r, k)
  <2> SUFFICES ASSUME NEW c \in Chans, NEW j \in (Len(s.chan[c].log) + 1)..Len(r.chan[c].log),
                      r.chan[c].log[j].cmd = "COL"
               PROVE  c = k.ch /\ Target(r.chan[c].log[j]) = <<k.bank, k.row, k.col>>
    BY DEF OwnRead
  <2>1. CASE c = k.ch
    <3>1. j \in (Len(l) + 1)..(Len(m) - 1) \/ j = Len(m)
      BY <1>11, <2>1
    <3>2. j = Len(m)
      BY <1>11, <2>1, <3>1
    <3>3. QED BY <1>11, <2>1, <3>2 DEF Target
  <2>2. CASE c # k.ch
    <3>1. r.chan[c] = s.chan[c]
      BY <1>3, <2>2
    <3>2. QED BY <1>6, <3>1
  <2>3. QED BY <2>1, <2>2
<1>13. Took(s, r, k, w)
  BY <1>3, <1>5, <1>8, <1>10, <1>12 DEF Took
<1>14. ASSUME ~w, NEW D \in Int, Slots(s, D) PROVE Slots(r, D)
  <2>1. channels = 1 /\ k.ch = 0 /\ 0 \in Chans
    BY <1>4, <1>14 DEF Slots, Chans
  <2>2. /\ s.chan[0].bus_free <= r.chan[0].bus_free
        /\ s.chan[0].bus_free \in Int /\ r.chan[0].bus_free \in Int
    <3>1. s.chan[0].bus_free \in Int /\ r.chan[0].bus_free \in Int
      BY <1>1, <1>3, <2>1, EngineIs
    <3>2. QED BY <1>3, <2>1, <3>1 DEF BurstMade
  <2>3. s.leaving \in Seq(Int)
    BY <1>1, EngineIs
  <2>4. ASSUME NEW u \in Int, D <= u
        PROVE  Cardinality(Ending(r.chan, u)) <= Cardinality(Above(s.leaving, u))
    <3> DEFINE ch == s.chan
               dh == r.chan
    <3>1. /\ ch \in [Chans -> Channels] /\ dh \in [Chans -> Channels]
          /\ BurstMade(ch[k.ch], dh[k.ch], k, w, Nothing)
          /\ \A c \in Chans : c # k.ch => dh[c] = ch[c]
      BY <1>3, <1>6
    <3>2. Cardinality(Ending(ch, u)) <= Cardinality(Above(s.leaving, u))
      BY <1>14, <2>4 DEF Slots
    <3> HIDE DEF ch, dh
    <3>3. Cardinality(Ending(dh, u)) <=
            Cardinality(Ending(ch, u)) + (IF w /\ dh[k.ch].bus_free > u THEN 1 ELSE 0)
      BY <3>1, EndingBurst
    <3>4. Cardinality(Ending(dh, u)) \in Nat /\ Cardinality(Ending(ch, u)) \in Nat
          /\ Cardinality(Above(s.leaving, u)) \in Nat
      BY <2>3, <3>1, EndingIs, AboveIs
    <3>5. QED BY <1>14, <3>2, <3>3, <3>4 DEF dh
  <2>5. ASSUME NEW i \in 1..Len(s.leaving)
        PROVE  /\ D <= s.leaving[i] /\ s.leaving[i] <= r.chan[0].bus_free
               /\ \A j \in 1..Len(s.leaving) : i <= j => s.leaving[i] <= s.leaving[j]
    <3>1. /\ D <= s.leaving[i] /\ s.leaving[i] <= s.chan[0].bus_free /\ s.leaving[i] \in Int
          /\ \A j \in 1..Len(s.leaving) : i <= j => s.leaving[i] <= s.leaving[j]
      BY <1>14, <2>3 DEF Slots
    <3>2. QED BY <2>2, <3>1
  <2>6. D <= r.chan[0].bus_free
    BY <1>14, <2>2 DEF Slots
  <2>7. QED BY <1>3, <2>1, <2>4, <2>5, <2>6 DEF Slots
<1>15. ~w /\ Room(s, t) => Room(r, t)
  <2>1. \A D \in Int : Late(s, D) => Late(r, D)
    BY <1>3 DEF Late
  <2>2. QED BY <1>5, <1>14, <2>1 DEF Room
<1>16. QED BY <1>3, <1>13, <1>15 DEF r

\* A write takes the free slot.
LEMMA AcceptTakes ==
  ASSUME NEW s \in Engines, NEW k \in BurstT, ~InQueue(s, k), NEW t \in Int
  PROVE  LET r == Accept(s, k) IN
         Took(s, r, k, TRUE) /\ (Freed(s, t) => Room(r, t))
<1> DEFINE y == [arrive |-> s.at, to |-> k]
           q == s.wq
           r == [s EXCEPT !.wq = Append(q, y)]
<1>1. r = Accept(s, k)
  BY DEF Accept
<1>2. s \in EngineT /\ Distinct(q) /\ q \in Seq(QueuedT) /\ s.at \in Int /\ Len(q) \in Nat
      /\ DOMAIN q = 1..Len(q)
  BY EngineIs DEF Engines
<1>3. y \in QueuedT /\ y.to = k /\ y.arrive = s.at
  BY <1>2 DEF QueuedT
<1> HIDE DEF y
<1>4. /\ Append(q, y) \in Seq(QueuedT) /\ Len(Append(q, y)) = Len(q) + 1
      /\ Append(q, y)[Len(q) + 1] = y /\ \A i \in 1..Len(q) : Append(q, y)[i] = q[i]
      /\ DOMAIN Append(q, y) = 1..(Len(q) + 1)
  BY <1>2, <1>3
<1>5. /\ r \in EngineT /\ r.wq = Append(q, y) /\ r.chan = s.chan /\ r.leaving = s.leaving
      /\ r.merged = s.merged /\ r.at = s.at
  BY <1>2, <1>4 DEF EngineT
<1> HIDE DEF r
<1>6. \A i \in 1..Len(q) : q[i].to.addr # k.addr
  BY <1>2 DEF InQueue
<1>7. Distinct(r.wq)
  <2>a. DOMAIN r.wq = 1..(Len(q) + 1)
    BY <1>4, <1>5
  <2> SUFFICES ASSUME NEW i \in 1..(Len(q) + 1), NEW j \in 1..(Len(q) + 1),
                      r.wq[i].to.addr = r.wq[j].to.addr
               PROVE  i = j
    BY <2>a DEF Distinct
  <2>1. \A z \in 1..(Len(q) + 1) : z \in 1..Len(q) \/ z = Len(q) + 1
    BY <1>2
  <2>2. CASE i \in 1..Len(q) /\ j \in 1..Len(q)
    <3>1. r.wq[i] = q[i] /\ r.wq[j] = q[j] /\ i \in DOMAIN q /\ j \in DOMAIN q
      BY <1>2, <1>4, <1>5, <2>2
    <3>2. QED BY <1>2, <3>1 DEF Distinct
  <2>3. CASE i \in 1..Len(q) /\ j = Len(q) + 1
    BY <1>3, <1>4, <1>5, <1>6, <2>3
  <2>4. CASE i = Len(q) + 1 /\ j \in 1..Len(q)
    BY <1>3, <1>4, <1>5, <1>6, <2>4
  <2>5. QED BY <2>1, <2>2, <2>3, <2>4
<1>8. r \in Engines
  BY <1>5, <1>7 DEF Engines
<1>9. \A x \in ToSet(q) : x \in ToSet(r.wq)
  <2> SUFFICES ASSUME NEW i \in 1..Len(q) PROVE q[i] \in ToSet(r.wq)
    BY <1>2 DEF ToSet
  <2>1. q[i] = r.wq[i] /\ i \in DOMAIN r.wq
    BY <1>2, <1>4, <1>5
  <2>2. QED BY <2>1 DEF ToSet
<1>10. \A x \in ToSet(r.wq) : x \in ToSet(q) \/ x = y
  <2> SUFFICES ASSUME NEW i \in 1..(Len(q) + 1) PROVE r.wq[i] \in ToSet(q) \/ r.wq[i] = y
    BY <1>4, <1>5 DEF ToSet
  <2>1. i \in 1..Len(q) \/ i = Len(q) + 1
    BY <1>2
  <2>2. QED BY <1>2, <1>4, <1>5, <2>1 DEF ToSet
<1>11. \A c \in Chans : Len(s.chan[c].log) \in Nat
  BY <1>2, EngineIs
<1>12. Grown(s, r) /\ OwnRead(s, r, k)
  BY <1>5, <1>9, <1>11 DEF Grown, OwnRead, Extends
<1>13. Tally(r) = Tally(s) + 1
  <2>1. s.chan \in [Chans -> Channels]
    BY <1>2, EngineIs
  <2>2. Cardinality(WritesIn(s.chan)) \in Nat
    BY <2>1, WritesAre
  <2>3. PICK g \in Int, x \in Int, z \in Int :
          g = s.merged /\ x = Len(q) /\ z = Cardinality(WritesIn(s.chan))
    <3>1. s.merged \in Int
      BY <1>2, EngineIs
    <3>2. QED BY <1>2, <2>2, <3>1
  <2>4. Tally(s) = g + x + z /\ Tally(r) = g + (x + 1) + z
    BY <1>4, <1>5, <2>3 DEF Tally, q
  <2>5. QED BY <2>4
<1>14. Took(s, r, k, TRUE)
  BY <1>3, <1>8, <1>10, <1>12, <1>13 DEF Took
<1>15. ASSUME Freed(s, t) PROVE Room(r, t)
  <2>1. PICK D \in Int : /\ Slots(s, D) /\ Total(s) < wq_depth /\ D <= s.at
                         /\ D <= t \/ Total(s) + 1 = wq_depth
    BY <1>15 DEF Freed
  <2>2. Slots(r, D)
    BY <1>5, <2>1 DEF Slots
  <2>3. Total(r) = Total(s) + 1 /\ Total(s) \in Nat
    <3>1. PICK x \in Int, z \in Int : x = Len(q) /\ z = Len(s.leaving)
      BY <1>2, TotalIs
    <3>2. Total(s) = x + z /\ Total(r) = (x + 1) + z
      BY <1>4, <1>5, <3>1 DEF Total, q
    <3>3. Total(s) \in Nat
      BY TotalIs
    <3>4. QED BY <3>2, <3>3
  <2>4. Late(r, D)
    BY <1>3, <1>4, <1>5, <2>1 DEF Late
  <2>5. Total(r) <= wq_depth
    BY <2>1, <2>3, Times
  <2>6. QED BY <2>1, <2>2, <2>3, <2>4, <2>5 DEF Room
<1>16. QED BY <1>1, <1>14, <1>15

\* A read that the queue answers takes nothing.
LEMMA KeptTakes ==
  ASSUME NEW s \in Engines, NEW r, Kept(s, r), NEW k
  PROVE  Took(s, r, k, FALSE)
<1>1. r \in Engines /\ Grown(s, r) /\ NoReads(s, r) /\ ToSet(r.wq) \subseteq ToSet(s.wq)
  BY DEF Kept, Moved
<1>2. Tally(r) = Tally(s) + 0
  <2>1. s.merged \in Int /\ Len(s.wq) \in Int /\ s.chan \in [Chans -> Channels]
    BY EngineIs DEF Engines
  <2>2. Cardinality(WritesIn(s.chan)) \in Nat
    BY <2>1, WritesAre
  <2>3. PICK z \in Nat : z = Cardinality(WritesIn(s.chan))
    BY <2>2
  <2>4. PICK g \in Int, x \in Int : g = s.merged /\ x = Len(s.wq)
    BY <2>1
  <2>5. Tally(s) = g + x + z
    BY <2>3, <2>4 DEF Tally
  <2>6. Tally(s) + 0 = Tally(s)
    BY <2>5
  <2>7. QED BY <2>6 DEF Kept, Moved
<1>3. OwnRead(s, r, k)
  BY <1>1 DEF OwnRead, NoReads
<1>4. QED BY <1>1, <1>2, <1>3 DEF Took

\* The burst waits in the queue.
LEMMA InQueueIs ==
  ASSUME NEW s \in Engines, NEW k
  PROVE  InQueue(s, k) <=> \E q \in ToSet(s.wq) : q.to.addr = k.addr
<1>1. \A i \in DOMAIN s.wq : s.wq[i] \in ToSet(s.wq)
  BY DEF ToSet
<1>2. \A q \in ToSet(s.wq) : \E i \in DOMAIN s.wq : q = s.wq[i]
  BY DEF ToSet
<1>3. QED BY <1>1, <1>2 DEF InQueue

\* A write of a burst that waits is merged with it.
LEMMA MergeTakes ==
  ASSUME NEW s \in Engines, NEW a \in Int, NEW k, NEW t
  PROVE  LET r == [s EXCEPT !.merged = @ + 1, !.done = a] IN
         Took(s, r, k, TRUE) /\ (Room(s, t) => Room(r, t))
<1> DEFINE r == [s EXCEPT !.merged = s.merged + 1, !.done = a]
<1>1. s \in EngineT /\ s.merged \in Int /\ s.merged + 1 \in Int
  BY EngineIs DEF Engines
<1>2. /\ r \in EngineT /\ r.chan = s.chan /\ r.wq = s.wq /\ r.leaving = s.leaving
      /\ r.merged = s.merged + 1
  BY <1>1 DEF EngineT
<1>3. r = [s EXCEPT !.merged = @ + 1, !.done = a]
  BY DEF EngineT
<1> HIDE DEF r
<1>4. r \in Engines
  BY <1>2 DEF Engines
<1>5. \A c \in Chans : Len(s.chan[c].log) \in Nat
  BY <1>1, EngineIs
<1>6. Grown(s, r) /\ OwnRead(s, r, k)
  BY <1>2, <1>5 DEF Grown, OwnRead, Extends
<1>7. Tally(r) = Tally(s) + 1
  <2>1. Len(s.wq) \in Int /\ s.chan \in [Chans -> Channels]
    BY <1>1, EngineIs
  <2>2. Cardinality(WritesIn(s.chan)) \in Nat
    BY <2>1, WritesAre
  <2>3. PICK z \in Nat : z = Cardinality(WritesIn(s.chan))
    BY <2>2
  <2>4. PICK g \in Int, x \in Int : g = s.merged /\ x = Len(s.wq)
    BY <1>1, <2>1
  <2>5. Tally(s) = g + x + z /\ Tally(r) = (g + 1) + x + z
    BY <1>2, <2>3, <2>4 DEF Tally
  <2>6. QED BY <2>5
<1>8. \A D \in Int : (Slots(s, D) => Slots(r, D)) /\ (Late(s, D) => Late(r, D))
  BY <1>2 DEF Slots, Late
<1>9. Total(r) = Total(s)
  BY <1>2 DEF Total
<1>10. Room(s, t) => Room(r, t)
  BY <1>8, <1>9 DEF Room
<1>11. QED BY <1>2, <1>3, <1>4, <1>6, <1>7, <1>10 DEF Took

\* queued(), when the burst waits in the queue or not.
LEMMA LookupTakes ==
  ASSUME NEW s \in Engines, wq_depth > 0, NEW a \in Int, NEW k \in BurstT, NEW w \in BOOLEAN
  PROVE  LET r == Lookup(s, a, k, w) IN
         Took(s, r, k, w) /\ (Room(s, a) => Room(r, a))
<1> DEFINE r == Lookup(s, a, k, w)
<1>1. CASE InQueue(s, k) /\ w
  <2>1. r = [s EXCEPT !.merged = @ + 1, !.done = a]
    BY <1>1 DEF Lookup
  <2>2. Took(s, r, k, TRUE) /\ (Room(s, a) => Room(r, a))
    BY <2>1, MergeTakes
  <2>3. w = TRUE
    BY <1>1
  <2>4. QED BY <2>2, <2>3
<1>2. CASE InQueue(s, k) /\ ~w
  <2>1. r = [s EXCEPT !.done = a + tCK]
    BY <1>2 DEF Lookup
  <2>2. a + tCK \in Int
    BY Times
  <2>3. s \in EngineT
    BY DEF Engines
  <2> HIDE DEF r
  <2>4. /\ r \in EngineT /\ r.chan = s.chan /\ r.wq = s.wq /\ r.leaving = s.leaving
        /\ r.merged = s.merged
    BY <2>1, <2>2, <2>3 DEF EngineT
  <2>5. Kept(s, r) /\ (Room(s, a) => Room(r, a))
    BY <2>4, SetKeeps
  <2>6. Took(s, r, k, FALSE)
    BY <2>5, KeptTakes
  <2>7. w = FALSE
    BY <1>2
  <2>8. QED BY <2>5, <2>6, <2>7 DEF r
<1>3. CASE ~InQueue(s, k) /\ ~w
  <2>1. r = Burst(s, a, k, w, Nothing)
    <3>1. w = FALSE
      BY <1>3
    <3>2. QED BY <1>3, <3>1 DEF Lookup
  <2>2. \A q \in ToSet(s.wq) : q.to.addr # k.addr
    BY <1>3, InQueueIs
  <2>3. Took(s, r, k, w) /\ (Room(s, a) => Room(r, a))
    BY <1>3, <2>1, <2>2, BurstTakes
  <2>4. QED BY <2>3
<1>4. CASE ~InQueue(s, k) /\ w
  <2> DEFINE u0 == Retire(s, a)
             u1 == [u0 EXCEPT !.at = a]
             u2 == MakeRoom(u1)
             u3 == Accept(u2, k)
             u4 == IF Len(u3.wq) > wq_high THEN Batch(u3, u3.at) ELSE u3
             u5 == [u4 EXCEPT !.done = u3.at]
  <2>1. r = u5
    BY <1>4 DEF Lookup, PastHigh
  <2> HIDE DEF r
  <2>2. Room(s, a) => Held(s, a)
    BY DEF Room, Held
  <2>3. Kept(s, u0) /\ (Held(s, a) => Held(u0, a)) /\ u0 \in Engines /\ u0 \in EngineT
    BY RetireKeeps DEF Kept, Engines
  <2> HIDE DEF u0
  <2>4. /\ u1 \in EngineT /\ u1.chan = u0.chan /\ u1.wq = u0.wq /\ u1.leaving = u0.leaving
        /\ u1.merged = u0.merged /\ u1.at = a
    BY <2>3 DEF EngineT
  <2> HIDE DEF u1
  <2>5. Kept(u0, u1) /\ (Held(u0, a) => Held(u1, a)) /\ u1 \in Engines
    <3>1. Kept(u0, u1) /\ (Held(u0, a) => Held(u1, a))
      BY <2>3, <2>4, SetKeeps
    <3>2. QED BY <3>1 DEF Kept
  <2>6. Kept(u1, u2) /\ (Held(u1, a) /\ u1.at = a => Freed(u2, a)) /\ u2 \in Engines
    <3>1. Kept(u1, u2) /\ (Held(u1, a) /\ u1.at = a => Freed(u2, a))
      BY <2>5, RoomKeeps
    <3>2. QED BY <3>1 DEF Kept
  <2> HIDE DEF u2
  <2>7. Kept(s, u2)
    <3>1. Kept(s, u1)
      BY <2>3, <2>5, KeptTwice
    <3>2. QED BY <2>5, <2>6, <3>1, KeptTwice
  <2>8. ~InQueue(u2, k)
    <3>1. ToSet(u2.wq) \subseteq ToSet(s.wq)
      BY <2>7 DEF Kept
    <3>2. QED BY <1>4, <2>6, <3>1, InQueueIs
  <2>9. Took(u2, u3, k, TRUE) /\ (Freed(u2, a) => Room(u3, a)) /\ u3 \in Engines
    <3>1. Took(u2, u3, k, TRUE) /\ (Freed(u2, a) => Room(u3, a))
      BY <2>6, <2>8, AcceptTakes
    <3>2. QED BY <3>1 DEF Took
  <2> HIDE DEF u3
  <2>10. u3.at \in Int
    BY <2>9, EngineIs DEF Engines
  <2>11. Kept(u3, u4) /\ (Room(u3, a) => Room(u4, a)) /\ u4 \in Engines /\ u4 \in EngineT
    <3>1. CASE Len(u3.wq) > wq_high
      <4>1. Served(u3, Batch(u3, u3.at))
        BY <2>9, <2>10, BatchServes
      <4>2. Served(u3, u4)
        BY <3>1, <4>1
      <4> HIDE DEF u4
      <4>3. Kept(u3, u4) /\ (Room(u3, a) => Room(u4, a))
        BY <2>9, <4>2, ServedKeeps
      <4>4. QED BY <4>3 DEF Kept, Engines
    <3>2. CASE ~(Len(u3.wq) > wq_high)
      <4>1. u4 = u3
        BY <3>2
      <4> HIDE DEF u4
      <4>2. Kept(u3, u3)
        BY <2>9, MovedNot DEF Kept, Engines
      <4>3. QED BY <2>9, <4>1, <4>2 DEF Engines
    <3>3. QED BY <3>1, <3>2
  <2> HIDE DEF u4
  <2>12. /\ u5 \in EngineT /\ u5.chan = u4.chan /\ u5.wq = u4.wq /\ u5.leaving = u4.leaving
         /\ u5.merged = u4.merged
    BY <2>10, <2>11 DEF EngineT
  <2> HIDE DEF u5
  <2>13. Kept(u4, u5) /\ (Room(u4, a) => Room(u5, a)) /\ u5 \in Engines
    <3>1. Kept(u4, u5) /\ (Room(u4, a) => Room(u5, a))
      BY <2>11, <2>12, SetKeeps
    <3>2. QED BY <3>1 DEF Kept
  <2>14. Kept(u3, u5)
    BY <2>9, <2>11, <2>13, KeptTwice
  <2>15. Took(s, u3, k, TRUE)
    BY <2>6, <2>7, <2>9, TookAfter
  <2>16. Took(s, u5, k, TRUE)
    BY <2>9, <2>13, <2>14, <2>15, TookBefore
  <2>17. Room(s, a) => Room(u5, a)
    BY <2>2, <2>3, <2>4, <2>5, <2>6, <2>9, <2>11, <2>13
  <2>18. w = TRUE
    BY <1>4
  <2>19. QED BY <2>1, <2>16, <2>17, <2>18 DEF r
<1>5. QED BY <1>1, <1>2, <1>3, <1>4

\* One burst of an access; k is its decoded address.
LEMMA OneBurstTakes ==
  ASSUME NEW s \in Engines, NEW a \in Int, NEW k \in BurstT, NEW w \in BOOLEAN,
         wq_depth = 0 => s.wq = <<>>
  PROVE  LET r == OneBurst(s, a, k, w) IN
         /\ Took(s, r, k, w)
         /\ wq_depth = 0 => r.wq = <<>>
         /\ wq_depth > 0 /\ Room(s, a) => Room(r, a)
<1> DEFINE u == IF wq_depth > 0 THEN Queued(s, a, k, w) ELSE Burst(s, a, k, w, Nothing)
           r == [u EXCEPT !.all = Later(u.all, u.done)]
<1>1. OneBurst(s, a, k, w) = r
  BY DEF OneBurst
<1>2. /\ Took(s, u, k, w) /\ (wq_depth = 0 => u.wq = <<>>)
      /\ (wq_depth > 0 /\ Room(s, a) => Room(u, a))
  <2>1. CASE wq_depth > 0
    <3> DEFINE d == DrainIdle(s, a)
    <3>1. u = Lookup(d, a, k, w)
      BY <2>1 DEF Queued
    <3> HIDE DEF u
    <3>2. Served(s, d)
      BY DrainServes
    <3> HIDE DEF d
    <3>3. d \in Engines /\ Kept(s, d) /\ (Room(s, a) => Room(d, a))
      BY <3>2, ServedKeeps DEF Served
    <3>4. Took(d, u, k, w) /\ (Room(d, a) => Room(u, a))
      BY <2>1, <3>1, <3>3, LookupTakes
    <3>5. u \in Engines
      BY <3>4 DEF Took
    <3>6. Took(s, u, k, w)
      BY <3>3, <3>4, <3>5, TookAfter
    <3>7. ~(wq_depth = 0)
      BY <2>1
    <3>8. QED BY <3>3, <3>4, <3>6, <3>7
  <2>2. CASE ~(wq_depth > 0)
    <3>1. wq_depth = 0
      BY <2>2, Times
    <3>2. u = Burst(s, a, k, w, Nothing)
      BY <2>2
    <3> HIDE DEF u
    <3>3. \A q \in ToSet(s.wq) : q.to.addr # k.addr
      BY <3>1 DEF ToSet
    <3>4. Took(s, u, k, w) /\ u.wq = s.wq
      BY <3>2, <3>3, BurstTakes
    <3>5. QED BY <2>2, <3>1, <3>4
  <2>3. QED BY <2>1, <2>2
<1> HIDE DEF u
<1>3. u \in Engines /\ u \in EngineT
  BY <1>2 DEF Took, Engines
<1>4. Later(u.all, u.done) \in Int
  BY <1>3, EngineIs DEF Later
<1>5. /\ r \in EngineT /\ r.chan = u.chan /\ r.wq = u.wq /\ r.leaving = u.leaving
      /\ r.merged = u.merged
  BY <1>3, <1>4 DEF EngineT
<1> HIDE DEF r
<1>6. Kept(u, r) /\ (Room(u, a) => Room(r, a))
  BY <1>3, <1>5, SetKeeps
<1>7. r \in Engines
  BY <1>6 DEF Kept
<1>8. Took(s, r, k, w)
  BY <1>2, <1>3, <1>6, <1>7, TookBefore
<1>9. QED BY <1>1, <1>2, <1>5, <1>6, <1>8

------------------------------------------------------------------------------
(* An access. *)

\* Products of positive numbers are positive.
LEMMA Products == \A x, y \in Nat \ {0} : x * y \in Nat \ {0}
  OBVIOUS

\* decode() gives a bank, a row and a column the device has.
LEMMA DecodeIs ==
  ASSUME NEW a \in Nat
  PROVE  Decode(a) \in BurstT /\ Decode(a).addr = a
<1> DEFINE F == {"Ro", "Ra", "Bg", "Ba", "Co", "Ch"}
<1>1. \A f \in F : SizeOf[f] \in Nat \ {0}
  BY Times DEF SizeOf
<1>2. \A f \in F : Weight(f) \in Nat \ {0}
  <2> TAKE f \in F
  <2> DEFINE below == [g \in DOMAIN SizeOf |->
                         IF g \in ToSet(Fields) /\ Place(f) < Place(g) THEN SizeOf[g] ELSE 1]
  <2>1. DOMAIN SizeOf = F
    BY DEF SizeOf
  <2>2. \A g \in F : below[g] \in Nat \ {0}
    BY <1>1, <2>1
  <2>3. Weight(f) = below["Ro"] * below["Ra"] * below["Bg"] * below["Ba"] * below["Co"] * below["Ch"]
    BY DEF Weight
  <2> HIDE DEF below
  <2>4. below["Ro"] * below["Ra"] \in Nat \ {0}
    BY <2>2, Products
  <2>5. below["Ro"] * below["Ra"] * below["Bg"] \in Nat \ {0}
    BY <2>2, <2>4, Products
  <2>6. below["Ro"] * below["Ra"] * below["Bg"] * below["Ba"] \in Nat \ {0}
    BY <2>2, <2>5, Products
  <2>7. below["Ro"] * below["Ra"] * below["Bg"] * below["Ba"] * below["Co"] \in Nat \ {0}
    BY <2>2, <2>6, Products
  <2>8. QED BY <2>2, <2>3, <2>7, Products
<1>3. \A x \in Nat, y \in Nat \ {0} : x \div y \in Nat
  OBVIOUS
<1>4. \A x \in Nat, y \in Nat \ {0} : x % y \in 0..(y - 1)
  OBVIOUS
<1>5. \A f \in F : Field(a, f) \in 0..(SizeOf[f] - 1)
  <2> TAKE f \in F
  <2>1. a \div Weight(f) \in Nat
    BY <1>2, <1>3
  <2>2. (a \div Weight(f)) % SizeOf[f] \in 0..(SizeOf[f] - 1)
    BY <1>1, <1>4, <2>1
  <2>3. 0 \in 0..(SizeOf[f] - 1)
    BY <1>1
  <2>4. QED BY <2>2, <2>3 DEF Field
<1>6. /\ Field(a, "Ro") \in 0..(rows - 1) /\ Field(a, "Ra") \in 0..(ranks - 1)
      /\ Field(a, "Bg") \in 0..(bankgroups - 1) /\ Field(a, "Ba") \in 0..(banks - 1)
      /\ Field(a, "Co") \in 0..(cols - 1) /\ Field(a, "Ch") \in 0..(channels - 1)
  BY <1>5 DEF SizeOf
<1>7. <<Field(a, "Ra"), Field(a, "Bg"), Field(a, "Ba")>> \in Banks
  BY <1>6 DEF Banks, Ranks
<1>8. Field(a, "Ro") \in Nat /\ Field(a, "Co") \in Nat
  BY <1>6
<1>9. QED BY <1>6, <1>7, <1>8 DEF Decode, BurstT

AskedFor(s) == \A q \in ToSet(s.wq) : q.to \in Asked

\* A read of what waited in s, on its way from s to r, came after its write.
SawWrites(s, r) ==
  \A c \in Chans : \A j \in (Len(s.chan[c].log) + 1)..Len(r.chan[c].log) :
    \A q \in ToSet(s.wq) :
      LET x == r.chan[c].log[j] IN
      x.cmd = "COL" /\ ~x.w /\ q.to.ch = c /\ Target(x) = <<q.to.bank, q.to.row, q.to.col>> =>
        \E i \in (Len(s.chan[c].log) + 1)..(j - 1) :
          LET y == r.chan[c].log[i] IN y.cmd = "COL" /\ y.w /\ Target(y) = Target(x)

\* One burst more of an access.
LEMMA SawTwice ==
  ASSUME NEW s \in Engines, NEW d \in Engines, NEW r \in Engines, NEW k \in Asked, NEW w,
         Grown(s, d), SawWrites(s, d), Took(d, r, k, w), AskedFor(s)
  PROVE  SawWrites(s, r)
<1>1. s \in EngineT /\ d \in EngineT /\ r \in EngineT
  BY DEF Engines
<1>2. Grown(d, r) /\ OwnRead(d, r, k)
  BY DEF Took
<1> SUFFICES ASSUME NEW c \in Chans, NEW j \in (Len(s.chan[c].log) + 1)..Len(r.chan[c].log),
                    NEW q \in ToSet(s.wq), r.chan[c].log[j].cmd = "COL", ~r.chan[c].log[j].w,
                    q.to.ch = c, Target(r.chan[c].log[j]) = <<q.to.bank, q.to.row, q.to.col>>
             PROVE  \E i \in (Len(s.chan[c].log) + 1)..(j - 1) :
                      /\ r.chan[c].log[i].cmd = "COL" /\ r.chan[c].log[i].w
                      /\ Target(r.chan[c].log[i]) = Target(r.chan[c].log[j])
  BY DEF SawWrites
<1> DEFINE l == s.chan[c].log
           m == d.chan[c].log
           o == r.chan[c].log
<1>3. /\ Len(l) \in Nat /\ Len(m) \in Nat /\ Len(o) \in Nat /\ Len(l) <= Len(m)
      /\ Len(m) <= Len(o) /\ \A i \in 1..Len(m) : o[i] = m[i]
  BY <1>1, <1>2, EngineIs DEF Grown, Extends
<1>4. j \in (Len(l) + 1)..Len(o) /\ o[j].cmd = "COL" /\ ~o[j].w
      /\ Target(o[j]) = <<q.to.bank, q.to.row, q.to.col>>
  OBVIOUS
<1>5. CASE j <= Len(m)
  <2>1. j \in (Len(l) + 1)..Len(m) /\ o[j] = m[j]
    <3> HIDE DEF l, m, o
    <3>1. j \in (Len(l) + 1)..Len(m) /\ j \in 1..Len(m)
      BY <1>3, <1>4, <1>5
    <3>2. QED BY <1>3, <3>1
  <2>2. PICK i \in (Len(l) + 1)..(j - 1) : m[i].cmd = "COL" /\ m[i].w /\ Target(m[i]) = Target(m[j])
    BY <1>4, <2>1 DEF SawWrites
  <2> HIDE DEF l, m, o
  <2>3. o[i] = m[i]
    <3>1. i \in 1..Len(m)
      BY <1>3, <2>1
    <3>2. QED BY <1>3, <3>1
  <2>4. QED BY <2>1, <2>2, <2>3 DEF l, o
<1>6. CASE ~(j <= Len(m))
  <2>1. j \in (Len(m) + 1)..Len(o) /\ Len(m) < j
    <3> HIDE DEF l, m, o
    <3>1. QED BY <1>3, <1>4, <1>6
  <2>2. c = k.ch /\ Target(o[j]) = <<k.bank, k.row, k.col>>
    BY <1>2, <1>4, <2>1 DEF OwnRead
  <2>3. q.to.addr = k.addr
    <3>1. q.to \in Asked /\ q.to.ch = k.ch
      BY <2>2 DEF AskedFor
    <3>2. <<q.to.bank, q.to.row, q.to.col>> = <<k.bank, k.row, k.col>>
      BY <1>4, <2>2
    <3>3. QED BY <3>1, <3>2, PlacesDiffer
  <2>4. CASE q \in ToSet(d.wq)
    <3>1. PICK i \in (Len(m) + 1)..Len(o) :
            o[i].cmd = "COL" /\ o[i].w /\ Target(o[i]) = <<q.to.bank, q.to.row, q.to.col>> /\ i < j
      BY <1>2, <1>4, <2>1, <2>3, <2>4 DEF OwnRead
    <3>2. Target(o[i]) = Target(o[j])
      BY <1>4, <3>1
    <3> HIDE DEF l, m, o
    <3>3. i \in (Len(l) + 1)..(j - 1)
      BY <1>3, <1>4, <3>1
    <3>4. QED BY <3>1, <3>2, <3>3 DEF l, o
  <2>5. CASE q \notin ToSet(d.wq)
    <3>1. PICK i \in (Len(l) + 1)..Len(m) :
            m[i].cmd = "COL" /\ m[i].w /\ Target(m[i]) = <<q.to.bank, q.to.row, q.to.col>>
      BY <2>5 DEF Grown, Gone
    <3> HIDE DEF l, m, o
    <3>2. i \in (Len(l) + 1)..(j - 1) /\ o[i] = m[i]
      BY <1>3, <1>4, <2>1
    <3>3. Target(o[i]) = Target(o[j])
      BY <1>4, <3>1, <3>2
    <3>4. QED BY <3>1, <3>2, <3>3 DEF l, o
  <2>6. QED BY <2>4, <2>5
<1>7. QED BY <1>5, <1>6

\* An access, burst by burst: r is s after k of them.
Sofar(s, r, a, w, k) ==
  /\ r \in Engines /\ Grown(s, r) /\ Tally(r) = Tally(s) + (IF w THEN k ELSE 0)
  /\ wq_depth = 0 => r.wq = <<>>
  /\ wq_depth > 0 /\ Room(s, a) => Room(r, a)
  /\ AskedFor(r) /\ SawWrites(s, r)

\* An access begins.
LEMMA SofarStarts ==
  ASSUME NEW s \in Engines, NEW a, NEW w, wq_depth = 0 => s.wq = <<>>, AskedFor(s)
  PROVE  Sofar(s, s, a, w, 0)
<1>1. s \in EngineT
  BY DEF Engines
<1>2. \A c \in Chans : Len(s.chan[c].log) \in Nat
  BY <1>1, EngineIs
<1>3. Tally(s) = Tally(s) + (IF w THEN 0 ELSE 0)
  <2>1. s.merged \in Int /\ Len(s.wq) \in Int /\ s.chan \in [Chans -> Channels]
    BY <1>1, EngineIs
  <2>2. Cardinality(WritesIn(s.chan)) \in Nat
    BY <2>1, WritesAre
  <2>3. PICK z \in Nat : z = Cardinality(WritesIn(s.chan))
    BY <2>2
  <2>4. PICK g \in Int, x \in Int : g = s.merged /\ x = Len(s.wq)
    BY <2>1
  <2>5. Tally(s) = g + x + z
    BY <2>3, <2>4 DEF Tally
  <2>6. QED BY <2>5
<1>4. Grown(s, s) /\ SawWrites(s, s)
  BY <1>2 DEF Grown, SawWrites, Extends
<1>5. QED BY <1>3, <1>4 DEF Sofar

\* Each of its bursts keeps what holds so far, ...
LEMMA SofarGoesOn ==
  ASSUME NEW s \in Engines, AskedFor(s), NEW x, NEW a \in Int, NEW w \in BOOLEAN, NEW j \in Nat,
         Sofar(s, x, a, w, j), NEW k \in BurstT, k \in Asked
  PROVE  Sofar(s, OneBurst(x, a, k, w), a, w, j + 1)
<1> DEFINE r == OneBurst(x, a, k, w)
<1>1. /\ x \in Engines /\ Grown(s, x) /\ Tally(x) = Tally(s) + (IF w THEN j ELSE 0)
      /\ (wq_depth = 0 => x.wq = <<>>) /\ AskedFor(x) /\ SawWrites(s, x)
      /\ (wq_depth > 0 /\ Room(s, a) => Room(x, a))
  BY DEF Sofar
<1>2. /\ Took(x, r, k, w) /\ (wq_depth = 0 => r.wq = <<>>)
      /\ (wq_depth > 0 /\ Room(x, a) => Room(r, a))
  BY <1>1, OneBurstTakes
<1> HIDE DEF r
<1>3. /\ r \in Engines /\ Grown(x, r) /\ Tally(r) = Tally(x) + (IF w THEN 1 ELSE 0)
      /\ \A q \in ToSet(r.wq) : q \in ToSet(x.wq) \/ q.to = k
  BY <1>2 DEF Took
<1>4. Grown(s, r)
  BY <1>1, <1>3, GrownTwice DEF Engines
<1>5. Tally(r) = Tally(s) + (IF w THEN j + 1 ELSE 0)
  <2>1. s.merged \in Int /\ Len(s.wq) \in Int /\ s.chan \in [Chans -> Channels]
    BY EngineIs DEF Engines
  <2>2. Cardinality(WritesIn(s.chan)) \in Nat
    BY <2>1, WritesAre
  <2>3. PICK z \in Nat : z = Cardinality(WritesIn(s.chan))
    BY <2>2
  <2>4. PICK g \in Int, y \in Int : g = s.merged /\ y = Len(s.wq)
    BY <2>1
  <2>5. PICK v \in Int : v = Tally(s)
    BY <2>3, <2>4 DEF Tally
  <2>6. Tally(x) = v + (IF w THEN j ELSE 0) /\ Tally(r) = Tally(x) + (IF w THEN 1 ELSE 0)
    BY <1>1, <1>3, <2>5
  <2>7. CASE w
    BY <2>5, <2>6, <2>7
  <2>8. CASE ~w
    BY <2>5, <2>6, <2>8
  <2>9. QED BY <2>7, <2>8
<1>6. AskedFor(r)
  BY <1>1, <1>3 DEF AskedFor
<1>7. SawWrites(s, r)
  BY <1>1, <1>2, <1>3, SawTwice
<1>8. Sofar(s, r, a, w, j + 1)
  BY <1>1, <1>2, <1>3, <1>4, <1>5, <1>6, <1>7 DEF Sofar
<1>9. QED BY <1>8 DEF r

\* ... and so it holds when all are done.
LEMMA GranulesTake ==
  ASSUME NEW s \in Engines, NEW a \in Int, NEW line \in Lines, NEW span \in Spans,
         NEW w \in BOOLEAN, wq_depth = 0 => s.wq = <<>>, AskedFor(s)
  PROVE  Sofar(s, Granules(s, a, line, span, w), a, w, nb * span)
<1> DEFINE N == nb * span
           V == [k \in 0..N |-> {r \in Engines : Sofar(s, r, a, w, k)}]
<1>1. N \in Nat /\ line \in Nat /\ line * nb \in Nat
  <2>1. line \in Nat /\ span \in Nat /\ nb \in Nat
    BY Parameters, Times
  <2>2. \A x, y \in Nat : x * y \in Nat
    OBVIOUS
  <2>3. QED BY <2>1, <2>2
<1>2. Sofar(s, s, a, w, 0)
  BY SofarStarts
<1>3. \A k \in 1..N : Decode(line * nb + k - 1) \in BurstT /\ Decode(line * nb + k - 1) \in Asked
  <2> TAKE k \in 1..N
  <2>1. line * nb + k - 1 \in Nat
    BY <1>1
  <2>2. Decode(line * nb + k - 1) \in BurstT
    BY <2>1, DecodeIs
  <2>3. Decode(line * nb + k - 1) \in Asked
    <3> DEFINE Bursts(l, m) == {Decode(l * nb + i - 1) : i \in 1..(nb * m)}
    <3>1. Decode(line * nb + k - 1) \in Bursts(line, span)
      OBVIOUS
    <3>2. Asked = UNION {Bursts(l, m) : l \in Lines, m \in Spans}
      BY DEF Asked
    <3> HIDE DEF Bursts
    <3>3. QED BY <3>1, <3>2
  <2>4. QED BY <2>2, <2>3
<1> HIDE DEF N
<1>4. 0 \in 0..N /\ N \in 0..N
      /\ \A k \in 1..N : k - 1 \in 0..N /\ k \in 0..N /\ k - 1 \in Nat /\ (k - 1) + 1 = k
  BY <1>1
<1>5. s \in V[0]
  BY <1>2, <1>4
<1>6. \A k \in 1..N : \A x \in V[k - 1] : OneBurst(x, a, Decode(line * nb + k - 1), w) \in V[k]
  <2> TAKE k \in 1..N
  <2> SUFFICES ASSUME NEW x \in Engines, Sofar(s, x, a, w, k - 1)
               PROVE  OneBurst(x, a, Decode(line * nb + k - 1), w) \in {r \in Engines : Sofar(s, r, a, w, k)}
    BY <1>4
  <2> DEFINE y == OneBurst(x, a, Decode(line * nb + k - 1), w)
  <2>1. Sofar(s, y, a, w, (k - 1) + 1)
    BY <1>3, <1>4, SofarGoesOn
  <2> HIDE DEF y
  <2>2. Sofar(s, y, a, w, k)
    BY <1>4, <2>1
  <2>3. y \in Engines
    BY <2>2 DEF Sofar
  <2>4. QED BY <2>2, <2>3 DEF y
<1>7. Granules(s, a, line, span, w) \in V[N]
  <2> HIDE DEF V
  <2>1. QED BY <1>1, <1>5, <1>6, GranulesIn DEF N
<1>8. QED BY <1>4, <1>7 DEF N

------------------------------------------------------------------------------
(* The inductive invariant. *)

\* A channel nobody has used.
LEMMA Channel0Is == Channel0 \in Channels
<1> DEFINE c == Channel0
<1>1. /\ c.banks = [b \in Banks |-> Bank0] /\ c.order = 0 /\ c.bus_free = 0
      /\ c.next_refresh = tREFI /\ c.log = <<>> /\ c.faw = [r \in Ranks |-> <<>>]
  BY DEF Channel0
<1>2. Bank0 \in BankT /\ Bank0.open = Nothing
  <2>1. Nothing \in Nat \cup {Nothing} /\ Never \in Int
    BY DEF Never
  <2>2. QED BY <2>1 DEF Bank0, BankT
<1>3. c \in ChannelT
  <2>1. <<>> \in Seq(Int) /\ <<>> \in Seq(Command) /\ <<Nothing, Nothing>> \in Int \X Int
        /\ Never \in Int /\ tREFI \in Int
    BY Times DEF Never, Nothing
  <2>2. [b \in Banks |-> Bank0] \in [Banks -> BankT] /\ [r \in Ranks |-> <<>>] \in [Ranks -> Seq(Int)]
    BY <1>2, <2>1
  <2> HIDE DEF Nothing, Never
  <2>3. QED BY <2>1, <2>2 DEF Channel0, ChannelT
<1>4. Len(c.log) = 0 /\ c.faw[0] = <<>>
  BY <1>1, BanksAre
<1> HIDE DEF c
<1>5. Paired(c.log) /\ FawKept(c.log) /\ (\A i \in 1..Len(c.log) : Behind(c, c.log[i]))
      /\ RowsInOrder(c) /\ TurnsHold(c)
  BY <1>4 DEF Paired, FawKept, RowsInOrder, TurnsHold, TurnsKept, TurnsBehind
<1>6. OpenRows(c)
  BY <1>1, <1>2 DEF OpenRows
<1>7. FawHolds(c)
  <2>1. Acts(c.log, Len(c.log)) = {}
    BY <1>4 DEF Acts
  <2>2. Cardinality(Acts(c.log, Len(c.log))) = 0
    BY <2>1, FS_EmptySet
  <2>3. Len(c.faw[0]) = 0
    BY <1>4
  <2>4. QED BY <2>2, <2>3 DEF FawHolds
<1>8. InReach(c)
  <2>1. Bank0.act = Never /\ Bank0.act_ok = 0 /\ Bank0.pre_ok = 0
    BY DEF Bank0
  <2>2. \A b \in Banks : c.banks[b].act = Never /\ c.banks[b].act_ok = 0 /\ c.banks[b].pre_ok = 0
    BY <1>1, <2>1
  <2>3. Far \in Nat /\ tRAS <= Far
    BY Times DEF Far
  <2>4. 0 <= tREFI + Far /\ Never + tRAS <= tREFI + Far
    BY <2>3, Times DEF Never
  <2>5. QED BY <1>1, <2>2, <2>4 DEF InReach
<1>9. QED BY <1>3, <1>5, <1>6, <1>7, <1>8 DEF Channels, ChannelInv, c

\* The engine's state, as one record.
EngineNow == [chan |-> chan, wq |-> wq, leaving |-> leaving, merged |-> merged,
              done |-> 0, all |-> 0, at |-> 0]

\* What holds between two accesses: every channel's state stands for its history
\* (Channels, in Engines), the queue holds each burst once, the counts add up, and
\* the slots are accounted for from the next access on.
IInv ==
  /\ EngineNow \in Engines /\ AskedFor(EngineNow)
  /\ now \in Nat /\ access.old \in [Chans -> Nat]
  /\ writes = Tally(EngineNow)
  /\ wq_depth = 0 => wq = <<>>
  /\ wq_depth > 0 /\ channels = 1 => Room(EngineNow, now + ctrl \div 2)

\* The invariant holds in the beginning, ...
LEMMA InitHolds == Init => IInv
<1> SUFFICES ASSUME Init PROVE IInv
  OBVIOUS
<1> DEFINE s == EngineNow
<1>1. /\ chan = [c \in Chans |-> Channel0] /\ wq = <<>> /\ leaving = <<>> /\ now = 0
      /\ access.old = [c \in Chans |-> 0] /\ writes = 0 /\ merged = 0
  BY DEF Init, Chans
<1>2. s.chan = chan /\ s.wq = wq /\ s.leaving = leaving /\ s.merged = merged
  BY DEF EngineNow
<1>3. chan \in [Chans -> Channels]
  BY <1>1, Channel0Is
<1>4. s \in EngineT
  <2>1. wq \in Seq(QueuedT) /\ leaving \in Seq(Int) /\ merged \in Int /\ 0 \in Int
    BY <1>1
  <2>2. QED BY <1>3, <2>1 DEF EngineNow, EngineT
<1>5. DOMAIN s.wq = {} /\ Len(s.wq) = 0 /\ Len(s.leaving) = 0
  BY <1>1, <1>2
<1> HIDE DEF s
<1>6. s \in Engines
  BY <1>4, <1>5 DEF Engines, Distinct
<1>7. AskedFor(s)
  BY <1>5 DEF AskedFor, ToSet
<1>8. WritesIn(s.chan) = {}
  <2>1. \A c \in Chans : Len(s.chan[c].log) = 0
    BY <1>1, <1>2 DEF Channel0
  <2>2. \A z \in WritesIn(s.chan) : FALSE
    <3> SUFFICES ASSUME NEW z \in WritesIn(s.chan) PROVE FALSE
      OBVIOUS
    <3>1. PICK h \in [Chans -> Channels] : h = s.chan
      BY <1>2, <1>3
    <3>2. z = <<z[1], z[2]>>
      BY <3>1, WritesAre
    <3>3. PICK c, i : z = <<c, i>>
      BY <3>2
    <3>4. c \in Chans /\ i \in 1..Len(h[c].log)
      BY <3>1, <3>3, WritesAre
    <3>5. QED BY <2>1, <3>1, <3>4
  <2>3. QED BY <2>2
<1>9. Tally(s) = 0
  <2>1. Cardinality(WritesIn(s.chan)) = 0
    BY <1>8, FS_EmptySet
  <2>2. QED BY <1>1, <1>2, <1>5, <2>1 DEF Tally
<1>10. ASSUME wq_depth > 0, channels = 1 PROVE Room(s, now + ctrl \div 2)
  <2>1. 0 \in Chans /\ s.chan[0].bus_free = 0
    <3>1. 0 \in Chans
      BY <1>10 DEF Chans
    <3>2. s.chan[0] = Channel0
      BY <1>1, <1>2, <3>1
    <3>3. QED BY <3>1, <3>2 DEF Channel0
  <2>2. \A u \in Int : Cardinality(Ending(s.chan, u)) <= Cardinality(Above(s.leaving, u))
    <3> TAKE u \in Int
    <3>1. Ending(s.chan, u) = {} /\ Above(s.leaving, u) = {}
      BY <1>5, <1>8 DEF Ending, Above
    <3>2. Cardinality(Ending(s.chan, u)) = 0 /\ Cardinality(Above(s.leaving, u)) = 0
      BY <3>1, FS_EmptySet
    <3>3. QED BY <3>2
  <2>3. Slots(s, 0)
    BY <1>5, <1>10, <2>1, <2>2 DEF Slots
  <2>4. Late(s, 0)
    BY <1>1, <1>2 DEF Late
  <2>5. Total(s) = 0
    BY <1>5 DEF Total
  <2>6. 0 <= now + ctrl \div 2
    <3>1. ctrl \div 2 \in Nat
      BY Times
    <3>2. QED BY <1>1, <3>1
  <2>7. Total(s) <= wq_depth /\ 0 \in Int
    BY <1>10, <2>5, Times
  <2>8. QED BY <2>3, <2>4, <2>6, <2>7 DEF Room
<1>11. QED BY <1>1, <1>6, <1>7, <1>9, <1>10 DEF IInv, s

\* One access, from the state before to the state after it.
LEMMA AccessIs ==
  ASSUME IInv, NEW gap \in Gaps, NEW line \in Lines, NEW span \in Spans, NEW w \in BOOLEAN,
         Access(gap, line, span, w)
  PROVE  /\ IInv'
         /\ SawWrites(EngineNow, EngineNow')
         /\ access'.old = [c \in Chans |-> Len(chan[c].log)]
<1> DEFINE a == now + gap + ctrl \div 2
           s == [chan |-> chan, wq |-> wq, leaving |-> leaving, merged |-> merged,
                 done |-> a, all |-> a, at |-> a]
           r == Granules(s, a, line, span, w)
           N == nb * span
<1>1. /\ now' = now + gap /\ chan' = r.chan /\ wq' = r.wq /\ leaving' = r.leaving
      /\ merged' = r.merged /\ writes' = IF w THEN writes + N ELSE writes
      /\ access'.old = [c \in DOMAIN chan |-> Len(chan[c].log)]
  BY DEF Access
<1>2. gap \in Nat /\ now \in Nat /\ ctrl \div 2 \in Nat /\ N \in Nat
  <2>1. gap \in Nat /\ span \in Nat /\ nb \in Nat
    BY Parameters, Times
  <2>2. \A x, y \in Nat : x * y \in Nat
    OBVIOUS
  <2>3. ctrl \div 2 \in Nat
    BY Times
  <2>4. QED BY <2>1, <2>2, <2>3 DEF IInv
<1>3. a \in Int /\ now + ctrl \div 2 <= a /\ a = now' + ctrl \div 2
  BY <1>1, <1>2
<1> HIDE DEF a, N
<1>4. EngineNow \in Engines /\ EngineNow \in EngineT
  BY DEF IInv, Engines
<1>5. /\ EngineNow.chan = chan /\ EngineNow.wq = wq /\ EngineNow.leaving = leaving
      /\ EngineNow.merged = merged
  BY DEF EngineNow
<1>6. /\ s.chan = chan /\ s.wq = wq /\ s.leaving = leaving /\ s.merged = merged /\ s \in EngineT
  BY <1>3, <1>4, <1>5 DEF EngineT
<1> HIDE DEF s
<1>7. Kept(EngineNow, s) /\ (Room(EngineNow, a) => Room(s, a)) /\ s \in Engines
  <2>1. Kept(EngineNow, s) /\ (Room(EngineNow, a) => Room(s, a))
    BY <1>3, <1>4, <1>5, <1>6, SetKeeps
  <2>2. QED BY <2>1 DEF Kept
<1>8. Tally(s) = Tally(EngineNow) /\ AskedFor(s) /\ (wq_depth = 0 => s.wq = <<>>)
  BY <1>5, <1>6 DEF IInv, Tally, AskedFor
<1>9. Sofar(s, r, a, w, nb * span)
  BY <1>3, <1>7, <1>8, GranulesTake
<1> HIDE DEF r
<1>10. /\ r \in Engines /\ Tally(r) = Tally(s) + (IF w THEN N ELSE 0)
       /\ (wq_depth = 0 => r.wq = <<>>) /\ (wq_depth > 0 /\ Room(s, a) => Room(r, a))
       /\ AskedFor(r) /\ SawWrites(s, r)
  BY <1>9 DEF Sofar, N
<1> DEFINE e == [chan |-> r.chan, wq |-> r.wq, leaving |-> r.leaving, merged |-> r.merged,
                 done |-> 0, all |-> 0, at |-> 0]
<1>11. EngineNow' = e
  BY <1>1 DEF EngineNow
<1>12. /\ e.chan = r.chan /\ e.wq = r.wq /\ e.leaving = r.leaving /\ e.merged = r.merged
       /\ e \in EngineT
  BY <1>10 DEF Engines, EngineT
<1> HIDE DEF e
<1>13. (Room(r, a) => Room(e, a)) /\ e \in Engines
  <2>1. Kept(r, e) /\ (Room(r, a) => Room(e, a))
    BY <1>3, <1>10, <1>12, SetKeeps
  <2>2. QED BY <2>1 DEF Kept
<1>14. AskedFor(e) /\ Tally(e) = Tally(r) /\ (wq_depth = 0 => wq' = <<>>)
  BY <1>1, <1>10, <1>12 DEF AskedFor, Tally
<1>15. writes' = Tally(e)
  <2>1. writes = Tally(EngineNow)
    BY DEF IInv
  <2>2. s.merged \in Int /\ Len(s.wq) \in Int /\ s.chan \in [Chans -> Channels]
    BY <1>6, EngineIs
  <2>3. Cardinality(WritesIn(s.chan)) \in Nat
    BY <2>2, WritesAre
  <2>4. PICK z \in Nat : z = Cardinality(WritesIn(s.chan))
    BY <2>3
  <2>5. PICK g \in Int, y \in Int : g = s.merged /\ y = Len(s.wq)
    BY <2>2
  <2>6. PICK v \in Int : v = Tally(s)
    BY <2>4, <2>5 DEF Tally
  <2>7. writes = v /\ Tally(e) = v + (IF w THEN N ELSE 0)
    BY <1>8, <1>10, <1>14, <2>1, <2>6
  <2>8. QED BY <1>1, <2>7
<1>16. ASSUME wq_depth > 0, channels = 1 PROVE Room(e, a)
  <2>1. PICK D \in Int : /\ Slots(EngineNow, D) /\ Late(EngineNow, D) /\ Total(EngineNow) <= wq_depth
                         /\ D <= now + ctrl \div 2 \/ Total(EngineNow) = wq_depth
    BY <1>16 DEF IInv, Room
  <2>2. D <= a \/ Total(EngineNow) = wq_depth
    <3>1. now + ctrl \div 2 \in Int
      BY <1>2
    <3>2. D <= now + ctrl \div 2 => D <= a
      BY <1>3, <3>1
    <3>3. QED BY <2>1, <3>2
  <2>3. Room(EngineNow, a)
    BY <2>1, <2>2 DEF Room
  <2>4. QED BY <1>7, <1>10, <1>13, <1>16, <2>3
<1>17. DOMAIN chan = Chans /\ \A c \in Chans : Len(chan[c].log) \in Nat
  BY <1>4, <1>5, EngineIs
<1>18. access'.old = [c \in Chans |-> Len(chan[c].log)] /\ access'.old \in [Chans -> Nat]
  BY <1>1, <1>17
<1>19. now' \in Nat
  BY <1>1, <1>2
<1>20. IInv'
  <2>1. wq_depth > 0 /\ channels = 1 => Room(EngineNow', now' + ctrl \div 2)
    BY <1>3, <1>11, <1>16
  <2>2. EngineNow' \in Engines /\ AskedFor(EngineNow') /\ writes' = Tally(EngineNow')
    BY <1>11, <1>13, <1>14, <1>15
  <2>3. QED BY <1>14, <1>18, <1>19, <2>1, <2>2 DEF IInv
<1>21. SawWrites(EngineNow, EngineNow')
  BY <1>5, <1>6, <1>10, <1>11, <1>12 DEF SawWrites
<1>22. QED BY <1>18, <1>20, <1>21

------------------------------------------------------------------------------
(* Skipping the refreshes of an idle stretch.                              *)

\* d, which has just been refreshed, when its last refresh ended at e and its next is
\* due at m.
Rested(d, e, m) ==
  [d EXCEPT !.log = <<>>, !.next_refresh = m,
            !.banks = [b \in Banks |-> [d.banks[b] EXCEPT !.act_ok = e]]]

\* d, whose refresh ended at e, after j more refreshes on the dot.
EndAfter(d, e, j) == IF j = 0 THEN e ELSE d.next_refresh + j * tREFI - tREFI + tRFC
After(d, e, j) == Rested(d, EndAfter(d, e, j), d.next_refresh + j * tREFI)

\* What that says of a channel with a history.
Rests(d, x, e, m) ==
  /\ x.next_refresh = m /\ x.bus_free = d.bus_free
  /\ \A b \in Banks : x.banks[b] = [d.banks[b] EXCEPT !.act_ok = e]
  /\ x = [d EXCEPT !.log = x.log, !.next_refresh = m, !.banks = x.banks]

\* Its fields.
LEMMA RestedIs ==
  ASSUME NEW d \in ChannelT, NEW x \in ChannelT, NEW e \in Int, NEW m \in Int,
         Untold(x) = Rested(d, e, m)
  PROVE  Rests(d, x, e, m)
<1> DEFINE B == [b \in Banks |-> [d.banks[b] EXCEPT !.act_ok = e]]
<1> HIDE DEF B
<1>1. [x EXCEPT !.log = <<>>] = [d EXCEPT !.log = <<>>, !.next_refresh = m, !.banks = B]
  BY DEF Untold, Rested, B
<1>2. x.next_refresh = m /\ x.bus_free = d.bus_free /\ x.banks = B
  BY <1>1 DEF ChannelT
<1>3. x = [d EXCEPT !.log = x.log, !.next_refresh = m, !.banks = x.banks]
  BY <1>1 DEF ChannelT
<1>4. QED BY <1>2, <1>3 DEF B, Rests

\* One more refresh of a rested channel starts on the dot.
LEMMA OneMore ==
  ASSUME NEW d \in ChannelT, NEW x \in ChannelT, NEW e \in Int, NEW m \in Int,
         Untold(x) = Rested(d, e, m), e <= m, d.bus_free <= m,
         \A b \in Banks : d.banks[b].open = Nothing
  PROVE  Untold(RefreshOne(x)) = Rested(d, m + tRFC, m + tREFI)
<1> HIDE DEF Nothing
<1> DEFINE y == RefreshOne(x)
           s == RefreshStart(x)
<1>1. /\ x.next_refresh = m /\ x.bus_free = d.bus_free
      /\ \A b \in Banks : x.banks[b] = [d.banks[b] EXCEPT !.act_ok = e]
      /\ x = [d EXCEPT !.log = x.log, !.next_refresh = m, !.banks = x.banks]
  <2>1. Rests(d, x, e, m)
    BY RestedIs
  <2>2. QED BY <2>1 DEF Rests
<1>2. \A b \in Banks : d.banks[b] \in BankT
  BY ChannelFields
<1>3. \A b \in Banks : x.banks[b].open = Nothing /\ x.banks[b].act_ok = e
  BY <1>1, <1>2 DEF BankT
<1>4. s = m
  <2>1. s \in Int /\ m <= s
    BY <1>1, RefreshStartIs
  <2>2. s <= m
    BY <1>1, <1>3, RefreshStartIs
  <2>3. QED BY <2>1, <2>2
<1>5. y.next_refresh = m + tREFI
  BY <1>1, RefreshOneIs
<1>6. y = [x EXCEPT !.log = y.log, !.next_refresh = y.next_refresh, !.banks = y.banks]
  BY RefreshOneIs
<1>7. y.banks = [b \in Banks |-> [d.banks[b] EXCEPT !.act_ok = m + tRFC]]
  <2> DEFINE B == [b \in Banks |-> [x.banks[b] EXCEPT !.open = Nothing,
                                      !.act_ok = Later(x.banks[b].act_ok, s + tRFC)]]
             r == [cmd |-> "REF", at |-> s, end |-> s + tRFC]
  <2>1. y = [x EXCEPT !.banks = B, !.next_refresh = @ + tREFI, !.log = Append(@, r)]
    BY DEF RefreshOne
  <2> HIDE DEF B, r, y
  <2>2. y.banks = B
    BY <2>1 DEF ChannelT
  <2>3. Later(e, m + tRFC) = m + tRFC
    BY Times DEF Later
  <2>4. \A b \in Banks : [x.banks[b] EXCEPT !.open = Nothing, !.act_ok = m + tRFC]
                           = [d.banks[b] EXCEPT !.act_ok = m + tRFC]
    <3> TAKE b \in Banks
    <3>1. PICK z \in BankT : z = d.banks[b]
      BY <1>2
    <3>2. z.open = Nothing /\ x.banks[b] = [z EXCEPT !.act_ok = e]
      BY <1>1, <3>1
    <3>3. [[z EXCEPT !.act_ok = e] EXCEPT !.open = Nothing, !.act_ok = m + tRFC]
            = [z EXCEPT !.act_ok = m + tRFC]
      BY <3>2 DEF BankT
    <3>4. QED BY <3>1, <3>2, <3>3
  <2>5. \A b \in Banks : B[b] = [d.banks[b] EXCEPT !.act_ok = m + tRFC]
    BY <1>3, <1>4, <2>3, <2>4 DEF B
  <2>6. B = [b \in Banks |-> B[b]]
    BY DEF B
  <2>7. QED BY <2>2, <2>5, <2>6
<1> HIDE DEF y
<1>8. Untold(y) = [x EXCEPT !.log = <<>>, !.next_refresh = m + tREFI, !.banks = y.banks]
  BY <1>5, <1>6 DEF Untold, ChannelT
<1>9. Untold(y) = [d EXCEPT !.log = <<>>, !.next_refresh = m + tREFI, !.banks = y.banks]
  BY <1>1, <1>8 DEF ChannelT
<1>10. QED BY <1>7, <1>9 DEF Rested, y

\* The skip to a next refresh at u, with the banks closed until v.
SkippedTo(x, u, v) ==
  [x EXCEPT !.next_refresh = u,
            !.banks = [b \in Banks |-> [x.banks[b] EXCEPT !.act_ok = Later(@, v)]]]
\* The skip does what as many refreshes on the dot would.
LEMMA SkipRests ==
  ASSUME NEW d \in ChannelT, NEW x \in ChannelT, NEW e \in Int, NEW m \in Int,
         Untold(x) = Rested(d, e, m), NEW u \in Int, NEW v \in Int, e <= v
  PROVE  Untold(SkippedTo(x, u, v)) = Rested(d, v, u)
<1> DEFINE y == SkippedTo(x, u, v)
<1>1. /\ \A b \in Banks : x.banks[b] = [d.banks[b] EXCEPT !.act_ok = e]
      /\ x = [d EXCEPT !.log = x.log, !.next_refresh = m, !.banks = x.banks]
  <2>1. Rests(d, x, e, m)
    BY RestedIs
  <2>2. QED BY <2>1 DEF Rests
<1>2. \A b \in Banks : d.banks[b] \in BankT
  BY ChannelFields
<1> DEFINE B == [b \in Banks |-> [x.banks[b] EXCEPT !.act_ok = Later(@, v)]]
<1>3. \A b \in Banks : B[b] = [d.banks[b] EXCEPT !.act_ok = v]
  <2> TAKE b \in Banks
  <2>1. x.banks[b].act_ok = e
    BY <1>1, <1>2 DEF BankT
  <2>2. Later(e, v) = v
    BY DEF Later
  <2>3. [x.banks[b] EXCEPT !.act_ok = v] = [d.banks[b] EXCEPT !.act_ok = v]
    BY <1>1, <1>2 DEF BankT
  <2>4. QED BY <2>1, <2>2, <2>3
<1>4. B = [b \in Banks |-> [d.banks[b] EXCEPT !.act_ok = v]]
  BY <1>3
<1> HIDE DEF B
<1>5. y = [x EXCEPT !.next_refresh = u, !.banks = B]
  BY DEF B, SkippedTo
<1> HIDE DEF y
<1>6. Untold(y) = [d EXCEPT !.log = <<>>, !.next_refresh = u, !.banks = B]
  BY <1>1, <1>5 DEF Untold, ChannelT
<1>7. QED BY <1>4, <1>6 DEF Rested, y

\* Counting by division and by multiplication.
LEMMA Multiples ==
  ASSUME NEW i \in Nat, NEW d \in Nat \ {0}, NEW q \in Nat
  PROVE  q <= i \div d <=> q * d <= i
<1>1. ASSUME NEW a \in Nat, NEW b \in Nat, a <= b PROVE a * d <= b * d
  <2>1. PICK k \in Nat : b = a + k
    <3>1. b - a \in Nat /\ b = a + (b - a)
      BY <1>1
    <3>2. QED BY <3>1
  <2>2. b * d = a * d + k * d /\ k * d \in Nat /\ a * d \in Nat
    BY <2>1
  <2>3. QED BY <2>2
<1>2. PICK z \in Nat : z = i \div d
  BY Quotient
<1>3. z * d <= i /\ i < (z + 1) * d
  BY <1>2
<1>4. z * d \in Nat /\ q * d \in Nat /\ (z + 1) * d \in Nat /\ z + 1 \in Nat
  OBVIOUS
<1>5. CASE q <= z
  BY <1>1, <1>2, <1>3, <1>4, <1>5
<1>6. CASE z + 1 <= q
  <2>1. (z + 1) * d <= q * d
    BY <1>1, <1>4, <1>6
  <2>2. i < q * d /\ ~(q <= z)
    BY <1>3, <1>4, <1>6, <2>1
  <2>3. QED BY <1>2, <1>4, <2>2
<1>7. QED BY <1>4, <1>5, <1>6

\* From j refreshes on the dot to one more, and to k more.
GoesOn(d, e, j, x) ==
  /\ x.next_refresh = d.next_refresh + j * tREFI
  /\ Untold(RefreshOne(x)) = After(d, e, j + 1)
  /\ \A k \in Nat \ {0} :
       Untold(SkippedTo(x, x.next_refresh + k * tREFI, SkippedEnd(x, k))) = After(d, e, j + k)

\* Both, counted.
LEMMA AfterIs ==
  ASSUME NEW d \in ChannelT, NEW e \in Int, tREFI > 0,
         e <= d.next_refresh, d.bus_free <= d.next_refresh,
         \A b \in Banks : d.banks[b].open = Nothing,
         NEW j \in Nat, NEW x \in ChannelT, Untold(x) = After(d, e, j)
  PROVE  GoesOn(d, e, j, x)
<1> HIDE DEF Nothing
<1>1. /\ d.next_refresh \in Int /\ d.bus_free \in Int /\ tREFI \in Nat /\ tRFC \in Nat
      /\ tRFC < tREFI
  BY ChannelFields, Times, RefreshIsSeldom
<1>2. PICK p \in Nat : p = j * tREFI
  <2>1. j * tREFI \in Nat
    BY <1>1
  <2>2. QED BY <2>1
<1>3. (j + 1) * tREFI = p + tREFI /\ j + 1 # 0 /\ (j = 0 => p = 0) /\ (j # 0 => tREFI <= p)
  <2>1. j # 0 => p = (j - 1) * tREFI + tREFI /\ (j - 1) * tREFI \in Nat
    BY <1>1, <1>2
  <2>2. (j + 1) * tREFI = p + tREFI
    BY <1>1, <1>2
  <2>3. j = 0 => p = 0
    BY <1>1, <1>2
  <2>4. QED BY <1>1, <2>1, <2>2, <2>3
<1> DEFINE m == d.next_refresh + p
           g == EndAfter(d, e, j)
<1>4. m \in Int /\ g \in Int /\ g <= m /\ d.bus_free <= m
  BY <1>1, <1>2, <1>3 DEF EndAfter
<1>5. Untold(x) = Rested(d, g, m)
  BY <1>2 DEF After
<1>6. After(d, e, j + 1) = Rested(d, m + tRFC, m + tREFI)
  <2>1. d.next_refresh + (p + tREFI) = m + tREFI
        /\ d.next_refresh + (p + tREFI) - tREFI + tRFC = m + tRFC
    BY <1>1
  <2>2. QED BY <1>3, <2>1 DEF After, EndAfter
<1> HIDE DEF g, m
<1>7. x.next_refresh = m /\ m = d.next_refresh + j * tREFI
  <2>1. Rests(d, x, g, m)
    BY <1>4, <1>5, RestedIs
  <2>2. QED BY <1>2, <2>1 DEF Rests, m
<1>8. Untold(RefreshOne(x)) = After(d, e, j + 1)
  BY <1>4, <1>5, <1>6, OneMore
<1>9. ASSUME NEW k \in Nat \ {0}
      PROVE  Untold(SkippedTo(x, x.next_refresh + k * tREFI, SkippedEnd(x, k))) = After(d, e, j + k)
  <2>1. PICK q \in Nat : q = k * tREFI
    <3>1. k * tREFI \in Nat
      BY <1>1
    <3>2. QED BY <3>1
  <2>2. (j + k) * tREFI = p + q /\ tREFI <= q /\ j + k # 0
    <3>1. (j + k) * tREFI = p + q
      BY <1>1, <1>2, <2>1
    <3>2. q = (k - 1) * tREFI + tREFI /\ (k - 1) * tREFI \in Nat
      BY <1>1, <2>1
    <3>3. QED BY <1>1, <3>1, <3>2
  <2> DEFINE u == m + q
             v == m + q - tREFI + tRFC
  <2>3. SkippedEnd(x, k) = v /\ u = x.next_refresh + k * tREFI
    BY <1>7, <2>1 DEF SkippedEnd
  <2>4. u \in Int /\ v \in Int /\ g <= v
    BY <1>1, <1>4, <2>2
  <2>5. After(d, e, j + k) = Rested(d, v, u)
    <3>1. d.next_refresh + (p + q) = u /\ d.next_refresh + (p + q) - tREFI + tRFC = v
      BY <1>1 DEF m
    <3>2. QED BY <2>2, <3>1 DEF After, EndAfter
  <2> HIDE DEF u, v
  <2>6. Untold(SkippedTo(x, u, v)) = Rested(d, v, u)
    BY <1>4, <1>5, <2>4, SkipRests
  <2>7. QED BY <2>3, <2>5, <2>6
<1>10. QED BY <1>7, <1>8, <1>9 DEF GoesOn

\* What the turns of the loop that makes all refreshes keep holds when it ends.
LEMMA RefreshAllIn ==
  ASSUME NEW c, NEW t, RefreshesDue(c, t) \in Nat, NEW V, c \in V[0],
         \A k \in 1..RefreshesDue(c, t) : \A x \in V[k - 1] :
           (IF RefreshDue(x, t) THEN RefreshOne(x) ELSE x) \in V[k]
  PROVE  RefreshAll(c, t) \in V[RefreshesDue(c, t)]
<1> DEFINE N == RefreshesDue(c, t)
           Turn(x, k) == IF RefreshDue(x, t) THEN RefreshOne(x) ELSE x
           G == [k \in 1..N |-> [x \in V[k - 1] |-> Turn(x, k)]]
           Is(f) == f = [i \in 0..N |-> IF i = 0 THEN c ELSE Turn(f[i - 1], i)]
           f0 == CHOOSE f : Is(f)
<1>1. RefreshAll(c, t) = f0[N]
  BY DEF RefreshAll, Loop
<1>2. N \in Nat /\ \A k \in 1..N : \A x \in V[k - 1] : Turn(x, k) \in V[k]
  OBVIOUS
<1> HIDE DEF N, Turn
<1>3. \A k \in 1..N : \A x \in V[k - 1] : G[k][x] = Turn(x, k)
  OBVIOUS
<1> HIDE DEF G
<1>4. PICK g : IsRun(g, c, G, V, N)
  <2>1. Leads(G, V, N)
    BY <1>2, <1>3 DEF Leads
  <2>2. QED BY <1>2, <2>1, Iterates
<1>5. Is(g)
  <2>1. \A k \in 0..N : k # 0 => k - 1 \in 0..N /\ k \in 1..N
    BY <1>2
  <2>2. \A k \in 0..N : g[k] = IF k = 0 THEN c ELSE Turn(g[k - 1], k)
    BY <1>2, <1>3, <1>4, <2>1 DEF IsRun
  <2>3. QED BY <1>4, <2>2 DEF IsRun
<1>6. f0[0] = c /\ \A k \in 1..N : f0[k] = Turn(f0[k - 1], k)
  <2>1. Is(f0)
    BY <1>5
  <2> HIDE DEF f0
  <2>2. QED BY <1>2, <2>1
<1> HIDE DEF f0, Is
<1>7. QED
  <2>1. f0[0] \in V[0] /\ \A k \in 1..N : f0[k - 1] \in V[k - 1] => f0[k] \in V[k]
    BY <1>2, <1>6
  <2>2. f0[N] \in V[N]
    BY <1>2, <2>1, StaysIn
  <2>3. QED BY <1>1, <2>2 DEF N

\* x is c after k turns or more of a loop over its N refreshes, in either way.
Onward(d, e, N, k, x) ==
  x \in Channels /\ \E j \in Nat : Untold(x) = After(d, e, j) /\ k <= j + 1 /\ j + 1 <= N

\* The refreshes of c that are due by t, counted from c's first.
LEMMA DueIs ==
  ASSUME NEW c \in Channels, NEW t \in Int, RefreshDue(c, t)
  PROVE  /\ RefreshesDue(c, t) \in Nat \ {0}
         /\ \A j \in Nat : c.next_refresh + j * tREFI <= t <=> j + 1 <= RefreshesDue(c, t)
<1>1. c.next_refresh \in Int /\ t - c.next_refresh \in Nat /\ tREFI \in Nat \ {0}
  BY ChannelFields, Times DEF RefreshDue, Channels
<1>2. PICK q \in Nat : q = (t - c.next_refresh) \div tREFI
  BY <1>1, Quotient
<1>3. RefreshesDue(c, t) = q + 1
  BY <1>2 DEF RefreshesDue
<1>4. ASSUME NEW j \in Nat PROVE c.next_refresh + j * tREFI <= t <=> j <= q
  <2>1. j <= q <=> j * tREFI <= t - c.next_refresh
    BY <1>1, <1>2, Multiples
  <2>2. j * tREFI \in Nat
    BY <1>1
  <2>3. QED BY <1>1, <2>1, <2>2
<1>5. QED BY <1>3, <1>4

\* The first refresh of c, and what is known after it.
LEMMA FirstIs ==
  ASSUME NEW c \in Channels, tREFI > 0
  PROVE  LET d == RefreshOne(c)
             e == RefreshStart(c) + tRFC
         IN  /\ d \in Channels /\ d \in ChannelT /\ e \in Int
             /\ d.next_refresh \in Int /\ d.next_refresh = c.next_refresh + tREFI
             /\ e <= d.next_refresh /\ d.bus_free <= d.next_refresh
             /\ \A b \in Banks : d.banks[b].open = Nothing
             /\ Untold(d) = After(d, e, 0)
<1> HIDE DEF Nothing
<1> DEFINE d == RefreshOne(c)
           s == RefreshStart(c)
           e == s + tRFC
<1>1. c \in ChannelT /\ d \in Channels /\ d \in ChannelT
  BY RefreshOneKeeps DEF Channels
<1>2. s \in Int /\ c.bus_free <= s /\ c.bus_free \in Int /\ c.next_refresh \in Int
  BY <1>1, RefreshStartIs, ChannelFields
<1>3. /\ d.next_refresh = c.next_refresh + tREFI
      /\ \A b \in Banks : d.banks[b].open = Nothing /\ d.banks[b].act_ok = e
      /\ d = [c EXCEPT !.log = d.log, !.next_refresh = d.next_refresh, !.banks = d.banks]
  BY <1>1, RefreshOneIs
<1>4. \A b \in Banks : d.banks[b].act_ok + tRCD < d.next_refresh
  BY RefreshOneKeeps
<1> HIDE DEF d, s
<1>5. d.bus_free = c.bus_free
  BY <1>1, <1>3 DEF ChannelT
<1>6. d.next_refresh \in Int /\ e \in Int
  BY <1>1, <1>2, ChannelFields, Times
<1>7. e <= d.next_refresh
  <2>1. PICK b \in Banks : TRUE
    BY BanksAre
  <2>2. e + tRCD < d.next_refresh
    BY <1>3, <1>4, <2>1
  <2>3. QED BY <1>6, <2>2, Times
<1>8. d.bus_free <= d.next_refresh
  BY <1>2, <1>5, <1>6, <1>7, Times
<1>9. Untold(d) = After(d, e, 0)
  <2>1. d.next_refresh + 0 * tREFI = d.next_refresh
    BY <1>6, Times
  <2>2. \A b \in Banks : [d.banks[b] EXCEPT !.act_ok = e] = d.banks[b]
    <3> TAKE b \in Banks
    <3>1. d.banks[b] \in BankT /\ d.banks[b].act_ok = e
      BY <1>1, <1>3, ChannelFields
    <3>2. QED BY <3>1 DEF BankT
  <2>3. d.banks = [b \in Banks |-> d.banks[b]]
    BY <1>1 DEF ChannelT
  <2>4. [b \in Banks |-> [d.banks[b] EXCEPT !.act_ok = e]] = d.banks
    BY <2>2, <2>3
  <2>5. [d EXCEPT !.log = <<>>, !.next_refresh = d.next_refresh, !.banks = d.banks]
          = [d EXCEPT !.log = <<>>]
    BY <1>1 DEF ChannelT
  <2> HIDE DEF e
  <2>6. After(d, e, 0) = Rested(d, e, d.next_refresh)
    BY <2>1 DEF After, EndAfter
  <2>7. QED BY <2>4, <2>5, <2>6 DEF Rested, Untold
<1>10. QED BY <1>1, <1>3, <1>6, <1>7, <1>8, <1>9 DEF d, s

\* The skip goes on from any of these channels, and not past the last refresh due.
LEMMA SkipGoesOn ==
  ASSUME NEW c \in Channels, NEW t \in Int, RefreshDue(c, t),
         NEW j \in Nat, j + 1 <= RefreshesDue(c, t),
         NEW y \in ChannelT, Untold(y) = After(RefreshOne(c), RefreshStart(c) + tRFC, j), NEW end
  PROVE  \E i \in Nat : /\ j <= i /\ i + 1 <= RefreshesDue(c, t)
                        /\ Untold(SkipIdle(y, end, t))
                             = After(RefreshOne(c), RefreshStart(c) + tRFC, i)
<1> DEFINE d == RefreshOne(c)
           e == RefreshStart(c) + tRFC
           N == RefreshesDue(c, t)
           k == (t - tRFC - y.next_refresh) \div tREFI
           z == SkippedTo(y, y.next_refresh + k * tREFI, SkippedEnd(y, k))
<1>1. tREFI > 0 /\ tREFI \in Nat /\ tRFC \in Nat
  BY Times DEF RefreshDue
<1>2. /\ d \in ChannelT /\ e \in Int /\ d.next_refresh \in Int
      /\ d.next_refresh = c.next_refresh + tREFI
      /\ e <= d.next_refresh /\ d.bus_free <= d.next_refresh
      /\ \A b \in Banks : d.banks[b].open = Nothing
  BY <1>1, FirstIs
<1>3. c.next_refresh \in Int
  BY ChannelFields DEF Channels
<1>4. N \in Nat /\ \A i \in Nat : c.next_refresh + i * tREFI <= t <=> i + 1 <= N
  BY DueIs
<1> HIDE DEF d, e, N
<1>5. GoesOn(d, e, j, y)
  BY <1>1, <1>2, AfterIs DEF d, e
<1>9. y.next_refresh = d.next_refresh + j * tREFI /\ y.next_refresh \in Int
  BY <1>5, ChannelFields DEF GoesOn
<1>6. CASE SkipIdle(y, end, t) = y
  BY <1>6 DEF d, e, N
<1>7. CASE y.next_refresh + tRFC <= t /\ k > 0 /\ SkipIdle(y, end, t) = z
  <2>1. j * tREFI \in Nat
    BY <1>1
  <2>2. t - tRFC - y.next_refresh \in Nat
    BY <1>1, <1>7, <1>9
  <2>3. k \in Nat \ {0}
    BY <1>1, <1>7, <2>2, Quotient
  <2>4. k * tREFI <= t - tRFC - y.next_refresh
    BY <1>1, <2>2, <2>3, Multiples
  <2>5. Untold(z) = After(d, e, j + k)
    <3> HIDE DEF k
    <3> QED BY <1>5, <2>3 DEF GoesOn
  <2> HIDE DEF k, z
  <2>6. (j + 1 + k) * tREFI = j * tREFI + tREFI + k * tREFI /\ k * tREFI \in Nat
    BY <1>1, <2>3
  <2>7. PICK p \in Nat, q \in Nat : p = j * tREFI /\ q = k * tREFI
    BY <2>1, <2>6
  <2>8. c.next_refresh + (j + 1 + k) * tREFI <= t
    <3>1. y.next_refresh = c.next_refresh + tREFI + p /\ q <= t - tRFC - y.next_refresh
      BY <1>1, <1>2, <1>3, <1>9, <2>4, <2>7
    <3>2. c.next_refresh + (p + tREFI + q) <= t
      BY <1>1, <1>3, <1>9, <3>1
    <3>3. QED BY <2>6, <2>7, <3>2
  <2>9. j + 1 + k + 1 <= N
    BY <1>4, <2>3, <2>8
  <2>10. j + k \in Nat /\ j <= j + k /\ (j + k) + 1 <= N
    BY <1>4, <2>3, <2>9
  <2>11. QED BY <1>7, <2>5, <2>10 DEF d, e, N
<1>8. QED BY <1>6, <1>7 DEF SkipIdle, SkippedTo

\* A turn of either loop brings the channel onward.
LEMMA TurnsGoOn ==
  ASSUME NEW c \in Channels, NEW t \in Int, RefreshDue(c, t),
         NEW k \in Nat, k + 1 <= RefreshesDue(c, t), NEW x \in Channels,
         IF k = 0 THEN x = c
         ELSE Onward(RefreshOne(c), RefreshStart(c) + tRFC, RefreshesDue(c, t), k, x)
  PROVE  LET N == RefreshesDue(c, t)
             d == RefreshOne(c)
             e == RefreshStart(c) + tRFC
         IN  /\ Onward(d, e, N, k + 1, RefreshTurn(x, t))
             /\ Onward(d, e, N, k + 1, IF RefreshDue(x, t) THEN RefreshOne(x) ELSE x)
<1> DEFINE N == RefreshesDue(c, t)
           d == RefreshOne(c)
           e == RefreshStart(c) + tRFC
           y == RefreshOne(x)
<1>1. tREFI > 0 /\ tREFI \in Nat
  BY Times DEF RefreshDue
<1>2. /\ d \in ChannelT /\ e \in Int /\ d.next_refresh \in Int
      /\ d.next_refresh = c.next_refresh + tREFI
      /\ e <= d.next_refresh /\ d.bus_free <= d.next_refresh
      /\ \A b \in Banks : d.banks[b].open = Nothing
      /\ Untold(d) = After(d, e, 0)
  BY <1>1, FirstIs
<1>3. c.next_refresh \in Int /\ x \in ChannelT
  BY ChannelFields DEF Channels
<1>4. N \in Nat /\ \A i \in Nat : c.next_refresh + i * tREFI <= t <=> i + 1 <= N
  BY DueIs
<1>5. y \in Channels /\ y \in ChannelT /\ RefreshTurn(x, t) \in Channels
  BY <1>1, RefreshOneKeeps, RefreshTurnIs DEF Channels
<1>6. \A j \in Nat : j + 1 <= N /\ Untold(y) = After(d, e, j) =>
        \E i \in Nat : j <= i /\ i + 1 <= N
                       /\ Untold(SkipIdle(y, RefreshStart(x) + tRFC, t)) = After(d, e, i)
  BY <1>5, SkipGoesOn
<1>7. RefreshDue(x, t) => RefreshTurn(x, t) = SkipIdle(y, RefreshStart(x) + tRFC, t)
  BY DEF RefreshTurn
<1>8. ~RefreshDue(x, t) => RefreshTurn(x, t) = x
  BY DEF RefreshTurn
<1>9. x = c => y = d
  OBVIOUS
<1> HIDE DEF N, d, e, y
<1>10. ASSUME RefreshDue(x, t), NEW j \in Nat, k <= j, j + 1 <= N, Untold(y) = After(d, e, j)
       PROVE  Onward(d, e, N, k + 1, RefreshTurn(x, t)) /\ Onward(d, e, N, k + 1, y)
  <2>1. k + 1 <= j + 1
    BY <1>10
  <2>2. Onward(d, e, N, k + 1, y)
    BY <1>5, <1>10, <2>1 DEF Onward
  <2>3. PICK i \in Nat : j <= i /\ i + 1 <= N /\ Untold(RefreshTurn(x, t)) = After(d, e, i)
    BY <1>6, <1>7, <1>10
  <2>4. k + 1 <= i + 1
    BY <1>10, <2>3
  <2>5. QED BY <1>5, <2>2, <2>3, <2>4 DEF Onward
<1>11. CASE k = 0
  <2>1. x = c /\ y = d /\ RefreshDue(x, t)
    BY <1>9, <1>11
  <2>2. 0 \in Nat /\ k <= 0 /\ 0 + 1 <= N
    BY <1>11 DEF N
  <2>3. QED BY <1>2, <1>10, <2>1, <2>2 DEF N, d, e, y
<1>12. CASE k # 0
  <2>1. Onward(d, e, N, k, x)
    BY <1>12 DEF N, d, e
  <2>2. PICK j \in Nat : Untold(x) = After(d, e, j) /\ k <= j + 1 /\ j + 1 <= N
    BY <2>1 DEF Onward
  <2>3. x.next_refresh = d.next_refresh + j * tREFI /\ Untold(y) = After(d, e, j + 1)
    <3>1. GoesOn(d, e, j, x)
      BY <1>1, <1>2, <1>3, <2>2, AfterIs
    <3>2. QED BY <3>1 DEF GoesOn, y
  <2>4. RefreshDue(x, t) <=> j + 2 <= N
    <3>1. x.next_refresh = c.next_refresh + (j + 1) * tREFI
      <4>1. (j + 1) * tREFI = tREFI + j * tREFI /\ j * tREFI \in Nat
        BY <1>1
      <4>2. QED BY <1>1, <1>2, <1>3, <2>3, <4>1
    <3>2. c.next_refresh + (j + 1) * tREFI <= t <=> (j + 1) + 1 <= N
      BY <1>4
    <3>3. (j + 1) + 1 = j + 2
      OBVIOUS
    <3>4. QED BY <1>1, <3>1, <3>2, <3>3 DEF RefreshDue
  <2>5. CASE RefreshDue(x, t)
    <3>1. j + 1 \in Nat /\ k <= j + 1 /\ (j + 1) + 1 <= N
      BY <1>4, <2>2, <2>4, <2>5
    <3>2. QED BY <1>10, <2>3, <2>5, <3>1 DEF N, d, e, y
  <2>6. CASE ~RefreshDue(x, t)
    <3>1. j + 1 = N /\ k + 1 <= j + 1
      <4>1. k + 1 <= N
        BY DEF N
      <4>2. QED BY <1>4, <2>2, <2>4, <2>6, <4>1
    <3>2. Onward(d, e, N, k + 1, x)
      BY <2>2, <3>1 DEF Onward
    <3>3. QED BY <1>8, <2>6, <3>2 DEF N, d, e
  <2>7. QED BY <2>5, <2>6
<1>13. QED BY <1>11, <1>12

\* Both loops make the same refreshes, and leave the same channel apart from its history.
LEMMA SkippingIs ==
  ASSUME NEW c \in Channels, NEW t \in Int
  PROVE  Untold(Refresh(c, t)) = Untold(RefreshAll(c, t))
<1> DEFINE N == RefreshesDue(c, t)
           d == RefreshOne(c)
           e == RefreshStart(c) + tRFC
           V == [k \in 0..N |-> IF k = 0 THEN {c} ELSE {x \in Channels : Onward(d, e, N, k, x)}]
<1>1. CASE RefreshDue(c, t)
  <2>1. N \in Nat \ {0}
    BY <1>1, DueIs
  <2>2. c \in V[0]
    BY <2>1
  <2>3. ASSUME NEW k \in 1..N, NEW x \in V[k - 1]
        PROVE  RefreshTurn(x, t) \in V[k] /\ (IF RefreshDue(x, t) THEN RefreshOne(x) ELSE x) \in V[k]
    <3>1. k - 1 \in Nat /\ (k - 1) + 1 = k /\ k - 1 \in 0..N /\ k \in 0..N /\ k # 0 /\ k <= N
      BY <2>1
    <3>2. x \in Channels /\ IF k - 1 = 0 THEN x = c ELSE Onward(d, e, N, k - 1, x)
      BY <3>1
    <3>3. Onward(d, e, N, (k - 1) + 1, RefreshTurn(x, t))
          /\ Onward(d, e, N, (k - 1) + 1, IF RefreshDue(x, t) THEN RefreshOne(x) ELSE x)
      BY <1>1, <3>1, <3>2, TurnsGoOn
    <3> HIDE DEF N, d, e
    <3>4. QED BY <3>1, <3>3 DEF Onward
  <2> HIDE DEF V
  <2>4. Refresh(c, t) \in V[N]
    BY <2>1, <2>2, <2>3, RefreshIn
  <2>5. RefreshAll(c, t) \in V[N]
    BY <2>1, <2>2, <2>3, RefreshAllIn
  <2> HIDE DEF N, d, e
  <2>6. V[N] = {x \in Channels : Onward(d, e, N, N, x)}
    BY <2>1 DEF V
  <2>7. \A x \in V[N] : Untold(x) = After(d, e, N - 1)
    <3> TAKE x \in V[N]
    <3>1. PICK j \in Nat : Untold(x) = After(d, e, j) /\ N <= j + 1 /\ j + 1 <= N
      BY <2>6 DEF Onward
    <3>2. j = N - 1
      BY <2>1, <3>1
    <3>3. QED BY <3>1, <3>2
  <2>8. QED BY <2>4, <2>5, <2>7
<1>2. CASE ~RefreshDue(c, t)
  <2> DEFINE W == [k \in 0..0 |-> {c}]
  <2>1. N = 0
    BY <1>2 DEF RefreshesDue
  <2>2. c \in W[0] /\ 1..N = {} /\ W[0] = {c} /\ N \in Nat
    BY <2>1
  <2> HIDE DEF N, W
  <2>3. Refresh(c, t) \in W[N]
    BY <2>2, RefreshIn DEF N
  <2>4. RefreshAll(c, t) \in W[N]
    BY <2>2, RefreshAllIn DEF N
  <2>5. QED BY <2>1, <2>2, <2>3, <2>4
<1>3. QED BY <1>1, <1>2

------------------------------------------------------------------------------
(* The theorems. *)

\* What the invariant says of the state, in short.
LEMMA StateIs ==
  ASSUME IInv
  PROVE  /\ chan \in [Chans -> Channels] /\ DOMAIN chan = Chans
         /\ \A c \in Chans : /\ chan[c] \in ChannelT /\ ChannelInv(chan[c])
                             /\ chan[c].log \in Seq(Command) /\ Len(chan[c].log) \in Nat
                             /\ New(c) \subseteq 1..Len(chan[c].log)
                             /\ access.old[c] \in Nat
         /\ wq \in Seq(QueuedT) /\ leaving \in Seq(Int) /\ merged \in Int
<1>1. EngineNow \in EngineT
  BY DEF IInv, Engines
<1>2. /\ EngineNow.chan = chan /\ EngineNow.wq = wq /\ EngineNow.leaving = leaving
      /\ EngineNow.merged = merged
  BY DEF EngineNow
<1>3. /\ chan \in [Chans -> Channels] /\ wq \in Seq(QueuedT) /\ leaving \in Seq(Int)
      /\ merged \in Int /\ DOMAIN chan = Chans
  BY <1>1, <1>2, EngineIs
<1>4. \A c \in Chans : /\ chan[c] \in ChannelT /\ ChannelInv(chan[c])
                       /\ chan[c].log \in Seq(Command) /\ Len(chan[c].log) \in Nat
  BY <1>3, ChannelFields DEF Channels
<1>5. \A c \in Chans : access.old[c] \in Nat
  BY DEF IInv
<1>6. \A c \in Chans : New(c) \subseteq 1..Len(chan[c].log)
  BY <1>4, <1>5 DEF New
<1>7. QED BY <1>3, <1>4, <1>5, <1>6

\* ... and every access keeps it.
LEMMA InvariantSteps == IInv /\ [Next]_vars => IInv'
<1> SUFFICES ASSUME IInv, [Next]_vars PROVE IInv'
  OBVIOUS
<1>1. CASE Next
  <2>1. PICK gap \in Gaps, line \in Lines, span \in Spans, w \in BOOLEAN : Access(gap, line, span, w)
    BY <1>1 DEF Next
  <2>2. QED BY <2>1, AccessIs
<1>2. CASE UNCHANGED vars
  <2>1. EngineNow' = EngineNow /\ now' = now /\ access' = access /\ writes' = writes /\ wq' = wq
    BY <1>2 DEF vars, EngineNow
  <2>2. QED BY <2>1 DEF IInv
<1>3. QED BY <1>1, <1>2

(* After any sequence of accesses the times that each Channel keeps stand   *)
(* for all the commands it has been given, the write queue holds no burst   *)
(* twice, every write is accounted for, and the slots of one channel's      *)
(* queue suffice (dram_core.hpp:263-284 and 371-600).                       *)
THEOREM InductiveInvariant == Spec => []IInv
  BY InitHolds, InvariantSteps, PTL DEF Spec

\* The invariant says that the timings are kept.
LEMMA TimingsHold == IInv => TimingsKept
<1> SUFFICES ASSUME IInv PROVE TimingsKept
  OBVIOUS
<1>1. ASSUME NEW c \in DOMAIN chan, NEW j \in New(c), NEW i \in 1..(j - 1)
      PROVE  Fits(chan[c].log[i], chan[c].log[j])
  <2>1. c \in Chans /\ j \in 1..Len(chan[c].log) /\ Paired(chan[c].log)
    BY <1>1, StateIs DEF ChannelInv
  <2>2. QED BY <1>1, <2>1 DEF Paired
<1>2. FourInWindow
  <2> SUFFICES ASSUME NEW c \in DOMAIN chan, NEW j \in New(c), chan[c].log[j].cmd = "ACT"
               PROVE  LET l == chan[c].log
                          before == {i \in 1..(j - 1) : IsCmd(l[i], "ACT") /\ SameRank(l[i], l[j])}
                      IN  Cardinality(before) >= 4 =>
                            Cardinality({i \in before : l[j].at - l[i].at < tFAW}) < 4
    BY DEF FourInWindow, IsCmd
  <2> DEFINE l == chan[c].log
             before == {i \in 1..(j - 1) : IsCmd(l[i], "ACT") /\ SameRank(l[i], l[j])}
  <2>1. c \in Chans /\ j \in 1..Len(l) /\ FawKept(l) /\ l \in Seq(Command) /\ Len(l) \in Nat
    BY StateIs DEF ChannelInv
  <2>2. l[j].cmd = "ACT"
    OBVIOUS
  <2> HIDE DEF l
  <2>3. \A i \in 1..Len(l) : l[i] \in Command
    BY <2>1
  <2>4. \A i \in 1..(j - 1) : i \in 1..Len(l)
    BY <2>1
  <2>5. \A i \in 1..(j - 1) : l[i].cmd = "ACT" => SameRank(l[i], l[j])
    <3> TAKE i \in 1..(j - 1)
    <3>1. l[i] \in Command /\ l[j] \in Command
      BY <2>1, <2>3, <2>4
    <3>2. l[j].bank[1] = 0
      BY <2>2, <3>1, CommandIs
    <3>3. l[i].cmd = "ACT" => l[i].bank[1] = 0
      BY <3>1, CommandIs
    <3>4. QED BY <3>2, <3>3 DEF SameRank
  <2>6. before = Acts(l, j - 1)
    BY <2>5 DEF Acts, IsCmd
  <2> HIDE DEF before
  <2>7. {i \in before : l[j].at - l[i].at < tFAW} = InWindow(l, j)
    BY <2>6 DEF InWindow
  <2>8. Cardinality(Acts(l, j - 1)) >= 4 => Cardinality(InWindow(l, j)) < 4
    BY <2>1, <2>2 DEF FawKept
  <2>9. QED BY <2>6, <2>7, <2>8 DEF before, l
<1>3. EveryPair(ActivatesApart) /\ EveryPair(ClosedWithCare)
      /\ EveryPair(RefreshAlone) /\ EveryPair(BusShared)
  BY <1>1 DEF EveryPair, Fits
<1>4. GroupTurnsKept
  <2> SUFFICES ASSUME NEW c \in DOMAIN chan, NEW j \in New(c), NEW i \in 1..(j - 1),
                      WriteThenRead(chan[c].log[i], chan[c].log[j]),
                      SameGroup(chan[c].log[i], chan[c].log[j]), GroupKept(chan[c].log, i, j)
               PROVE  chan[c].log[j].at >= chan[c].log[i].end + tWTR_L
    BY DEF GroupTurnsKept, TurnaroundKept
  <2> DEFINE l == chan[c].log
  <2>1. /\ c \in Chans /\ j \in 1..Len(l) /\ TurnsKept(l) /\ l \in Seq(Command)
        /\ i \in 1..Len(l)
    BY StateIs DEF ChannelInv, TurnsHold
  <2>2. l[i] \in Command /\ l[j] \in Command
    BY <2>1
  <2> HIDE DEF l
  <2>3. /\ l[i].cmd = "COL" /\ l[i].w /\ l[j].cmd = "COL" /\ ~l[j].w
        /\ l[j].bank[2] = l[i].bank[2]
        /\ \A k \in (i + 1)..(j - 1) : l[k].cmd = "COL" => l[k].bank[2] = l[i].bank[2]
    BY DEF WriteThenRead, SameGroup, GroupKept, IsCmd, l
  <2>4. l[i].end + tWTR_L <= l[j].at
    BY <2>1, <2>3 DEF TurnsKept, GroupWrite
  <2>5. l[i].end + tWTR_L \in Int /\ l[j].at \in Int
    BY <2>2, <2>3, CommandIs, Times
  <2>6. QED BY <2>4, <2>5 DEF l
<1>5. QED BY <1>2, <1>3, <1>4 DEF TimingsKept

(* Every timing TimingsKept names holds towards every earlier command of    *)
(* the channel, though plan() looks at the last ACTIVATE, the last column   *)
(* command and four ACTIVATEs only; tWTR_L, towards the writes after which  *)
(* no other bank group had a column command (dram_core.hpp:464-556).        *)
THEOREM TimingsTheorem == Spec => []TimingsKept
  BY InductiveInvariant, TimingsHold, PTL

\* It says that rows are open.
LEMMA RowsHold == IInv => RowIsOpen
<1> SUFFICES ASSUME IInv, NEW c \in DOMAIN chan, NEW j \in New(c), chan[c].log[j].cmd = "COL"
             PROVE  LET l == chan[c].log IN
                    /\ tREFI > 0 => l[j].at < chan[c].next_refresh
                    /\ \E i \in 1..(j - 1) :
                         /\ IsCmd(l[i], "ACT") /\ l[i].bank = l[j].bank /\ l[i].row = l[j].row
                         /\ l[j].at >= l[i].at + tRCD
                         /\ \A k \in (i + 1)..(j - 1) :
                              ~IsCmd(l[k], "REF") /\ (IsCmd(l[k], "PRE") => l[k].bank # l[j].bank)
  BY DEF RowIsOpen, IsCmd
<1>1. c \in Chans /\ j \in 1..Len(chan[c].log) /\ RowsInOrder(chan[c])
  BY StateIs DEF ChannelInv
<1>2. Columned(chan[c].log, j) /\ (tREFI > 0 => chan[c].log[j].at < chan[c].next_refresh)
  BY <1>1 DEF RowsInOrder
<1>3. QED BY <1>2 DEF Columned, Opens, IsCmd

(* A read or write finds its row open, tRCD after it was opened, and before *)
(* the next refresh is due: the refreshes burst() lets go first, and the    *)
(* planning after them, leave no column command on a closed row             *)
(* (dram_core.hpp:558-600).                                                 *)
THEOREM RowTheorem == Spec => []RowIsOpen
  BY InductiveInvariant, RowsHold, PTL

\* It says that the writes are accounted for.
LEMMA WritesHold == IInv => WritesAccountedFor
<1> SUFFICES ASSUME IInv PROVE WritesAccountedFor
  OBVIOUS
<1>1. /\ EngineNow.chan = chan /\ EngineNow.wq = wq /\ EngineNow.merged = merged
  BY DEF EngineNow
<1>2. writes = merged + Len(wq) + Cardinality(WritesIn(chan))
  BY <1>1 DEF IInv, Tally
<1>3. Columns(TRUE) = WritesIn(chan)
  BY DEF Columns, WritesIn
<1>4. Distinct(wq)
  BY <1>1 DEF IInv, Engines
<1>5. QED BY <1>2, <1>3, <1>4 DEF WritesAccountedFor, Distinct

(* queued(), drain_idle() and the batches lose no write burst and send none *)
(* twice; and no burst waits twice, as a second write of it is merged       *)
(* (dram_core.hpp:371-446).                                                 *)
THEOREM WritesTheorem == Spec => []WritesAccountedFor
  BY InductiveInvariant, WritesHold, PTL

\* It says, of one channel, that the slots suffice.
LEMMA SlotsHold == IInv /\ channels = 1 => SlotsSuffice
<1> SUFFICES ASSUME IInv, channels = 1, wq # <<>>
             PROVE  LET t == Max({q.arrive : q \in ToSet(wq)}) IN
                    Len(wq) + Cardinality({p \in Columns(TRUE) : chan[p[1]].log[p[2]].end > t}) <= wq_depth
  BY DEF SlotsSuffice
<1> DEFINE A == {q.arrive : q \in ToSet(wq)}
           t == Max(A)
           s == EngineNow
           m == Len(wq)
<1>1. /\ s.chan = chan /\ s.wq = wq /\ s.leaving = leaving
  BY DEF EngineNow
<1>2. wq_depth > 0
  BY Times DEF IInv
<1>3. PICK D \in Int : Slots(s, D) /\ Late(s, D) /\ Total(s) <= wq_depth
  BY <1>2 DEF IInv, Room
<1>4. /\ wq \in Seq(QueuedT) /\ m \in Nat /\ m > 0 /\ DOMAIN wq = 1..m /\ leaving \in Seq(Int)
      /\ chan \in [Chans -> Channels]
  BY StateIs
<1>5. \A i \in 1..m : wq[i].arrive \in Int /\ wq[i].arrive \in A
  <2> TAKE i \in 1..m
  <2>1. wq[i] \in QueuedT
    BY <1>4
  <2>2. wq[i] \in ToSet(wq)
    BY <1>4 DEF ToSet
  <2>3. QED BY <2>1, <2>2 DEF QueuedT
<1>6. A \in SUBSET Int /\ IsFiniteSet(A) /\ A # {}
  <2> DEFINE f == [i \in 1..m |-> wq[i].arrive]
  <2>1. f \in [1..m -> A]
    BY <1>5
  <2>2. \A x \in A : \E i \in 1..m : f[i] = x
    BY <1>4 DEF ToSet
  <2>3. A \in SUBSET Int
    BY <1>4, <1>5 DEF ToSet
  <2>4. 1 \in 1..m
    BY <1>4
  <2>5. A # {}
    BY <1>5, <2>4
  <2> HIDE DEF f, A
  <2>6. f \in Surjection(1..m, A)
    BY <2>1, <2>2 DEF Surjection
  <2>7. IsFiniteSet(1..m)
    <3>1. 1 \in Int /\ m \in Int
      BY <1>4
    <3>2. QED BY <3>1, FS_Interval
  <2>8. IsFiniteSet(A)
    BY <2>6, <2>7, FS_Surjection
  <2>9. QED BY <2>3, <2>5, <2>8
<1> HIDE DEF A
<1>7. t \in Int /\ \A y \in A : t >= y
  BY <1>6, MaxIs
<1> HIDE DEF t
<1>8. D <= t
  <2>1. m \in 1..m
    BY <1>4
  <2>2. wq[m].arrive \in A /\ wq[m].arrive \in Int
    BY <1>5, <2>1
  <2>3. D <= wq[m].arrive
    BY <1>1, <1>3 DEF Late
  <2>4. QED BY <1>7, <2>2, <2>3
<1>9. {p \in Columns(TRUE) : chan[p[1]].log[p[2]].end > t} = Ending(chan, t)
  <2>1. Columns(TRUE) = WritesIn(chan)
    BY DEF Columns, WritesIn
  <2>2. QED BY <2>1 DEF Ending
<1>10. Cardinality(Ending(chan, t)) <= Cardinality(Above(leaving, t))
  BY <1>1, <1>3, <1>7, <1>8 DEF Slots
<1>11. Cardinality(Above(leaving, t)) <= Len(leaving) /\ Len(leaving) \in Nat
       /\ Cardinality(Above(leaving, t)) \in Nat
  BY <1>4, <1>7, AboveIs
<1>12. Cardinality(Ending(chan, t)) \in Nat
  BY <1>4, <1>7, EndingIs
<1>13. m + Len(leaving) <= wq_depth
  BY <1>1, <1>3 DEF Total
<1>14. m + Cardinality(Ending(chan, t)) <= wq_depth
  BY <1>4, <1>10, <1>11, <1>12, <1>13, Times
<1>15. QED BY <1>9, <1>14 DEF t, A

(* The write queue never holds more than wq_depth bursts at the time the    *)
(* last was accepted, counting those whose data is still leaving: retire()  *)
(* and the wait for a slot keep it so, even when a write held back for one  *)
(* is overtaken by the arrival of the next (dram_core.hpp:386-414).  This   *)
(* is for one channel, which every preset has: the data of the writes then  *)
(* ends in the order in which the queue gives their slots back.             *)
THEOREM SlotsTheorem == channels = 1 => (Spec => []SlotsSuffice)
<1>1. CASE channels = 1
  <2>1. IInv => SlotsSuffice
    BY <1>1, SlotsHold
  <2>2. Spec => []SlotsSuffice
    BY <2>1, InductiveInvariant, PTL
  <2>3. QED BY <2>2
<1>2. QED BY <1>1

\* An access from a state of the invariant lets no read overtake a write.
LEMMA ReadsStep == IInv /\ [Next]_vars => [NoReadOvertakes]_vars
<1> SUFFICES ASSUME IInv, Next PROVE NoReadOvertakes
  OBVIOUS
<1>1. PICK gap \in Gaps, line \in Lines, span \in Spans, w \in BOOLEAN : Access(gap, line, span, w)
  BY DEF Next
<1>2. SawWrites(EngineNow, EngineNow') /\ access'.old = [c \in Chans |-> Len(chan[c].log)]
  BY <1>1, AccessIs
<1>3. EngineNow.chan = chan /\ EngineNow.wq = wq /\ EngineNow'.chan = chan'
  BY DEF EngineNow
<1>4. DOMAIN chan = Chans
  BY StateIs
<1>5. \A c \in Chans : access'.old[c] = Len(chan[c].log)
  BY <1>2
<1>6. QED BY <1>2, <1>3, <1>4, <1>5 DEF SawWrites, IsCmd, NoReadOvertakes

(* A read gets what was written before it: a write to it that waits when    *)
(* the access begins goes to the DRAM first, or answers from the queue      *)
(* (dram_core.hpp:371-384).                                                 *)
THEOREM ReadsTheorem == Spec => ReadsSeeWrites
  BY InductiveInvariant, ReadsStep, PTL DEF Spec, ReadsSeeWrites

\* It says that skipping changes nothing.
LEMMA SkippingHolds == IInv => SkippingChangesNothing
<1> SUFFICES ASSUME IInv, tREFI > 0, NEW c \in DOMAIN chan, NEW k \in 1..2,
                    NEW d \in {tRFC - 1, tRFC},
                    NEW t, t = chan[c].next_refresh + k * tREFI + d
             PROVE  Untold(Refresh(chan[c], t)) = Untold(RefreshAll(chan[c], t))
  BY DEF SkippingChangesNothing
<1>1. chan[c] \in Channels
  BY StateIs
<1>2. t \in Int
  <2>1. chan[c].next_refresh \in Int /\ k * tREFI \in Int /\ d \in Int
    BY <1>1, ChannelFields, Times DEF Channels
  <2>2. QED BY <2>1
<1>3. QED BY <1>1, <1>2, SkippingIs

(* The refreshes of an idle stretch that refresh() skips in one go leave    *)
(* what they would have left one by one: the division counts them right,    *)
(* and the banks are free when the last of them ends                        *)
(* (dram_core.hpp:355-369).                                                 *)
THEOREM SkippingTheorem == Spec => []SkippingChangesNothing
  BY InductiveInvariant, SkippingHolds, PTL
=============================================================================
