------------------------------ MODULE ValuesProofs -----------------------------
(***************************************************************************)
(* The copies of a value that MCServices keeps in two places, for any      *)
(* number of messages, crashes and restarts: the balances and the position *)
(* of an exchange, in its process and in redis; the values of a sentinel,  *)
(* in its server and in its clients; the rows of a recorder, in its        *)
(* buffers, its files and what a reader makes of them.                     *)
(***************************************************************************)
EXTENDS MCServices, FiniteSetTheorems, SequenceTheorems, WellFoundedInduction, TLAPS

-----------------------------------------------------------------------------
(* The balances of an exchange                                                *)
Balances == [Bal!Currencies -> Int]

\* A process has the hash's balance of a currency, or will by the last event on its way.
InTheEnd(own, queued, table) ==
  \A c \in Bal!Currencies :
    /\ (\A k \in DOMAIN queued : queued[k].currency # c) => own[c] = table[c]
    /\ \A k \in DOMAIN queued :
         queued[k].currency = c /\ (\A j \in DOMAIN queued : j > k => queued[j].currency # c)
           => queued[k].qty = table[c]

\* What the fill in hand has still to move of a currency
Owing(dues, c) ==
  (IF Len(dues) > 0 /\ dues[1].currency = c THEN dues[1].qty ELSE 0)
    + (IF Len(dues) > 1 /\ dues[2].currency = c THEN dues[2].qty ELSE 0)

\* The position that a fill leaves, and what it moves at the exchange
After(r, p) == IF r.spot THEN p ELSE Bal!Add(p, r.qty, r.price)
Moved(r, p) == IF r.spot THEN [base |-> r.qty, quote |-> -(r.qty * r.price)]
               ELSE [base |-> 0, quote |-> -Bal!Cost(p, r.qty, r.price)]

\* The position from v to w by the fills on their way, each of which moved what it does of
\* the position it met, ...
Positioned(reported, g, v, w) ==
  /\ g \in [0..Len(reported) -> Bal!Position] /\ g[0] = v /\ g[Len(reported)] = w
  /\ \A k \in 1..Len(reported) : /\ g[k] = After(reported[k], g[k - 1])
                                 /\ reported[k].moved = Moved(reported[k], g[k - 1])

\* ... and a balance from v to w by what each of them moved.
Chain(reported, f, c, v, w) ==
  /\ f \in [0..Len(reported) -> Int] /\ f[0] = v /\ f[Len(reported)] = w
  /\ \A k \in 1..Len(reported) : f[k] = f[k - 1] + reported[k].moved[c]

Chained ==
  /\ \E g \in [0..Len(reports) -> Bal!Position] : Positioned(reports, g, wsPosition, contracts)
  /\ ~suspect => \A c \in Bal!Currencies : \E f \in [0..Len(reports) -> Int] :
        Chain(reports, f, c, redis[c] + Owing(owed, c), wallet[c])

IsFetched(fetched, c) == \E k \in DOMAIN fetched : fetched[k].currency = c

\* A load that nothing crossed sets what is in redis already; one that no fill crossed sets
\* what the exchange has.
LoadClean ==
  /\ ~apiLoad.on => apiLoad = Bal!NoLoad
  /\ \A k \in DOMAIN apiLoad.todo : IsFetched(apiLoad.fetched, apiLoad.todo[k].currency)
  /\ apiLoad.on /\ ~suspect =>
       /\ \A k \in DOMAIN apiLoad.todo : apiLoad.todo[k].qty = redis[apiLoad.todo[k].currency]
       /\ \A c \in Bal!Currencies : ~IsFetched(apiLoad.fetched, c) => redis[c] = 0
  /\ apiLoad.on /\ quiet =>
       /\ reports = <<>> /\ owed = <<>>
       /\ \A k \in DOMAIN apiLoad.todo : apiLoad.todo[k].qty = wallet[apiLoad.todo[k].currency]
       /\ \A c \in Bal!Currencies :
            IF IsFetched(apiLoad.fetched, c)
            THEN (\A k \in DOMAIN apiLoad.todo : apiLoad.todo[k].currency # c) => redis[c] = wallet[c]
            ELSE wallet[c] = 0

Bounded ==
  /\ \A c \in Bal!Currencies : wallet[c] >= 0
  /\ Len(owed) <= 2 /\ (Len(owed) = 2 => owed[1].currency # owed[2].currency)

BalancesInv ==
  /\ Bal!TypeOK /\ Bounded /\ Chained /\ LoadClean
  /\ InTheEnd(wsMemory, wsInbox, redis) /\ InTheEnd(apiMemory, apiInbox, redis)

-----------------------------------------------------------------------------
LEMMA TimesNat == ASSUME NEW a \in Nat, NEW b \in Nat PROVE a * b \in Nat
OBVIOUS

LEMMA AbsTimes == ASSUME NEW q \in Int, NEW t \in Nat PROVE Bal!Abs(q * t) = Bal!Abs(q) * t /\ Bal!Abs(q) \in Nat
<1>1. CASE q >= 0
  <2>1. q * t \in Nat
    BY <1>1, TimesNat
  <2>2. QED
    BY <1>1, <2>1 DEF Bal!Abs
<1>2. CASE q < 0
  <2>1. (-q) * t \in Nat /\ q * t = -((-q) * t)
    BY <1>2, TimesNat
  <2>2. Bal!Abs(q * t) = (-q) * t
    BY <2>1 DEF Bal!Abs
  <2>3. QED
    BY <1>2, <2>2 DEF Bal!Abs
<1>3. QED
  BY <1>1, <1>2

LEMMA MeanIsNat == ASSUME NEW a \in Nat, NEW b \in Nat \ {0} PROVE a \div b \in Nat
OBVIOUS

\* The position of a fill is one, ...
LEMMA AddTyped ==
  ASSUME NEW p \in Bal!Position, NEW q \in Int, NEW t \in Nat
  PROVE  Bal!Add(p, q, t) \in Bal!Position
<1>1. p.qty \in Int /\ p.price \in Nat /\ p = [qty |-> p.qty, price |-> p.price]
  BY DEF Bal!Position
<1>2. p.qty + q # 0 => (Bal!Abs(p.qty) * p.price + Bal!Abs(q) * t) \div Bal!Abs(p.qty + q) \in Nat
  <2>1. Bal!Abs(p.qty) * p.price \in Nat /\ Bal!Abs(q) * t \in Nat
    BY <1>1, AbsTimes, TimesNat
  <2>2. p.qty + q # 0 => Bal!Abs(p.qty + q) \in Nat \ {0}
    BY <1>1 DEF Bal!Abs
  <2>3. Bal!Abs(p.qty) * p.price + Bal!Abs(q) * t \in Nat
    BY <2>1
  <2>4. QED
    BY <2>2, <2>3, MeanIsNat
<1>3. QED
  BY <1>1, <1>2 DEF Bal!Add, Bal!Position, Bal!Flat

\* ... and so is its cost an amount.
LEMMA CostTyped ==
  ASSUME NEW p \in Bal!Position, NEW q \in Int, NEW t \in Nat
  PROVE  Bal!Cost(p, q, t) \in Int /\ Bal!CalcBalanceConsumption(p, q, t) \in Int
<1>1. p.qty \in Int /\ p.price \in Nat
  BY DEF Bal!Position
<1>2. ASSUME NEW x \in Int, NEW y \in Int, NEW a \in Int, NEW g \in Int
      PROVE  x * t - y * (a + g) \in Int
  OBVIOUS
<1>3. Bal!Cost(p, q, t) \in Int
  BY <1>1, <1>2 DEF Bal!Cost, Bal!Abs
<1>4. q * t \in Int /\ p.qty * p.price \in Int
  BY <1>1
<1>5. QED
  BY <1>1, <1>3, <1>4 DEF Bal!CalcBalanceConsumption, Bal!Abs

\* The formula of the code is what the exchange takes, where it does not misjudge it.
LEMMA ConsumptionIsCost ==
  ASSUME NEW p \in Bal!Position, NEW q \in Int, NEW t \in Nat, ~Bal!Misjudged(p, q, t)
  PROVE  Bal!CalcBalanceConsumption(p, q, t) = Bal!Cost(p, q, t)
<1>1. PICK n, m : n = p.qty /\ m = p.price /\ n \in Int /\ m \in Nat
  BY DEF Bal!Position
<1>2. Bal!Abs(q * t) = Bal!Abs(q) * t /\ Bal!Abs(n * m) = Bal!Abs(n) * m /\ Bal!Abs(q) \in Nat /\ Bal!Abs(n) \in Nat
  BY <1>1, AbsTimes
<1>3. CASE Bal!IsReduce(n, q)
  <2>1. CASE n > 0
    <3>1. Bal!Cost(p, q, t) = (Bal!Abs(q) - Bal!Abs(q)) * t - Bal!Abs(q) * (m + (t - m))
      BY <1>1, <1>3, <2>1 DEF Bal!Cost, Bal!IsReduce, Bal!Abs
    <3>2. Bal!CalcBalanceConsumption(p, q, t) = -(Bal!Abs(q) * t)
      BY <1>1, <1>2, <1>3 DEF Bal!CalcBalanceConsumption
    <3>3. QED
      BY <1>1, <1>2, <3>1, <3>2
  <2>2. CASE n < 0
    <3>2. t = m
      BY <1>1, <1>3, <2>2 DEF Bal!Misjudged
    <3>1. Bal!Cost(p, q, t) = (Bal!Abs(q) - Bal!Abs(q)) * t - Bal!Abs(q) * (m + (m - t))
      <4>1. q > 0 /\ n + q <= 0 /\ Bal!Abs(q) = q /\ Bal!Abs(n) = -n /\ q \in Int
        BY <1>1, <1>3, <2>2 DEF Bal!IsReduce, Bal!Abs
      <4>2. (IF Bal!Abs(q) < Bal!Abs(n) THEN Bal!Abs(q) ELSE Bal!Abs(n)) = Bal!Abs(q)
        BY <1>1, <4>1
      <4>3. QED
        BY <1>1, <2>2, <4>1, <4>2 DEF Bal!Cost
    <3>3. Bal!CalcBalanceConsumption(p, q, t) = -(Bal!Abs(q) * t)
      BY <1>1, <1>2, <1>3 DEF Bal!CalcBalanceConsumption
    <3>4. QED
      BY <1>1, <1>2, <3>1, <3>2, <3>3
  <2>3. QED
    BY <1>1, <1>3, <2>1, <2>2 DEF Bal!IsReduce
<1>4. CASE Bal!IsReverse(n, q)
  <2>1. Bal!CalcBalanceConsumption(p, q, t) = -(Bal!Abs(n) * m + (Bal!Abs(n) * m - Bal!Abs(q) * t))
    <3>1. ~Bal!IsReduce(n, q)
      BY <1>1, <1>4 DEF Bal!IsReduce, Bal!IsReverse
    <3>2. QED
      BY <1>1, <1>2, <1>4, <3>1 DEF Bal!CalcBalanceConsumption
  <2>2. CASE n > 0
    <3>1. Bal!Cost(p, q, t) = (Bal!Abs(q) - Bal!Abs(n)) * t - Bal!Abs(n) * (m + (t - m))
      BY <1>1, <1>4, <2>2 DEF Bal!Cost, Bal!IsReverse, Bal!Abs
    <3>2. t = m
      BY <1>1, <1>4, <2>2 DEF Bal!Misjudged
    <3>3. QED
      BY <1>1, <1>2, <2>1, <3>1, <3>2
  <2>3. CASE n < 0
    <3>1. Bal!Cost(p, q, t) = (Bal!Abs(q) - Bal!Abs(n)) * t - Bal!Abs(n) * (m + (m - t))
      BY <1>1, <1>4, <2>3 DEF Bal!Cost, Bal!IsReverse, Bal!Abs
    <3>2. QED
      BY <1>1, <1>2, <2>1, <3>1
  <2>4. QED
    BY <1>1, <1>4, <2>2, <2>3 DEF Bal!IsReverse
<1>5. CASE ~Bal!IsReduce(n, q) /\ ~Bal!IsReverse(n, q)
  <2>1. Bal!Cost(p, q, t) = (Bal!Abs(q) - 0) * t - 0 * (m + (IF n > 0 THEN t - m ELSE m - t))
    BY <1>1, <1>5 DEF Bal!Cost, Bal!IsReduce, Bal!IsReverse, Bal!Abs
  <2>2. Bal!CalcBalanceConsumption(p, q, t) = Bal!Abs(q) * t
    BY <1>1, <1>2, <1>5 DEF Bal!CalcBalanceConsumption
  <2>3. QED
    BY <1>1, <1>2, <2>1, <2>2
<1>6. QED
  BY <1>3, <1>4, <1>5

LEMMA EventComes ==
  ASSUME NEW own \in Balances, NEW later \in Balances, NEW table \in Balances,
         NEW left \in Balances,
         NEW queued \in Seq(Bal!Entry), NEW e \in Bal!Entry, InTheEnd(own, queued, table),
         \A c \in Bal!Currencies \ {e.currency} : later[c] = own[c] /\ left[c] = table[c],
         left[e.currency] = e.qty
  PROVE  Append(queued, e) \in Seq(Bal!Entry) /\ InTheEnd(later, Append(queued, e), left)
<1> DEFINE new == Append(queued, e)
<1>1. /\ new \in Seq(Bal!Entry) /\ Len(new) = Len(queued) + 1 /\ Len(queued) \in Nat
      /\ DOMAIN new = 1..(Len(queued) + 1) /\ DOMAIN queued = 1..Len(queued)
      /\ \A k \in 1..Len(queued) : new[k] = queued[k]
      /\ new[Len(queued) + 1] = e
  BY AppendProperties, LenProperties
<1>2. e.currency \in Bal!Currencies
  BY DEF Bal!Entry
<1> HIDE DEF new
<1>3. ASSUME NEW c \in Bal!Currencies
      PROVE  /\ (\A k \in DOMAIN new : new[k].currency # c) => later[c] = left[c]
             /\ \A k \in DOMAIN new :
                  new[k].currency = c /\ (\A j \in DOMAIN new : j > k => new[j].currency # c)
                    => new[k].qty = left[c]
  <2>1. CASE c = e.currency
    BY <1>1, <2>1
  <2>2. CASE c # e.currency
    <3>1. later[c] = own[c] /\ left[c] = table[c]
      BY <2>2
    <3>2. (\A k \in DOMAIN new : new[k].currency # c) => later[c] = left[c]
      BY <1>1, <3>1 DEF InTheEnd
    <3>3. ASSUME NEW k \in DOMAIN new, new[k].currency = c,
                 \A j \in DOMAIN new : j > k => new[j].currency # c
          PROVE  new[k].qty = left[c]
      <4>1. k \in DOMAIN queued /\ queued[k] = new[k]
        BY <1>1, <2>2, <3>3
      <4>2. \A j \in DOMAIN queued : j > k => queued[j].currency # c
        BY <1>1, <3>3
      <4>3. QED
        BY <3>1, <3>3, <4>1, <4>2 DEF InTheEnd
    <3>4. QED
      BY <3>2, <3>3
  <2>3. QED
    BY <2>1, <2>2
<1>4. InTheEnd(later, new, left)
  BY <1>3 DEF InTheEnd
<1>5. QED
  BY <1>1, <1>4 DEF new

LEMMA EventIsHeard ==
  ASSUME NEW own \in Balances, NEW table \in Balances,
         NEW queued \in Seq(Bal!Entry), InTheEnd(own, queued, table), queued # <<>>
  PROVE  /\ Tail(queued) \in Seq(Bal!Entry)
         /\ [own EXCEPT ![Head(queued).currency] = Head(queued).qty] \in Balances
         /\ InTheEnd([own EXCEPT ![Head(queued).currency] = Head(queued).qty], Tail(queued), table)
<1> DEFINE new == Tail(queued)
           later == [own EXCEPT ![Head(queued).currency] = Head(queued).qty]
<1>1. /\ new \in Seq(Bal!Entry) /\ Len(queued) \in Nat \ {0} /\ DOMAIN queued = 1..Len(queued)
      /\ DOMAIN new = 1..(Len(queued) - 1)
      /\ \A k \in 1..(Len(queued) - 1) : new[k] = queued[k + 1]
      /\ Head(queued) = queued[1] /\ queued[1] \in Bal!Entry
  BY HeadTailProperties, LenProperties, EmptySeq, ElementOfSeq
<1>2. /\ queued[1].currency \in Bal!Currencies /\ queued[1].qty \in Int
  BY <1>1 DEF Bal!Entry
<1>3. /\ later \in Balances /\ later[queued[1].currency] = queued[1].qty
      /\ \A c \in Bal!Currencies \ {queued[1].currency} : later[c] = own[c]
  BY <1>1, <1>2 DEF Balances
<1> HIDE DEF new, later
<1>4. ASSUME NEW c \in Bal!Currencies
      PROVE  /\ (\A k \in DOMAIN new : new[k].currency # c) => later[c] = table[c]
             /\ \A k \in DOMAIN new :
                  new[k].currency = c /\ (\A j \in DOMAIN new : j > k => new[j].currency # c)
                    => new[k].qty = table[c]
  <2>1. ASSUME \A k \in DOMAIN new : new[k].currency # c
        PROVE  later[c] = table[c]
    <3>1. \A k \in DOMAIN queued : k > 1 => queued[k].currency # c
      <4>1. ASSUME NEW k \in DOMAIN queued, k > 1
            PROVE  queued[k].currency # c
        <5>1. k - 1 \in DOMAIN new /\ new[k - 1] = queued[k]
          BY <1>1, <4>1
        <5>2. QED
          BY <2>1, <5>1
      <4>2. QED
        BY <4>1
    <3>2. CASE queued[1].currency = c
      BY <1>1, <1>3, <3>1, <3>2 DEF InTheEnd
    <3>3. CASE queued[1].currency # c
      <4>1. \A k \in DOMAIN queued : queued[k].currency # c
        BY <1>1, <3>1, <3>3
      <4>2. QED
        BY <1>3, <3>3, <4>1 DEF InTheEnd
    <3>4. QED
      BY <3>2, <3>3
  <2>2. ASSUME NEW k \in DOMAIN new, new[k].currency = c,
               \A j \in DOMAIN new : j > k => new[j].currency # c
        PROVE  new[k].qty = table[c]
    <3>1. k + 1 \in DOMAIN queued /\ queued[k + 1] = new[k]
      BY <1>1
    <3>2. ASSUME NEW j \in DOMAIN queued, j > k + 1
          PROVE  queued[j].currency # c
      <4>1. j - 1 \in DOMAIN new /\ j - 1 > k /\ new[j - 1] = queued[j]
        BY <1>1, <3>2
      <4>2. QED
        BY <2>2, <4>1
    <3>3. QED
      BY <2>2, <3>1, <3>2 DEF InTheEnd
  <2>3. QED
    BY <2>1, <2>2
<1>5. InTheEnd(later, new, table)
  BY <1>4 DEF InTheEnd
<1>6. QED
  BY <1>1, <1>3, <1>5 DEF new, later

-----------------------------------------------------------------------------
LEMMA BalancesInit ==
  ASSUME Bal!BalanceLedgerAssumption, Bal!Init
  PROVE  BalancesInv
<1>1. wallet \in Balances /\ wallet["base"] = 0 /\ wallet["quote"] = Funds /\ Funds \in Nat
  BY DEF Bal!Init, Bal!BalanceLedgerAssumption, Balances, Bal!Currencies
<1>2. /\ <<>> \in Seq(Bal!Entry) /\ <<>> \in Seq(Bal!Fill)
      /\ Len(<<>>) = 0 /\ DOMAIN <<>> = {}
  BY EmptySeq
<1>3. Bal!TypeOK
  <2>1. tally \in [fills : 0..MaxFills, transfers : 0..MaxTransfers, loads : 0..MaxLoads]
    BY DEF Bal!Init, Bal!BalanceLedgerAssumption
  <2>2. apiLoad \in [fetched : Seq(Bal!Entry), todo : Seq(Bal!Entry), on : BOOLEAN]
    BY <1>2 DEF Bal!Init, Bal!NoLoad
  <2>3. contracts \in Bal!Position /\ wsPosition \in Bal!Position
    BY DEF Bal!Init, Bal!Flat, Bal!Position
  <2>4. QED
    BY <1>1, <1>2, <2>1, <2>2, <2>3 DEF Bal!Init, Bal!TypeOK, Balances
<1>4. Bounded
  BY <1>1, <1>2 DEF Bal!Init, Bounded, Bal!Currencies
<1>5. Chained
  <2>1. wsPosition = Bal!Flat /\ contracts = Bal!Flat /\ Bal!Flat \in Bal!Position
    BY DEF Bal!Init, Bal!Flat, Bal!Position
  <2> DEFINE g == [k \in 0..0 |-> Bal!Flat]
  <2>2. Positioned(reports, g, wsPosition, contracts) /\ g \in [0..Len(reports) -> Bal!Position]
    BY <1>2, <2>1 DEF Positioned, Bal!Init
  <2>3. ASSUME NEW c \in Bal!Currencies
        PROVE  \E f \in [0..Len(reports) -> Int] :
                 Chain(reports, f, c, redis[c] + Owing(owed, c), wallet[c])
    <3> DEFINE f == [k \in 0..0 |-> wallet[c]]
    <3>1. wallet[c] \in Int /\ redis[c] + Owing(owed, c) = wallet[c]
      BY <1>1, <1>2 DEF Bal!Init, Owing, Balances
    <3>2. Chain(reports, f, c, redis[c] + Owing(owed, c), wallet[c]) /\ f \in [0..Len(reports) -> Int]
      BY <1>2, <3>1 DEF Chain, Bal!Init
    <3>3. QED
      BY <3>2
  <2>4. QED
    BY <2>2, <2>3 DEF Chained
<1>7. LoadClean
  BY <1>2 DEF Bal!Init, LoadClean, Bal!NoLoad
<1>8. InTheEnd(wsMemory, wsInbox, redis) /\ InTheEnd(apiMemory, apiInbox, redis)
  BY <1>2 DEF Bal!Init, InTheEnd
<1>9. QED
  BY <1>3, <1>4, <1>5, <1>7, <1>8 DEF BalancesInv

LEMMA AfterTyped ==
  ASSUME NEW r \in Bal!Fill, NEW p \in Bal!Position
  PROVE  After(r, p) \in Bal!Position
<1>1. r.qty \in Int /\ r.price \in Nat
  BY DEF Bal!Fill
<1>2. QED
  BY <1>1, AddTyped DEF After

\* One more fill ends a chain later, ...
LEMMA PositionGrows ==
  ASSUME NEW reported \in Seq(Bal!Fill), NEW r \in Bal!Fill, NEW f,
         NEW v \in Bal!Position, NEW w \in Bal!Position, Positioned(reported, f, v, w),
         r.moved = Moved(r, w)
  PROVE  \E g \in [0..Len(Append(reported, r)) -> Bal!Position] :
           Positioned(Append(reported, r), g, v, After(r, w))
<1> DEFINE z == After(r, w)
           n == Len(reported)
           g == [k \in 0..(n + 1) |-> IF k = n + 1 THEN z ELSE f[k]]
<1>1. /\ n \in Nat /\ Len(Append(reported, r)) = n + 1
      /\ \A k \in 1..n : Append(reported, r)[k] = reported[k]
      /\ Append(reported, r)[n + 1] = r
  BY AppendProperties, LenProperties
<1>2. z \in Bal!Position
  BY AfterTyped
<1>3. /\ f \in [0..n -> Bal!Position] /\ f[0] = v /\ f[n] = w
      /\ \A k \in 1..n : f[k] = After(reported[k], f[k - 1]) /\ reported[k].moved = Moved(reported[k], f[k - 1])
  BY DEF Positioned
<1> HIDE DEF n, z
<1>4. g \in [0..(n + 1) -> Bal!Position] /\ g[0] = v /\ g[n + 1] = z
  BY <1>1, <1>2, <1>3
<1>5. ASSUME NEW k \in 1..(n + 1)
      PROVE  g[k] = After(Append(reported, r)[k], g[k - 1]) /\ Append(reported, r)[k].moved = Moved(Append(reported, r)[k], g[k - 1])
  <2>1. CASE k = n + 1
    <3>1. g[k] = z /\ g[k - 1] = w /\ Append(reported, r)[k] = r
      BY <1>1, <1>3, <2>1
    <3>2. QED
      BY <3>1 DEF z
  <2>2. CASE k \in 1..n
    <3>1. g[k] = f[k] /\ g[k - 1] = f[k - 1] /\ Append(reported, r)[k] = reported[k]
      BY <1>1, <1>3, <2>2
    <3>2. QED
      BY <1>3, <2>2, <3>1
  <2>3. QED
    BY <1>1, <2>1, <2>2
<1> HIDE DEF g
<1>6. Positioned(Append(reported, r), g, v, z)
  BY <1>1, <1>4, <1>5 DEF Positioned
<1>7. QED
  BY <1>1, <1>4, <1>6 DEF z

LEMMA ChainGrows ==
  ASSUME NEW reported \in Seq(Bal!Fill), NEW r \in Bal!Fill, NEW f, NEW c \in Bal!Currencies,
         NEW v \in Int, NEW w \in Int, Chain(reported, f, c, v, w)
  PROVE  \E g \in [0..Len(Append(reported, r)) -> Int] :
           Chain(Append(reported, r), g, c, v, w + r.moved[c])
<1> DEFINE z == w + r.moved[c]
           n == Len(reported)
           g == [k \in 0..(n + 1) |-> IF k = n + 1 THEN z ELSE f[k]]
<1>1. /\ n \in Nat /\ Len(Append(reported, r)) = n + 1
      /\ \A k \in 1..n : Append(reported, r)[k] = reported[k]
      /\ Append(reported, r)[n + 1] = r
  BY AppendProperties, LenProperties
<1>2. z \in Int
  BY DEF Bal!Fill
<1>3. /\ f \in [0..n -> Int] /\ f[0] = v /\ f[n] = w
      /\ \A k \in 1..n : f[k] = f[k - 1] + reported[k].moved[c]
  BY DEF Chain
<1> HIDE DEF n, z
<1>4. g \in [0..(n + 1) -> Int] /\ g[0] = v /\ g[n + 1] = z
  BY <1>1, <1>2, <1>3
<1>5. ASSUME NEW k \in 1..(n + 1)
      PROVE  g[k] = g[k - 1] + Append(reported, r)[k].moved[c]
  <2>1. CASE k = n + 1
    <3>1. g[k] = z /\ g[k - 1] = w /\ Append(reported, r)[k] = r
      BY <1>1, <1>3, <2>1
    <3>2. QED
      BY <3>1 DEF z
  <2>2. CASE k \in 1..n
    <3>1. g[k] = f[k] /\ g[k - 1] = f[k - 1] /\ Append(reported, r)[k] = reported[k]
      BY <1>1, <1>3, <2>2
    <3>2. QED
      BY <1>3, <2>2, <3>1
  <2>3. QED
    BY <1>1, <2>1, <2>2
<1> HIDE DEF g
<1>6. Chain(Append(reported, r), g, c, v, z)
  BY <1>1, <1>4, <1>5 DEF Chain
<1>7. QED
  BY <1>1, <1>4, <1>6 DEF z

\* ... and one handled starts it later.
LEMMA PositionShortens ==
  ASSUME NEW reported \in Seq(Bal!Fill), reported # <<>>, NEW f,
         NEW v \in Bal!Position, NEW w \in Bal!Position, Positioned(reported, f, v, w)
  PROVE  /\ Head(reported).moved = Moved(Head(reported), v)
         /\ \E g \in [0..Len(Tail(reported)) -> Bal!Position] :
           Positioned(Tail(reported), g, After(Head(reported), v), w)
<1> DEFINE n == Len(reported)
           g == [k \in 0..(n - 1) |-> f[k + 1]]
<1>1. /\ n \in Nat \ {0} /\ Len(Tail(reported)) = n - 1 /\ Head(reported) = reported[1]
      /\ \A k \in 1..(n - 1) : Tail(reported)[k] = reported[k + 1]
  BY HeadTailProperties, LenProperties, EmptySeq
<1>2. /\ f \in [0..n -> Bal!Position] /\ f[0] = v /\ f[n] = w
      /\ \A k \in 1..n : f[k] = After(reported[k], f[k - 1]) /\ reported[k].moved = Moved(reported[k], f[k - 1])
  BY DEF Positioned
<1> HIDE DEF n
<1>3. f[1] = After(reported[1], v) /\ reported[1].moved = Moved(reported[1], v)
  BY <1>1, <1>2
<1>4. g \in [0..(n - 1) -> Bal!Position] /\ g[0] = f[1] /\ g[n - 1] = w
  BY <1>1, <1>2
<1>5. ASSUME NEW k \in 1..(n - 1)
      PROVE  g[k] = After(Tail(reported)[k], g[k - 1]) /\ Tail(reported)[k].moved = Moved(Tail(reported)[k], g[k - 1])
  <2>1. f[k + 1] = After(reported[k + 1], f[k]) /\ reported[k + 1].moved = Moved(reported[k + 1], f[k])
    <3>1. k + 1 \in 1..n /\ (k + 1) - 1 = k
      BY <1>1
    <3>2. QED
      BY <1>2, <3>1
  <2>2. k \in 0..(n - 1) /\ k - 1 \in 0..(n - 1) /\ (k - 1) + 1 = k /\ Tail(reported)[k] = reported[k + 1]
    BY <1>1
  <2>3. g[k] = f[k + 1] /\ g[k - 1] = f[k]
    BY <2>2
  <2>4. QED
    BY <2>1, <2>2, <2>3
<1> HIDE DEF g
<1>6. Positioned(Tail(reported), g, f[1], w)
  BY <1>1, <1>4, <1>5 DEF Positioned
<1>7. QED
  BY <1>1, <1>3, <1>4, <1>6

LEMMA ChainShortens ==
  ASSUME NEW reported \in Seq(Bal!Fill), reported # <<>>, NEW f, NEW c \in Bal!Currencies,
         NEW v \in Int, NEW w \in Int, Chain(reported, f, c, v, w)
  PROVE  \E g \in [0..Len(Tail(reported)) -> Int] :
           Chain(Tail(reported), g, c, v + Head(reported).moved[c], w)
<1> DEFINE n == Len(reported)
           g == [k \in 0..(n - 1) |-> f[k + 1]]
<1>1. /\ n \in Nat \ {0} /\ Len(Tail(reported)) = n - 1 /\ Head(reported) = reported[1]
      /\ \A k \in 1..(n - 1) : Tail(reported)[k] = reported[k + 1]
  BY HeadTailProperties, LenProperties, EmptySeq
<1>2. /\ f \in [0..n -> Int] /\ f[0] = v /\ f[n] = w
      /\ \A k \in 1..n : f[k] = f[k - 1] + reported[k].moved[c]
  BY DEF Chain
<1> HIDE DEF n
<1>3. f[1] = v + reported[1].moved[c]
  BY <1>1, <1>2
<1>4. g \in [0..(n - 1) -> Int] /\ g[0] = f[1] /\ g[n - 1] = w
  BY <1>1, <1>2
<1>5. ASSUME NEW k \in 1..(n - 1)
      PROVE  g[k] = g[k - 1] + Tail(reported)[k].moved[c]
  <2>1. f[k + 1] = f[k] + reported[k + 1].moved[c]
    <3>1. k + 1 \in 1..n /\ (k + 1) - 1 = k
      BY <1>1
    <3>2. QED
      BY <1>2, <3>1
  <2>2. k \in 0..(n - 1) /\ k - 1 \in 0..(n - 1) /\ (k - 1) + 1 = k /\ Tail(reported)[k] = reported[k + 1]
    BY <1>1
  <2>3. g[k] = f[k + 1] /\ g[k - 1] = f[k]
    BY <2>2
  <2>4. QED
    BY <2>1, <2>2, <2>3
<1> HIDE DEF g
<1>6. Chain(Tail(reported), g, c, f[1], w)
  BY <1>1, <1>4, <1>5 DEF Chain
<1>7. QED
  BY <1>1, <1>3, <1>4, <1>6

-----------------------------------------------------------------------------
LEMMA OwingTyped ==
  ASSUME owed \in Seq(Bal!Entry), NEW c \in Bal!Currencies
  PROVE  Owing(owed, c) \in Int
<1>1. Len(owed) \in Nat /\ \A k \in 1..Len(owed) : owed[k] \in Bal!Entry
  BY LenProperties, ElementOfSeq
<1>2. \A k \in 1..Len(owed) : owed[k].qty \in Int
  BY <1>1 DEF Bal!Entry
<1>3. QED
  BY <1>1, <1>2 DEF Owing

TallyTyped == tally \in [fills : 0..MaxFills, transfers : 0..MaxTransfers, loads : 0..MaxLoads]

LEMMA OneMore ==
  ASSUME Bal!BalanceLedgerAssumption, TallyTyped
  PROVE  /\ tally.fills < MaxFills /\ tally' = [tally EXCEPT !.fills = @ + 1] => TallyTyped'
         /\ tally.transfers < MaxTransfers /\ tally' = [tally EXCEPT !.transfers = @ + 1] => TallyTyped'
         /\ tally.loads < MaxLoads /\ tally' = [tally EXCEPT !.loads = @ + 1] => TallyTyped'
<1>1. /\ MaxFills \in Nat /\ MaxTransfers \in Nat /\ MaxLoads \in Nat
      /\ tally.fills \in 0..MaxFills /\ tally.transfers \in 0..MaxTransfers
      /\ tally.loads \in 0..MaxLoads
  BY DEF Bal!BalanceLedgerAssumption, TallyTyped
<1>2. /\ tally.fills < MaxFills => tally.fills + 1 \in 0..MaxFills
      /\ tally.transfers < MaxTransfers => tally.transfers + 1 \in 0..MaxTransfers
      /\ tally.loads < MaxLoads => tally.loads + 1 \in 0..MaxLoads
  BY <1>1
<1>3. QED
  BY <1>2 DEF TallyTyped

\* An execution adds to the ends of the chains.
LEMMA ExecuteKeeps ==
  ASSUME Bal!BalanceLedgerAssumption, BalancesInv, NEW spot \in BOOLEAN, NEW qty \in Int,
         NEW price \in Nat, Bal!Execute(spot, qty, price)
  PROVE  BalancesInv'
<1> DEFINE moved == IF spot THEN [base |-> qty, quote |-> -(qty * price)]
                    ELSE [base |-> 0, quote |-> -Bal!Cost(contracts, qty, price)]
           r == [spot |-> spot, qty |-> qty, price |-> price, moved |-> moved]
<1>1. /\ tally.fills < MaxFills /\ tally' = [tally EXCEPT !.fills = @ + 1]
      /\ reports' = Append(reports, r) /\ quiet' = FALSE
      /\ contracts' = IF spot THEN contracts ELSE Bal!Add(contracts, qty, price)
      /\ wallet' = [c \in Bal!Currencies |-> wallet[c] + moved[c]]
      /\ \A c \in Bal!Currencies : wallet'[c] >= 0
      /\ UNCHANGED <<wsMemory, wsInbox, wsPosition, owed, apiMemory, apiInbox, apiLoad, redis, suspect>>
  BY DEF Bal!Execute, Bal!wsside, Bal!apiside
<1>2. /\ wallet \in [Bal!Currencies -> Int] /\ contracts \in Bal!Position
      /\ redis \in [Bal!Currencies -> Int]
      /\ reports \in Seq(Bal!Fill) /\ owed \in Seq(Bal!Entry) /\ wsPosition \in Bal!Position
  BY DEF BalancesInv, Bal!TypeOK
<1>3. moved \in [Bal!Currencies -> Int] /\ r \in Bal!Fill
  <2>1. Bal!Cost(contracts, qty, price) \in Int /\ qty * price \in Int
    BY <1>2, CostTyped
  <2>2. moved \in [Bal!Currencies -> Int]
    BY <2>1 DEF Bal!Currencies
  <2> HIDE DEF moved
  <2>3. QED
    BY <2>2 DEF Bal!Fill
<1>4. /\ r.moved = moved /\ moved = Moved(r, contracts) /\ contracts' = After(r, contracts)
  BY <1>1 DEF Moved, After
<1> HIDE DEF r, moved
<1>5. /\ wallet' \in [Bal!Currencies -> Int] /\ contracts' \in Bal!Position
      /\ \A c \in Bal!Currencies : wallet'[c] = wallet[c] + r.moved[c]
  BY <1>1, <1>2, <1>3, <1>4, AfterTyped
<1>6. reports' \in Seq(Bal!Fill)
  BY <1>1, <1>2, <1>3, AppendProperties
<1>7. Bal!TypeOK'
  <2>1. tally' \in [fills : 0..MaxFills, transfers : 0..MaxTransfers, loads : 0..MaxLoads]
    BY <1>1, OneMore DEF BalancesInv, Bal!TypeOK, TallyTyped
  <2>2. QED
    BY <1>1, <1>5, <1>6, <2>1 DEF BalancesInv, Bal!TypeOK
<1>8. Chained'
  <2>1. \E g \in [0..Len(reports') -> Bal!Position] : Positioned(reports', g, wsPosition', contracts')
    <3>1. PICK f \in [0..Len(reports) -> Bal!Position] : Positioned(reports, f, wsPosition, contracts)
      BY DEF BalancesInv, Chained
    <3>2. \E g \in [0..Len(Append(reports, r)) -> Bal!Position] :
            Positioned(Append(reports, r), g, wsPosition, After(r, contracts))
      BY <1>2, <1>3, <1>4, <3>1, PositionGrows
    <3>3. QED
      BY <1>1, <1>4, <3>2
  <2>2. ASSUME ~suspect', NEW c \in Bal!Currencies
        PROVE  \E g \in [0..Len(reports') -> Int] :
                 Chain(reports', g, c, redis'[c] + Owing(owed', c), wallet'[c])
    <3>1. PICK f \in [0..Len(reports) -> Int] :
            Chain(reports, f, c, redis[c] + Owing(owed, c), wallet[c])
      BY <1>1, <2>2 DEF BalancesInv, Chained
    <3>2. redis[c] + Owing(owed, c) \in Int /\ wallet[c] \in Int
      BY <1>2, OwingTyped
    <3>3. \E g \in [0..Len(Append(reports, r)) -> Int] :
            Chain(Append(reports, r), g, c, redis[c] + Owing(owed, c), wallet[c] + r.moved[c])
      BY <1>2, <1>3, <3>1, <3>2, ChainGrows
    <3>4. redis'[c] + Owing(owed', c) = redis[c] + Owing(owed, c)
      BY <1>1 DEF Owing
    <3>5. QED
      BY <1>1, <1>5, <3>3, <3>4
  <2>3. QED
    BY <2>1, <2>2 DEF Chained
<1>9. LoadClean'
  BY <1>1 DEF BalancesInv, LoadClean, IsFetched
<1>10. Bounded' /\ InTheEnd(wsMemory, wsInbox, redis)' /\ InTheEnd(apiMemory, apiInbox, redis)'
  BY <1>1 DEF BalancesInv, Bounded, InTheEnd
<1>11. QED
  BY <1>7, <1>8, <1>9, <1>10 DEF BalancesInv

LEMMA TransferKeeps ==
  ASSUME Bal!BalanceLedgerAssumption, BalancesInv, NEW c \in Bal!Currencies, NEW qty \in Int, Bal!Transfer(c, qty)
  PROVE  BalancesInv'
<1>1. /\ tally.transfers < MaxTransfers /\ tally' = [tally EXCEPT !.transfers = @ + 1]
      /\ wallet[c] + qty >= 0 /\ wallet' = [wallet EXCEPT ![c] = @ + qty]
      /\ quiet' = FALSE /\ suspect' = TRUE
      /\ UNCHANGED <<contracts, reports, wsMemory, wsInbox, wsPosition, owed, apiMemory, apiInbox,
                     apiLoad, redis>>
  BY DEF Bal!Transfer, Bal!wsside, Bal!apiside
<1>2. wallet' \in [Bal!Currencies -> Int] /\ \A d \in Bal!Currencies : wallet'[d] >= 0
  <2>1. wallet \in [Bal!Currencies -> Int] /\ wallet[c] + qty \in Int /\ \A d \in Bal!Currencies : wallet[d] >= 0
    BY DEF BalancesInv, Bal!TypeOK, Bounded
  <2>2. wallet' \in [Bal!Currencies -> Int] /\ wallet'[c] = wallet[c] + qty
        /\ \A d \in Bal!Currencies \ {c} : wallet'[d] = wallet[d]
    BY <1>1, <2>1
  <2>3. QED
    BY <1>1, <2>1, <2>2
<1>3. Bal!TypeOK'
  <2>1. tally' \in [fills : 0..MaxFills, transfers : 0..MaxTransfers, loads : 0..MaxLoads]
    BY <1>1, OneMore DEF BalancesInv, Bal!TypeOK, TallyTyped
  <2>2. QED
    BY <1>1, <1>2, <2>1 DEF BalancesInv, Bal!TypeOK
<1>4. Chained'
  BY <1>1 DEF BalancesInv, Chained
<1>5. LoadClean'
  BY <1>1 DEF BalancesInv, LoadClean, IsFetched
<1>6. Bounded' /\ InTheEnd(wsMemory, wsInbox, redis)' /\ InTheEnd(apiMemory, apiInbox, redis)'
  BY <1>1, <1>2 DEF BalancesInv, Bounded, InTheEnd
<1>7. QED
  BY <1>3, <1>4, <1>5, <1>6 DEF BalancesInv

\* What a fill has to move is what the exchange moved for it, unless it is misjudged.
LEMMA OnFillKeeps ==
  ASSUME Bal!BalanceLedgerAssumption, BalancesInv, Bal!OnFill
  PROVE  BalancesInv'
<1> DEFINE r == Head(reports)
           taken == Bal!CalcBalanceConsumption(wsPosition, r.qty, r.price)
<1>1. /\ owed = <<>> /\ reports # <<>> /\ reports' = Tail(reports) /\ quiet' = FALSE
      /\ owed' = IF r.spot THEN <<[currency |-> "base", qty |-> r.qty],
                                 [currency |-> "quote", qty |-> -(r.qty * r.price)]>>
                 ELSE <<[currency |-> "quote", qty |-> -taken]>>
      /\ wsPosition' = After(r, wsPosition)
      /\ suspect' = (suspect \/ (~r.spot /\ Bal!Misjudged(wsPosition, r.qty, r.price)))
      /\ UNCHANGED <<wallet, contracts, wsMemory, wsInbox, apiMemory, apiInbox, apiLoad, redis, tally>>
  <2>1. suspect \in BOOLEAN
    BY DEF BalancesInv, Bal!TypeOK
  <2>2. QED
    BY <2>1 DEF Bal!OnFill, Bal!apiside, After
<1>2. /\ wallet \in [Bal!Currencies -> Int] /\ contracts \in Bal!Position
      /\ redis \in [Bal!Currencies -> Int] /\ reports \in Seq(Bal!Fill) /\ wsPosition \in Bal!Position
      /\ \A c \in Bal!Currencies : Owing(owed, c) = 0
  <2>1. Len(<<>>) = 0
    BY EmptySeq
  <2>2. QED
    BY <1>1, <2>1 DEF BalancesInv, Bal!TypeOK, Owing
<1>3. r \in Bal!Fill /\ Tail(reports) \in Seq(Bal!Fill)
  BY <1>1, <1>2, HeadTailProperties
<1>4. r.spot \in BOOLEAN /\ r.qty \in Int /\ r.price \in Nat /\ taken \in Int /\ r.qty * r.price \in Int
  <2>1. r.spot \in BOOLEAN /\ r.qty \in Int /\ r.price \in Nat
    BY <1>3 DEF Bal!Fill
  <2> HIDE DEF r
  <2>2. QED
    BY <1>2, <2>1, CostTyped
<1>5. /\ r.moved = Moved(r, wsPosition)
      /\ \E g \in [0..Len(Tail(reports)) -> Bal!Position] :
            Positioned(Tail(reports), g, After(r, wsPosition), contracts)
  <2>1. PICK f \in [0..Len(reports) -> Bal!Position] : Positioned(reports, f, wsPosition, contracts)
    BY DEF BalancesInv, Chained
  <2>2. QED
    BY <1>1, <1>2, <2>1, PositionShortens
<1>6. ~r.spot /\ ~Bal!Misjudged(wsPosition, r.qty, r.price) => taken = Bal!Cost(wsPosition, r.qty, r.price)
  BY <1>2, <1>4, ConsumptionIsCost
<1> HIDE DEF r, taken
<1>7. /\ owed' \in Seq(Bal!Entry) /\ Len(owed') <= 2
      /\ Len(owed') = 2 => owed'[1].currency # owed'[2].currency
      /\ Owing(owed', "base") = IF r.spot THEN r.qty ELSE 0
      /\ Owing(owed', "quote") = IF r.spot THEN -(r.qty * r.price) ELSE -taken
  <2>1. CASE r.spot
    <3> DEFINE a == [currency |-> "base", qty |-> r.qty]
               b == [currency |-> "quote", qty |-> -(r.qty * r.price)]
    <3>1. a \in Bal!Entry /\ b \in Bal!Entry /\ a.currency = "base" /\ b.currency = "quote"
          /\ a.qty = r.qty /\ b.qty = -(r.qty * r.price)
      BY <1>4 DEF Bal!Entry, Bal!Currencies
    <3> HIDE DEF a, b
    <3>2. owed' = <<a, b>>
      BY <1>1, <2>1 DEF a, b
    <3>3. <<a, b>> \in Seq(Bal!Entry) /\ Len(<<a, b>>) = 2 /\ <<a, b>>[1] = a /\ <<a, b>>[2] = b
      BY <3>1
    <3>4. QED
      BY <1>4, <2>1, <3>1, <3>2, <3>3 DEF Owing
  <2>2. CASE ~r.spot
    <3> DEFINE b == [currency |-> "quote", qty |-> -taken]
    <3>1. b \in Bal!Entry /\ b.currency = "quote" /\ b.qty = -taken
      BY <1>4 DEF Bal!Entry, Bal!Currencies
    <3>2. owed' = <<b>>
      BY <1>1, <2>2
    <3> HIDE DEF b
    <3>3. <<b>> \in Seq(Bal!Entry) /\ Len(<<b>>) = 1 /\ <<b>>[1] = b
      BY <3>1
    <3>4. QED
      BY <1>4, <2>2, <3>1, <3>2, <3>3 DEF Owing
  <2>3. QED
    BY <2>1, <2>2
<1>8. ASSUME ~suspect', NEW c \in Bal!Currencies
      PROVE  Owing(owed', c) = r.moved[c]
  <2>1. ~r.spot => taken = Bal!Cost(wsPosition, r.qty, r.price)
    BY <1>1, <1>4, <1>6, <1>8
  <2>2. c = "base" \/ c = "quote"
    BY DEF Bal!Currencies
  <2>3. /\ r.moved["base"] = IF r.spot THEN r.qty ELSE 0
        /\ r.moved["quote"] = IF r.spot THEN -(r.qty * r.price) ELSE -Bal!Cost(wsPosition, r.qty, r.price)
    BY <1>5 DEF Moved
  <2>4. QED
    BY <1>7, <2>1, <2>2, <2>3
<1>9. Bal!TypeOK'
  <2>1. wsPosition' \in Bal!Position
    BY <1>1, <1>2, <1>3, AfterTyped
  <2>2. reports' \in Seq(Bal!Fill) /\ quiet' \in BOOLEAN /\ suspect' \in BOOLEAN
    BY <1>1, <1>3
  <2>3. QED
    BY <1>1, <1>7, <2>1, <2>2 DEF BalancesInv, Bal!TypeOK
<1>10. Chained'
  <2>1. ASSUME ~suspect', NEW c \in Bal!Currencies
        PROVE  \E g \in [0..Len(reports') -> Int] :
                 Chain(reports', g, c, redis'[c] + Owing(owed', c), wallet'[c])
    <3>1. ~suspect /\ redis[c] \in Int /\ wallet[c] \in Int /\ redis[c] + Owing(owed, c) = redis[c]
      <4>1. ~suspect
        BY <1>1, <2>1
      <4>2. redis[c] \in Int /\ wallet[c] \in Int /\ Owing(owed, c) = 0
        BY <1>2, <2>1
      <4>3. QED
        BY <4>1, <4>2
    <3>2. PICK f \in [0..Len(reports) -> Int] : Chain(reports, f, c, redis[c], wallet[c])
      BY <3>1 DEF BalancesInv, Chained
    <3>3. \E g \in [0..Len(Tail(reports)) -> Int] :
            Chain(Tail(reports), g, c, redis[c] + r.moved[c], wallet[c])
      BY <1>1, <1>2, <3>1, <3>2, ChainShortens DEF r
    <3>4. redis'[c] + Owing(owed', c) = redis[c] + r.moved[c]
      BY <1>1, <1>8, <2>1
    <3>5. QED
      BY <1>1, <3>3, <3>4
  <2>2. QED
    BY <1>1, <1>5, <2>1 DEF Chained
<1>11. LoadClean'
  BY <1>1 DEF BalancesInv, LoadClean, IsFetched
<1>12. Bounded' /\ InTheEnd(wsMemory, wsInbox, redis)' /\ InTheEnd(apiMemory, apiInbox, redis)'
  BY <1>1, <1>7 DEF BalancesInv, Bounded, InTheEnd
<1>13. QED
  BY <1>9, <1>10, <1>11, <1>12 DEF BalancesInv

\* A balance moved takes to redis what was owed to it.
LEMMA MoveBalanceKeeps ==
  ASSUME Bal!BalanceLedgerAssumption, BalancesInv, Bal!MoveBalance
  PROVE  BalancesInv'
<1> DEFINE m == Head(owed)
           c == m.currency
           q == wsMemory[c] + m.qty
           e == [currency |-> c, qty |-> q]
<1>1. /\ owed # <<>> /\ owed' = Tail(owed) /\ quiet' = FALSE
      /\ wsMemory' = [wsMemory EXCEPT ![c] = q]
      /\ wsInbox' = Append(wsInbox, e) /\ apiInbox' = Append(apiInbox, e)
      /\ redis' = [redis EXCEPT ![c] = q]
      /\ suspect' = (suspect \/ apiLoad.on \/ \E i \in DOMAIN wsInbox : wsInbox[i].currency = c)
      /\ UNCHANGED <<wallet, contracts, reports, wsPosition, apiMemory, apiLoad, tally>>
  BY DEF Bal!MoveBalance, Bal!Published, Bal!Stored, Bal!exch
<1>2. /\ owed \in Seq(Bal!Entry) /\ m = owed[1] /\ m \in Bal!Entry
      /\ Len(owed) \in {1, 2} /\ owed' \in Seq(Bal!Entry) /\ Len(owed') = Len(owed) - 1
      /\ Len(owed) = 2 => owed'[1] = owed[2] /\ owed[2] \in Bal!Entry /\ owed[2].currency # c
  <2>1. owed \in Seq(Bal!Entry) /\ Len(owed) <= 2 /\ (Len(owed) = 2 => owed[1].currency # owed[2].currency)
    BY DEF BalancesInv, Bal!TypeOK, Bounded
  <2>2. Len(owed) \in Nat \ {0} /\ m = owed[1] /\ \A k \in 1..Len(owed) : owed[k] \in Bal!Entry
    BY <1>1, <2>1, EmptySeq, ElementOfSeq, HeadTailProperties
  <2>3. /\ owed' \in Seq(Bal!Entry) /\ Len(owed') = Len(owed) - 1
        /\ \A k \in 1..Len(owed') : owed'[k] = owed[k + 1]
    BY <1>1, <2>1, HeadTailProperties
  <2>4. Len(owed) \in {1, 2}
    <3>1. ASSUME NEW n \in Nat \ {0}, n <= 2 PROVE  n \in {1, 2}
      BY <3>1
    <3>2. QED
      BY <2>1, <2>2, <3>1
  <2> HIDE DEF m
  <2>5. QED
    BY <2>1, <2>2, <2>3, <2>4
<1>3. c \in Bal!Currencies /\ m.qty \in Int
  BY <1>2 DEF Bal!Entry
<1>4. /\ wsMemory \in Balances /\ apiMemory \in Balances /\ redis \in Balances /\ q \in Int
      /\ wsInbox \in Seq(Bal!Entry) /\ apiInbox \in Seq(Bal!Entry)
  <2>1. wsMemory \in [Bal!Currencies -> Int]
    BY DEF BalancesInv, Bal!TypeOK
  <2>2. wsMemory[c] \in Int
    BY <1>3, <2>1
  <2> HIDE DEF m
  <2>3. q \in Int
    BY <1>3, <2>2
  <2>4. QED
    BY <2>3 DEF BalancesInv, Bal!TypeOK, Balances
<1> HIDE DEF m
<1>5. e \in Bal!Entry /\ e.currency = c /\ e.qty = q
  BY <1>3, <1>4 DEF Bal!Entry
<1> HIDE DEF c, q, e
<1>6. /\ wsMemory' \in Balances /\ redis' \in Balances /\ wsMemory'[c] = q /\ redis'[c] = q
      /\ \A d \in Bal!Currencies \ {c} : wsMemory'[d] = wsMemory[d] /\ redis'[d] = redis[d]
  BY <1>1, <1>3, <1>4 DEF Balances
<1>7. wsInbox' \in Seq(Bal!Entry) /\ InTheEnd(wsMemory, wsInbox, redis)'
  <2>1. Append(wsInbox, e) \in Seq(Bal!Entry) /\ InTheEnd(wsMemory', Append(wsInbox, e), redis')
    BY <1>4, <1>5, <1>6, EventComes DEF BalancesInv
  <2>2. QED
    BY <1>1, <2>1 DEF InTheEnd
<1>8. apiInbox' \in Seq(Bal!Entry) /\ InTheEnd(apiMemory, apiInbox, redis)'
  <2>1. Append(apiInbox, e) \in Seq(Bal!Entry) /\ InTheEnd(apiMemory, Append(apiInbox, e), redis')
    BY <1>4, <1>5, <1>6, EventComes DEF BalancesInv
  <2>2. QED
    BY <1>1, <2>1 DEF InTheEnd
<1>9. /\ Owing(owed, c) = m.qty /\ Owing(owed', c) = 0
      /\ \A d \in Bal!Currencies \ {c} : Owing(owed', d) = Owing(owed, d) /\ Owing(owed, d) \in Int
  <2>1. CASE Len(owed) = 1
    BY <1>2, <1>3, <2>1 DEF Owing, c
  <2>2. CASE Len(owed) = 2
    <3>1. owed[2].qty \in Int /\ owed'[1].qty = owed[2].qty /\ owed'[1].currency = owed[2].currency
      BY <1>2, <2>2 DEF Bal!Entry
    <3>2. /\ owed[1].currency = c /\ owed[1].qty = m.qty /\ owed[2].currency # c
          /\ Len(owed) = 2 /\ Len(owed') = 1
      BY <1>2, <2>2 DEF c
    <3>3. \A d \in Bal!Currencies : /\ Owing(owed, d) = (IF d = c THEN m.qty ELSE 0)
                                               + (IF d = owed[2].currency THEN owed[2].qty ELSE 0)
                                /\ Owing(owed', d) = (IF d = owed[2].currency THEN owed[2].qty ELSE 0) + 0
      BY <3>1, <3>2 DEF Owing
    <3>4. QED
      BY <1>3, <3>1, <3>2, <3>3
  <2>3. QED
    BY <1>2, <2>1, <2>2
<1>10. ASSUME ~suspect', NEW d \in Bal!Currencies
       PROVE  /\ ~suspect /\ ~apiLoad.on /\ redis[d] + Owing(owed, d) \in Int
              /\ redis'[d] + Owing(owed', d) = redis[d] + Owing(owed, d)
  <2>1. ~suspect /\ ~apiLoad.on /\ \A i \in DOMAIN wsInbox : wsInbox[i].currency # c
    BY <1>1, <1>10
  <2>2. wsMemory[c] = redis[c]
    BY <1>3, <2>1 DEF BalancesInv, InTheEnd
  <2>3. CASE d = c
    <3>1. redis[c] \in Int /\ q = redis[c] + m.qty
      BY <1>3, <1>4, <2>2 DEF q, Balances
    <3>2. redis'[d] = q /\ Owing(owed', d) = 0 /\ Owing(owed, d) = m.qty
      BY <1>6, <1>9, <2>3
    <3>3. QED
      BY <1>3, <2>1, <2>3, <3>1, <3>2
  <2>4. CASE d # c
    BY <1>4, <1>6, <1>9, <2>1, <2>4 DEF Balances
  <2>5. QED
    BY <2>3, <2>4
<1>11. Bal!TypeOK'
  <2>1. suspect' \in BOOLEAN /\ quiet' \in BOOLEAN
    BY <1>1 DEF BalancesInv, Bal!TypeOK
  <2>2. QED
    BY <1>1, <1>2, <1>6, <1>7, <1>8, <2>1 DEF BalancesInv, Bal!TypeOK, Balances
<1>12. Bounded'
  BY <1>1, <1>2 DEF BalancesInv, Bounded
<1>13. Chained'
  <2>1. UNCHANGED <<reports, wsPosition, contracts, wallet>>
    BY <1>1
  <2>2. ASSUME ~suspect'
        PROVE  /\ ~suspect
               /\ \A d \in Bal!Currencies : redis'[d] + Owing(owed', d) = redis[d] + Owing(owed, d)
    BY <1>1, <1>10, <2>2
  <2>3. QED
    BY <2>1, <2>2 DEF BalancesInv, Chained
<1>14. LoadClean'
  BY <1>1, <1>10 DEF BalancesInv, LoadClean, IsFetched
<1>15. QED
  BY <1>7, <1>8, <1>11, <1>12, <1>13, <1>14 DEF BalancesInv

LEMMA HearingKeeps ==
  ASSUME Bal!BalanceLedgerAssumption, BalancesInv, Bal!WsHears \/ Bal!ApiHears
  PROVE  BalancesInv'
<1>1. /\ wsMemory \in Balances /\ apiMemory \in Balances /\ redis \in Balances
      /\ wsInbox \in Seq(Bal!Entry) /\ apiInbox \in Seq(Bal!Entry)
      /\ InTheEnd(wsMemory, wsInbox, redis) /\ InTheEnd(apiMemory, apiInbox, redis)
  BY DEF BalancesInv, Bal!TypeOK, Balances
<1>2. /\ UNCHANGED <<wallet, contracts, reports, wsPosition, owed, apiLoad, redis, tally, quiet>>
      /\ suspect' \in BOOLEAN /\ (suspect => suspect')
  BY DEF Bal!WsHears, Bal!ApiHears, Bal!exch, Bal!apiside, Bal!wsside, BalancesInv, Bal!TypeOK
<1>3. /\ wsMemory' \in Balances /\ apiMemory' \in Balances
      /\ wsInbox' \in Seq(Bal!Entry) /\ apiInbox' \in Seq(Bal!Entry)
      /\ InTheEnd(wsMemory', wsInbox', redis) /\ InTheEnd(apiMemory', apiInbox', redis)
  <2>1. CASE Bal!WsHears
    <3>1. /\ wsInbox # <<>> /\ wsInbox' = Tail(wsInbox)
          /\ wsMemory' = [wsMemory EXCEPT ![Head(wsInbox).currency] = Head(wsInbox).qty]
          /\ UNCHANGED <<apiMemory, apiInbox>>
      BY <2>1 DEF Bal!WsHears, Bal!apiside
    <3>2. QED
      BY <1>1, <3>1, EventIsHeard
  <2>2. CASE Bal!ApiHears
    <3>1. /\ apiInbox # <<>> /\ apiInbox' = Tail(apiInbox)
          /\ apiMemory' = [apiMemory EXCEPT ![Head(apiInbox).currency] = Head(apiInbox).qty]
          /\ UNCHANGED <<wsMemory, wsInbox>>
      BY <2>2 DEF Bal!ApiHears, Bal!wsside
    <3>2. QED
      BY <1>1, <3>1, EventIsHeard
  <2>3. QED
    BY <2>1, <2>2
<1>4. Bal!TypeOK'
  BY <1>2, <1>3 DEF BalancesInv, Bal!TypeOK, Balances
<1>5. Chained'
  BY <1>2 DEF BalancesInv, Chained, Owing
<1>6. Bounded' /\ LoadClean'
  BY <1>2 DEF BalancesInv, Bounded, LoadClean, IsFetched
<1>7. InTheEnd(wsMemory, wsInbox, redis)' /\ InTheEnd(apiMemory, apiInbox, redis)'
  BY <1>2, <1>3 DEF InTheEnd
<1>8. QED
  BY <1>4, <1>5, <1>6, <1>7 DEF BalancesInv

\* With no fill on its way and nothing suspect, redis has the wallet.
LEMMA RedisHasWallet ==
  ASSUME BalancesInv, reports = <<>>, owed = <<>>, ~suspect
  PROVE  redis = wallet
<1>1. redis \in [Bal!Currencies -> Int] /\ wallet \in [Bal!Currencies -> Int]
  BY DEF BalancesInv, Bal!TypeOK
<1>2. Len(<<>>) = 0
  BY EmptySeq
<1>3. ASSUME NEW c \in Bal!Currencies
      PROVE  redis[c] = wallet[c]
  <2>1. redis[c] + Owing(owed, c) = wallet[c]
    BY <1>2 DEF BalancesInv, Chained, Chain
  <2>2. Owing(owed, c) = 0 /\ redis[c] \in Int
    BY <1>1, <1>2 DEF Owing
  <2>3. QED
    BY <2>1, <2>2
<1>4. QED
  BY <1>1, <1>3

LEMMA FetchedIsWallet ==
  ASSUME BalancesInv
  PROVE  /\ Bal!Fetched \in Seq(Bal!Entry)
         /\ \A k \in DOMAIN Bal!Fetched : Bal!Fetched[k].qty = wallet[Bal!Fetched[k].currency]
         /\ \A c \in Bal!Currencies :
              (\A k \in DOMAIN Bal!Fetched : Bal!Fetched[k].currency # c) => wallet[c] = 0
<1> DEFINE b == Bal!Listed("base")
           a == Bal!Listed("quote")
<1>1. /\ wallet["base"] \in Nat /\ wallet["quote"] \in Nat /\ Bal!Margin \in Nat
  <2>1. contracts.qty \in Int /\ contracts.price \in Nat
    BY DEF BalancesInv, Bal!TypeOK, Bal!Position
  <2>2. Bal!Abs(contracts.qty) \in Nat
    BY <2>1 DEF Bal!Abs
  <2>3. Bal!Margin \in Nat
    BY <2>1, <2>2, TimesNat DEF Bal!Margin
  <2>4. QED
    BY <2>3 DEF BalancesInv, Bal!TypeOK, Bounded, Bal!Currencies
<1>2. ASSUME NEW c \in Bal!Currencies
      PROVE  /\ Bal!Listed(c) \in Seq(Bal!Entry)
             /\ \/ Bal!Listed(c) = <<>> /\ Len(Bal!Listed(c)) = 0 /\ wallet[c] = 0
                \/ /\ Len(Bal!Listed(c)) = 1 /\ Bal!Listed(c)[1].currency = c
                   /\ Bal!Listed(c)[1].qty = wallet[c]
  <2> DEFINE e == [currency |-> c, qty |-> wallet[c]]
  <2>1. e \in Bal!Entry /\ e.currency = c /\ e.qty = wallet[c] /\ wallet[c] \in Nat
    BY <1>1 DEF Bal!Entry, Bal!Currencies
  <2>2. CASE Bal!Total(c) = 0
    <3>1. wallet[c] = 0
      BY <1>1, <2>1, <2>2 DEF Bal!Total
    <3>2. Bal!Listed(c) = <<>>
      BY <2>2 DEF Bal!Listed
    <3>3. QED
      BY <3>1, <3>2, EmptySeq
  <2>3. CASE Bal!Total(c) # 0
    <3>1. Bal!Listed(c) = <<e>>
      BY <2>3 DEF Bal!Listed
    <3> HIDE DEF e
    <3>2. <<e>> \in Seq(Bal!Entry) /\ Len(<<e>>) = 1 /\ <<e>>[1] = e
      BY <2>1
    <3>3. QED
      BY <2>1, <3>1, <3>2
  <2>4. QED
    BY <2>2, <2>3
<1>3. /\ a \in Seq(Bal!Entry) /\ b \in Seq(Bal!Entry)
      /\ \/ Len(b) = 0 /\ wallet["base"] = 0
         \/ Len(b) = 1 /\ b[1].currency = "base" /\ b[1].qty = wallet["base"]
      /\ \/ Len(a) = 0 /\ wallet["quote"] = 0
         \/ Len(a) = 1 /\ a[1].currency = "quote" /\ a[1].qty = wallet["quote"]
  <2>1. "base" \in Bal!Currencies /\ "quote" \in Bal!Currencies
    BY DEF Bal!Currencies
  <2>2. QED
    BY <1>2, <2>1
<1> HIDE DEF a, b
<1>4. /\ Bal!Fetched \in Seq(Bal!Entry) /\ DOMAIN Bal!Fetched = 1..(Len(b) + Len(a))
      /\ \A i \in 1..(Len(b) + Len(a)) : Bal!Fetched[i] = IF i <= Len(b) THEN b[i] ELSE a[i - Len(b)]
  <2>1. Bal!Fetched = b \o a
    BY DEF Bal!Fetched, a, b
  <2>2. QED
    BY <1>3, <2>1, ConcatProperties, LenProperties
<1>5. QED
  BY <1>3, <1>4 DEF Bal!Currencies

\* A load in which nothing came in between fetches what redis has.
LEMMA FetchKeeps ==
  ASSUME Bal!BalanceLedgerAssumption, BalancesInv, Bal!Fetch
  PROVE  BalancesInv'
<1>1. /\ ~apiLoad.on /\ tally.loads < MaxLoads /\ tally' = [tally EXCEPT !.loads = @ + 1]
      /\ apiLoad' = [fetched |-> Bal!Fetched, todo |-> Bal!Fetched, on |-> TRUE]
      /\ quiet' = (reports = <<>> /\ owed = <<>>)
      /\ suspect' = (suspect \/ ~quiet')
      /\ UNCHANGED <<wallet, contracts, reports, wsMemory, wsInbox, wsPosition, owed, apiMemory,
                     apiInbox, redis>>
  BY DEF Bal!Fetch, Bal!exch, Bal!wsside
<1>2. /\ apiLoad'.fetched = Bal!Fetched /\ apiLoad'.todo = Bal!Fetched /\ apiLoad'.on
      /\ apiLoad' \in [fetched : Seq(Bal!Entry), todo : Seq(Bal!Entry), on : BOOLEAN]
  BY <1>1, FetchedIsWallet
<1>3. Bal!TypeOK'
  <2>1. tally' \in [fills : 0..MaxFills, transfers : 0..MaxTransfers, loads : 0..MaxLoads]
    BY <1>1, OneMore DEF BalancesInv, Bal!TypeOK, TallyTyped
  <2>2. quiet' \in BOOLEAN /\ suspect' \in BOOLEAN
    BY <1>1 DEF BalancesInv, Bal!TypeOK
  <2>3. QED
    BY <1>1, <1>2, <2>1, <2>2 DEF BalancesInv, Bal!TypeOK
<1>4. Chained'
  BY <1>1 DEF BalancesInv, Chained, Owing
<1>5. LoadClean'
  <2>1. \A c \in Bal!Currencies : IsFetched(apiLoad'.fetched, c) <=> \E k \in DOMAIN Bal!Fetched : Bal!Fetched[k].currency = c
    BY <1>2 DEF IsFetched
  <2>2. \A k \in DOMAIN Bal!Fetched : Bal!Fetched[k].currency \in Bal!Currencies
    <3>1. \A k \in DOMAIN Bal!Fetched : Bal!Fetched[k] \in Bal!Entry
      BY FetchedIsWallet, LenProperties, ElementOfSeq
    <3>2. QED
      BY <3>1 DEF Bal!Entry
  <2>3. \A c \in Bal!Currencies : ~IsFetched(apiLoad'.fetched, c) => wallet[c] = 0
    BY <2>1, FetchedIsWallet
  <2>4. \A k \in DOMAIN Bal!Fetched : /\ Bal!Fetched[k].qty = wallet[Bal!Fetched[k].currency]
                                  /\ IsFetched(apiLoad'.fetched, Bal!Fetched[k].currency)
    <3>1. \A k \in DOMAIN Bal!Fetched : IsFetched(apiLoad'.fetched, Bal!Fetched[k].currency)
      BY <2>1, <2>2
    <3>2. QED
      BY <3>1, FetchedIsWallet
  <2>5. ASSUME ~suspect'
        PROVE  redis' = wallet
    BY <1>1, <2>5, RedisHasWallet
  <2>6. \A c \in Bal!Currencies : IsFetched(apiLoad'.fetched, c) =>
           ~(\A k \in DOMAIN Bal!Fetched : Bal!Fetched[k].currency # c)
    BY <2>1
  <2>7. \A k \in DOMAIN apiLoad'.todo : IsFetched(apiLoad'.fetched, apiLoad'.todo[k].currency)
    BY <1>2, <2>4
  <2>8. ASSUME ~suspect'
        PROVE  /\ \A k \in DOMAIN apiLoad'.todo :
                    apiLoad'.todo[k].qty = redis'[apiLoad'.todo[k].currency]
               /\ \A d \in Bal!Currencies : ~IsFetched(apiLoad'.fetched, d) => redis'[d] = 0
    BY <1>2, <2>3, <2>4, <2>5, <2>8
  <2>9. ASSUME quiet'
        PROVE  /\ reports' = <<>> /\ owed' = <<>>
               /\ \A k \in DOMAIN apiLoad'.todo :
                    apiLoad'.todo[k].qty = wallet'[apiLoad'.todo[k].currency]
               /\ \A d \in Bal!Currencies :
                    IF IsFetched(apiLoad'.fetched, d)
                    THEN (\A k \in DOMAIN apiLoad'.todo : apiLoad'.todo[k].currency # d)
                           => redis'[d] = wallet'[d]
                    ELSE wallet'[d] = 0
    <3>1. reports' = <<>> /\ owed' = <<>> /\ wallet' = wallet
      BY <1>1, <2>9
    <3>2. QED
      BY <1>2, <2>3, <2>4, <2>6, <3>1
  <2>10. QED
    BY <1>2, <2>7, <2>8, <2>9 DEF LoadClean
<1>6. Bounded' /\ InTheEnd(wsMemory, wsInbox, redis)' /\ InTheEnd(apiMemory, apiInbox, redis)'
  BY <1>1 DEF BalancesInv, Bounded, InTheEnd
<1>7. QED
  BY <1>3, <1>4, <1>5, <1>6 DEF BalancesInv

\* What it sets is in redis if nothing crossed it, and at the exchange if no fill did.
LEMMA SetFetchedKeeps ==
  ASSUME Bal!BalanceLedgerAssumption, BalancesInv, Bal!SetFetched
  PROVE  BalancesInv'
<1> DEFINE unset == apiLoad.todo
           e == Head(unset)
           c == e.currency
<1>1. /\ unset # <<>>
      /\ apiMemory' = [apiMemory EXCEPT ![c] = e.qty] /\ redis' = [redis EXCEPT ![c] = e.qty]
      /\ wsInbox' = Append(wsInbox, [currency |-> c, qty |-> e.qty])
      /\ apiInbox' = Append(apiInbox, [currency |-> c, qty |-> e.qty])
      /\ apiLoad' = [apiLoad EXCEPT !.todo = Tail(@)]
      /\ UNCHANGED <<wallet, contracts, reports, wsMemory, wsPosition, owed, tally, quiet, suspect>>
  BY DEF Bal!SetFetched, Bal!Published, Bal!Stored, Bal!exch
<1>2. /\ apiLoad \in [fetched : Seq(Bal!Entry), todo : Seq(Bal!Entry), on : BOOLEAN]
      /\ wsMemory \in Balances /\ apiMemory \in Balances /\ redis \in Balances
      /\ wsInbox \in Seq(Bal!Entry) /\ apiInbox \in Seq(Bal!Entry)
  BY DEF BalancesInv, Bal!TypeOK, Balances
<1>3. /\ unset \in Seq(Bal!Entry) /\ Len(unset) \in Nat \ {0} /\ DOMAIN unset = 1..Len(unset)
      /\ e = unset[1] /\ e \in Bal!Entry
      /\ Tail(unset) \in Seq(Bal!Entry) /\ DOMAIN Tail(unset) = 1..(Len(unset) - 1)
      /\ \A k \in 1..(Len(unset) - 1) : Tail(unset)[k] = unset[k + 1]
  BY <1>1, <1>2, HeadTailProperties, LenProperties, EmptySeq, ElementOfSeq
<1>4. c \in Bal!Currencies /\ e.qty \in Int /\ [currency |-> c, qty |-> e.qty] \in Bal!Entry
  BY <1>3 DEF Bal!Entry
<1>5. /\ apiLoad' \in [fetched : Seq(Bal!Entry), todo : Seq(Bal!Entry), on : BOOLEAN]
      /\ apiLoad'.todo = Tail(unset) /\ apiLoad'.on = apiLoad.on /\ apiLoad'.fetched = apiLoad.fetched
  BY <1>1, <1>2, <1>3
<1>6. \A d \in Bal!Currencies : IsFetched(apiLoad'.fetched, d) <=> IsFetched(apiLoad.fetched, d)
  BY <1>5 DEF IsFetched
<1>7. apiLoad.on
  <2>1. Bal!NoLoad.todo = <<>>
    BY DEF Bal!NoLoad
  <2>2. QED
    BY <1>1, <2>1 DEF BalancesInv, LoadClean
<1> HIDE DEF unset, e, c
<1>8. /\ redis' \in Balances /\ redis'[c] = e.qty /\ apiMemory' \in Balances /\ apiMemory'[c] = e.qty
      /\ \A d \in Bal!Currencies \ {c} : redis'[d] = redis[d] /\ apiMemory'[d] = apiMemory[d]
  BY <1>1, <1>2, <1>4 DEF Balances
<1>9. wsInbox' \in Seq(Bal!Entry) /\ InTheEnd(wsMemory, wsInbox, redis)'
  <2> DEFINE f == [currency |-> c, qty |-> e.qty]
  <2>1. f \in Bal!Entry /\ f.currency = c /\ f.qty = e.qty
    BY <1>4
  <2>2. wsInbox' = Append(wsInbox, f)
    BY <1>1
  <2> HIDE DEF f
  <2>3. wsInbox' \in Seq(Bal!Entry) /\ InTheEnd(wsMemory, wsInbox', redis')
    BY <1>2, <1>8, <2>1, <2>2, EventComes DEF BalancesInv
  <2>4. QED
    BY <1>1, <2>3 DEF InTheEnd
<1>10. apiInbox' \in Seq(Bal!Entry) /\ InTheEnd(apiMemory, apiInbox, redis)'
  <2> DEFINE f == [currency |-> c, qty |-> e.qty]
  <2>1. f \in Bal!Entry /\ f.currency = c /\ f.qty = e.qty
    BY <1>4
  <2>2. apiInbox' = Append(apiInbox, f)
    BY <1>1
  <2> HIDE DEF f
  <2>3. InTheEnd(apiMemory, apiInbox, redis)
    BY DEF BalancesInv
  <2>4. \A d \in Bal!Currencies \ {f.currency} : apiMemory'[d] = apiMemory[d] /\ redis'[d] = redis[d]
    BY <1>8, <2>1
  <2>5. Append(apiInbox, f) \in Seq(Bal!Entry) /\ InTheEnd(apiMemory', Append(apiInbox, f), redis')
    BY <1>2, <1>8, <2>1, <2>3, <2>4, EventComes
  <2>6. QED
    BY <2>2, <2>5 DEF InTheEnd
<1>11. /\ e.qty = unset[1].qty /\ c = unset[1].currency /\ 1 \in DOMAIN unset
       /\ \A k \in DOMAIN Tail(unset) : k + 1 \in DOMAIN unset /\ Tail(unset)[k] = unset[k + 1]
  BY <1>3 DEF c
<1>12. ASSUME ~suspect
       PROVE  redis' = redis
  <2>1. e.qty = redis[c]
    BY <1>7, <1>11, <1>12 DEF BalancesInv, LoadClean, unset
  <2>2. QED
    BY <1>1, <1>2, <1>4, <2>1 DEF Balances
<1>13. Bal!TypeOK'
  BY <1>1, <1>5, <1>8, <1>9, <1>10 DEF BalancesInv, Bal!TypeOK, Balances
<1>14. Chained'
  BY <1>1, <1>12 DEF BalancesInv, Chained, Owing
<1>15. Bounded'
  BY <1>1 DEF BalancesInv, Bounded
<1>16. LoadClean'
  <2>1. \A k \in DOMAIN Tail(unset) : Tail(unset)[k].currency \in Bal!Currencies
    <3>1. \A k \in DOMAIN Tail(unset) : Tail(unset)[k] \in Bal!Entry
      BY <1>3, ElementOfSeq, LenProperties
    <3>2. QED
      BY <3>1 DEF Bal!Entry
  <2>2. \A k \in DOMAIN apiLoad'.todo : IsFetched(apiLoad'.fetched, apiLoad'.todo[k].currency)
    <3>1. \A k \in DOMAIN unset : IsFetched(apiLoad.fetched, unset[k].currency)
      BY DEF BalancesInv, LoadClean, unset
    <3>2. \A k \in DOMAIN Tail(unset) : IsFetched(apiLoad.fetched, Tail(unset)[k].currency)
      BY <1>11, <3>1
    <3>3. \A k \in DOMAIN Tail(unset) : IsFetched(apiLoad'.fetched, Tail(unset)[k].currency)
      BY <1>6, <2>1, <3>2
    <3>4. QED
      BY <1>5, <3>3
  <2>3. ASSUME ~suspect'
        PROVE  /\ \A k \in DOMAIN apiLoad'.todo :
                    apiLoad'.todo[k].qty = redis'[apiLoad'.todo[k].currency]
               /\ \A d \in Bal!Currencies : ~IsFetched(apiLoad'.fetched, d) => redis'[d] = 0
    <3>1. ~suspect /\ redis' = redis
      BY <1>1, <1>12, <2>3
    <3>2. QED
      BY <1>5, <1>6, <1>7, <1>11, <3>1 DEF BalancesInv, LoadClean, unset
  <2>4. ASSUME quiet'
        PROVE  /\ reports' = <<>> /\ owed' = <<>>
               /\ \A k \in DOMAIN apiLoad'.todo :
                    apiLoad'.todo[k].qty = wallet'[apiLoad'.todo[k].currency]
               /\ \A d \in Bal!Currencies :
                    IF IsFetched(apiLoad'.fetched, d)
                    THEN (\A k \in DOMAIN apiLoad'.todo : apiLoad'.todo[k].currency # d)
                           => redis'[d] = wallet'[d]
                    ELSE wallet'[d] = 0
    <3>1. /\ quiet /\ reports = <<>> /\ owed = <<>>
          /\ \A k \in DOMAIN unset : unset[k].qty = wallet[unset[k].currency]
          /\ \A d \in Bal!Currencies :
               IF IsFetched(apiLoad.fetched, d)
               THEN (\A k \in DOMAIN unset : unset[k].currency # d) => redis[d] = wallet[d]
               ELSE wallet[d] = 0
      BY <1>1, <1>7, <2>4 DEF BalancesInv, LoadClean, unset
    <3>2. ASSUME NEW d \in Bal!Currencies, IsFetched(apiLoad.fetched, d),
                 \A k \in DOMAIN Tail(unset) : Tail(unset)[k].currency # d
          PROVE  redis'[d] = wallet[d]
      <4>1. CASE d = c
        BY <1>8, <1>11, <3>1, <4>1
      <4>2. CASE d # c
        <5>1. ASSUME NEW k \in DOMAIN unset
              PROVE  unset[k].currency # d
          <6>1. CASE k = 1
            BY <1>11, <4>2, <6>1
          <6>2. CASE k # 1
            <7>1. k - 1 \in DOMAIN Tail(unset) /\ Tail(unset)[k - 1] = unset[k]
              BY <1>3, <6>2
            <7>2. QED
              BY <3>2, <7>1
          <6>3. QED
            BY <6>1, <6>2
        <5>2. QED
          BY <1>8, <3>1, <3>2, <4>2, <5>1
      <4>3. QED
        BY <4>1, <4>2
    <3>3. reports' = <<>> /\ owed' = <<>> /\ wallet' = wallet
      BY <1>1, <3>1
    <3>4. \A k \in DOMAIN Tail(unset) : Tail(unset)[k].qty = wallet[Tail(unset)[k].currency]
      BY <1>11, <3>1
    <3>5. \A d \in Bal!Currencies :
            IF IsFetched(apiLoad'.fetched, d)
            THEN (\A k \in DOMAIN Tail(unset) : Tail(unset)[k].currency # d) => redis'[d] = wallet[d]
            ELSE wallet[d] = 0
      BY <1>6, <3>1, <3>2
    <3>6. QED
      BY <1>5, <3>3, <3>4, <3>5
  <2>5. QED
    BY <1>5, <1>7, <2>2, <2>3, <2>4 DEF LoadClean
<1>17. QED
  BY <1>9, <1>10, <1>13, <1>14, <1>15, <1>16 DEF BalancesInv

\* A balance deleted, in redis and in a memory or not, and said to be
LEMMA DeletionComes ==
  ASSUME NEW own \in Balances, NEW later \in Balances, NEW table \in Balances,
         NEW queued \in Seq(Bal!Entry), InTheEnd(own, queued, table),
         NEW c \in Bal!Currencies, NEW gone \in BOOLEAN,
         \A d \in Bal!Currencies \ {c} : later[d] = own[d], ~gone => later = own
  PROVE  LET says == IF gone THEN <<[currency |-> c, qty |-> 0]>> ELSE <<>>
             left == IF gone THEN [table EXCEPT ![c] = 0] ELSE table
         IN  /\ queued \o says \in Seq(Bal!Entry) /\ says \in Seq(Bal!Entry) /\ left \in Balances
             /\ InTheEnd(later, queued \o says, left)
<1> DEFINE e == [currency |-> c, qty |-> 0]
           left == [table EXCEPT ![c] = 0]
<1>1. e \in Bal!Entry /\ e.currency = c /\ e.qty = 0 /\ <<e>> \in Seq(Bal!Entry)
  BY DEF Bal!Entry
<1>2. /\ left \in Balances /\ left[c] = 0
      /\ \A d \in Bal!Currencies \ {c} : left[d] = table[d]
  BY DEF Balances
<1>3. CASE gone
  <2> HIDE DEF e, left
  <2>1. Append(queued, e) \in Seq(Bal!Entry) /\ InTheEnd(later, Append(queued, e), left)
    BY <1>1, <1>2, EventComes
  <2>2. Append(queued, e) = queued \o <<e>>
    BY <1>1, AppendIsConcat
  <2>3. queued \o <<e>> \in Seq(Bal!Entry) /\ InTheEnd(later, queued \o <<e>>, left)
    BY <2>1, <2>2
  <2>4. QED
    BY <1>1, <1>2, <1>3, <2>3 DEF e, left
<1>4. CASE ~gone
  <2>1. queued \o <<>> = queued /\ <<>> \in Seq(Bal!Entry)
    BY ConcatEmptySeq, EmptySeq
  <2>2. QED
    BY <1>4, <2>1
<1>5. QED
  BY <1>3, <1>4

\* The two deletions one after the other
LEMMA BothGone ==
  ASSUME NEW h \in Balances, NEW G \in SUBSET Bal!Currencies
  PROVE  LET s == IF "base" \in G THEN [h EXCEPT !["base"] = 0] ELSE h
             t == IF "quote" \in G THEN [s EXCEPT !["quote"] = 0] ELSE s
         IN  s \in Balances /\ t \in Balances /\ [d \in Bal!Currencies |-> IF d \in G THEN 0 ELSE h[d]] = t
<1> DEFINE s == IF "base" \in G THEN [h EXCEPT !["base"] = 0] ELSE h
           t == IF "quote" \in G THEN [s EXCEPT !["quote"] = 0] ELSE s
<1>1. /\ s \in [Bal!Currencies -> Int] /\ s["quote"] = h["quote"]
      /\ s["base"] = IF "base" \in G THEN 0 ELSE h["base"]
  BY DEF Balances, Bal!Currencies
<1> HIDE DEF s
<1>2. /\ t \in [Bal!Currencies -> Int] /\ t["base"] = s["base"]
      /\ t["quote"] = IF "quote" \in G THEN 0 ELSE s["quote"]
  BY <1>1 DEF Bal!Currencies
<1> HIDE DEF t
<1>3. \A d \in Bal!Currencies : t[d] = IF d \in G THEN 0 ELSE h[d]
  BY <1>1, <1>2 DEF Bal!Currencies
<1>4. t = [d \in Bal!Currencies |-> IF d \in G THEN 0 ELSE h[d]]
  BY <1>2, <1>3
<1>5. QED
  BY <1>1, <1>2, <1>4 DEF s, t, Balances

\* With the other balances deleted, redis has what a load that nothing crossed has fetched.
LEMMA DeleteOthersKeeps ==
  ASSUME Bal!BalanceLedgerAssumption, BalancesInv, Bal!DeleteOthers
  PROVE  BalancesInv'
<1> DEFINE D == Bal!ToDelete
<1>1. /\ apiLoad.on /\ apiLoad.todo = <<>> /\ apiLoad' = Bal!NoLoad
      /\ apiMemory' = [d \in Bal!Currencies |-> IF d \in D THEN 0 ELSE apiMemory[d]]
      /\ redis' = [d \in Bal!Currencies |-> IF d \in D THEN 0 ELSE redis[d]]
      /\ wsInbox' = wsInbox \o Bal!Deletion("base") \o Bal!Deletion("quote")
      /\ apiInbox' = apiInbox \o Bal!Deletion("base") \o Bal!Deletion("quote")
      /\ suspect' = IF quiet /\ apiInbox = <<>> THEN FALSE ELSE suspect
      /\ UNCHANGED <<wallet, contracts, reports, wsMemory, wsPosition, owed, tally, quiet>>
  BY DEF Bal!DeleteOthers, Bal!exch
<1>2. /\ wsMemory \in Balances /\ apiMemory \in Balances /\ redis \in Balances
      /\ wallet \in [Bal!Currencies -> Int] /\ wsInbox \in Seq(Bal!Entry) /\ apiInbox \in Seq(Bal!Entry)
      /\ InTheEnd(wsMemory, wsInbox, redis) /\ InTheEnd(apiMemory, apiInbox, redis)
  BY DEF BalancesInv, Bal!TypeOK, Balances
<1>3. /\ \A d \in Bal!Currencies : d \in D <=> apiMemory[d] # 0 /\ ~IsFetched(apiLoad.fetched, d)
      /\ D \subseteq Bal!Currencies
  BY DEF Bal!ToDelete, IsFetched
<1>4. Bal!Deletion("base") = (IF "base" \in D THEN <<[currency |-> "base", qty |-> 0]>> ELSE <<>>)
      /\ Bal!Deletion("quote") = (IF "quote" \in D THEN <<[currency |-> "quote", qty |-> 0]>> ELSE <<>>)
  BY DEF Bal!Deletion
<1> HIDE DEF D
<1> DEFINE baseGone == "base" \in D
           quoteGone == "quote" \in D
           left == IF baseGone THEN [redis EXCEPT !["base"] = 0] ELSE redis
           own == IF baseGone THEN [apiMemory EXCEPT !["base"] = 0] ELSE apiMemory
<1>5. /\ baseGone \in BOOLEAN /\ quoteGone \in BOOLEAN
      /\ "base" \in Bal!Currencies /\ "quote" \in Bal!Currencies
  BY DEF Bal!Currencies
<1>6. /\ redis' = IF quoteGone THEN [left EXCEPT !["quote"] = 0] ELSE left
      /\ apiMemory' = IF quoteGone THEN [own EXCEPT !["quote"] = 0] ELSE own
      /\ own \in Balances /\ apiMemory' \in Balances
  <2>1. D \subseteq Bal!Currencies
    BY <1>3
  <2>2. /\ own \in Balances
        /\ (IF quoteGone THEN [own EXCEPT !["quote"] = 0] ELSE own) \in Balances
        /\ [d \in Bal!Currencies |-> IF d \in D THEN 0 ELSE apiMemory[d]]
             = IF quoteGone THEN [own EXCEPT !["quote"] = 0] ELSE own
    BY <1>2, <2>1, BothGone
  <2>3. [d \in Bal!Currencies |-> IF d \in D THEN 0 ELSE redis[d]]
          = IF quoteGone THEN [left EXCEPT !["quote"] = 0] ELSE left
    BY <1>2, <2>1, BothGone
  <2> HIDE DEF left, own, quoteGone
  <2>4. QED
    BY <1>1, <2>2, <2>3
<1>7. wsInbox' \in Seq(Bal!Entry) /\ redis' \in Balances /\ InTheEnd(wsMemory, wsInbox, redis)'
  <2>1. /\ wsInbox \o Bal!Deletion("base") \in Seq(Bal!Entry) /\ left \in Balances
        /\ InTheEnd(wsMemory, wsInbox \o Bal!Deletion("base"), left)
    BY <1>2, <1>4, <1>5, DeletionComes
  <2> DEFINE queued == wsInbox \o Bal!Deletion("base")
  <2> HIDE DEF queued, left, baseGone, quoteGone
  <2>2. /\ queued \o Bal!Deletion("quote") \in Seq(Bal!Entry) /\ redis' \in Balances
        /\ InTheEnd(wsMemory, queued \o Bal!Deletion("quote"), redis')
    <3>1. Bal!Deletion("quote") = IF quoteGone THEN <<[currency |-> "quote", qty |-> 0]>> ELSE <<>>
      BY <1>4 DEF quoteGone
    <3>2. queued \in Seq(Bal!Entry) /\ left \in Balances /\ InTheEnd(wsMemory, queued, left)
      BY <2>1 DEF queued
    <3>3. QED
      BY <1>2, <1>5, <1>6, <3>1, <3>2, DeletionComes
  <2>3. QED
    BY <1>1, <2>2 DEF InTheEnd, queued
<1>8. apiInbox' \in Seq(Bal!Entry) /\ InTheEnd(apiMemory, apiInbox, redis)'
  <2>1. /\ apiInbox \o Bal!Deletion("base") \in Seq(Bal!Entry) /\ left \in Balances
        /\ InTheEnd(own, apiInbox \o Bal!Deletion("base"), left)
    <3>1. \A d \in Bal!Currencies \ {"base"} : own[d] = apiMemory[d]
      BY <1>2 DEF Balances
    <3>2. QED
      BY <1>2, <1>4, <1>5, <1>6, <3>1, DeletionComes, ZenonT(40)
  <2>2. \A d \in Bal!Currencies \ {"quote"} : apiMemory'[d] = own[d]
    BY <1>6 DEF Balances
  <2> DEFINE queued == apiInbox \o Bal!Deletion("base")
  <2>3. ~quoteGone => apiMemory' = own
    BY <1>6
  <2> HIDE DEF queued, left, own, baseGone, quoteGone
  <2>4. /\ queued \o Bal!Deletion("quote") \in Seq(Bal!Entry)
        /\ InTheEnd(apiMemory', queued \o Bal!Deletion("quote"), redis')
    <3>1. Bal!Deletion("quote") = IF quoteGone THEN <<[currency |-> "quote", qty |-> 0]>> ELSE <<>>
      BY <1>4 DEF quoteGone
    <3>2. queued \in Seq(Bal!Entry) /\ left \in Balances /\ InTheEnd(own, queued, left)
      BY <2>1 DEF queued
    <3>3. QED
      BY <1>5, <1>6, <2>2, <2>3, <3>1, <3>2, DeletionComes, ZenonT(40)
  <2>5. QED
    BY <1>1, <2>4 DEF InTheEnd, queued
<1> HIDE DEF baseGone, quoteGone, left, own
<1>9. Bal!TypeOK'
  <2>1. Bal!NoLoad \in [fetched : Seq(Bal!Entry), todo : Seq(Bal!Entry), on : BOOLEAN]
    BY EmptySeq DEF Bal!NoLoad
  <2>2. suspect' \in BOOLEAN
    BY <1>1 DEF BalancesInv, Bal!TypeOK
  <2>3. QED
    BY <1>1, <1>6, <1>7, <1>8, <2>1, <2>2 DEF BalancesInv, Bal!TypeOK, Balances
<1>10. ASSUME quiet /\ apiInbox = <<>>
       PROVE  Chained'
  <2>1. /\ reports = <<>> /\ owed = <<>>
        /\ \A d \in Bal!Currencies : IF IsFetched(apiLoad.fetched, d) THEN redis[d] = wallet[d] ELSE wallet[d] = 0
    <3>1. DOMAIN <<>> = {}
      OBVIOUS
    <3>2. QED
      BY <1>1, <1>10, <3>1 DEF BalancesInv, LoadClean
  <2>2. \A d \in Bal!Currencies : apiMemory[d] = redis[d]
    BY <1>2, <1>10 DEF InTheEnd
  <2>3. redis' = wallet
    <3>1. \A d \in Bal!Currencies : redis'[d] = wallet[d]
      BY <1>1, <1>3, <2>1, <2>2
    <3>2. QED
      BY <1>2, <1>7, <3>1 DEF Balances
  <2>4. Len(<<>>) = 0 /\ \A d \in Bal!Currencies : Owing(owed', d) = 0
    BY <1>1, <2>1, EmptySeq DEF Owing
  <2>5. ASSUME NEW d \in Bal!Currencies
        PROVE  \E f \in [0..Len(reports') -> Int] :
                 Chain(reports', f, d, redis'[d] + Owing(owed', d), wallet'[d])
    <3> DEFINE f == [k \in 0..0 |-> wallet[d]]
    <3>1. wallet[d] \in Int /\ wallet' = wallet /\ redis'[d] + Owing(owed', d) = wallet[d]
      <4>1. wallet' = wallet /\ redis'[d] = wallet[d] /\ wallet[d] \in Int
        BY <1>1, <1>2, <2>3 DEF BalancesInv, Bal!TypeOK
      <4>2. QED
        BY <2>4, <4>1
    <3>2. Len(reports') = 0
      BY <1>1, <2>1, <2>4
    <3>3. Chain(reports', f, d, redis'[d] + Owing(owed', d), wallet'[d]) /\ f \in [0..Len(reports') -> Int]
      BY <3>1, <3>2 DEF Chain
    <3>4. QED
      BY <3>3
  <2>6. UNCHANGED <<reports, wsPosition, contracts>>
    BY <1>1
  <2>7. QED
    BY <2>5, <2>6 DEF BalancesInv, Chained
<1>11. ASSUME ~(quiet /\ apiInbox = <<>>)
       PROVE  Chained'
  <2>1. suspect' = suspect
    BY <1>1, <1>11
  <2>2. ASSUME ~suspect
        PROVE  redis' = redis
    BY <1>1, <1>2, <1>3, <2>2 DEF BalancesInv, LoadClean, Balances
  <2>3. UNCHANGED <<wallet, contracts, reports, wsPosition, owed>>
    BY <1>1
  <2>4. \A d \in Bal!Currencies : Owing(owed', d) = Owing(owed, d)
    BY <2>3 DEF Owing
  <2>5. QED
    BY <2>1, <2>2, <2>3, <2>4 DEF BalancesInv, Chained
<1>12. Chained'
  BY <1>10, <1>11
<1>13. Bounded'
  BY <1>1 DEF BalancesInv, Bounded
<1>14. LoadClean'
  BY <1>1 DEF LoadClean, Bal!NoLoad
<1>15. QED
  BY <1>7, <1>8, <1>9, <1>12, <1>13, <1>14 DEF BalancesInv

LEMMA BalancesStep ==
  ASSUME Bal!BalanceLedgerAssumption, BalancesInv, [Bal!Next]_(Bal!vars)
  PROVE  BalancesInv'
<1>1. CASE UNCHANGED Bal!vars
  <2>1. UNCHANGED <<wallet, contracts, reports, wsMemory, wsInbox, wsPosition, owed, apiMemory, apiInbox,
                    apiLoad, redis, tally, quiet, suspect>>
    BY <1>1 DEF Bal!vars, Bal!exch, Bal!wsside, Bal!apiside
  <2>2. Bal!TypeOK' /\ Bounded'
    BY <2>1 DEF BalancesInv, Bal!TypeOK, Bounded
  <2>3. \A c \in Bal!Currencies : Owing(owed', c) = Owing(owed, c)
    BY <2>1 DEF Owing
  <2>4. Chained'
    BY <2>1, <2>3 DEF BalancesInv, Chained
  <2>5. LoadClean'
    BY <2>1 DEF BalancesInv, LoadClean, IsFetched
  <2>6. InTheEnd(wsMemory, wsInbox, redis)' /\ InTheEnd(apiMemory, apiInbox, redis)'
    BY <2>1 DEF BalancesInv, InTheEnd
  <2>7. QED
    BY <2>2, <2>4, <2>5, <2>6 DEF BalancesInv
<1>2. CASE \E q \in SpotQty, t \in Prices : Bal!Execute(TRUE, q, t)
  BY <1>2, ExecuteKeeps DEF Bal!BalanceLedgerAssumption
<1>3. CASE \E q \in PerpQty, t \in Prices : Bal!Execute(FALSE, q, t)
  BY <1>3, ExecuteKeeps DEF Bal!BalanceLedgerAssumption
<1>4. CASE \E c \in Bal!Currencies, q \in {-1, 1} : Bal!Transfer(c, q)
  BY <1>4, TransferKeeps
<1>5. QED
  BY <1>1, <1>2, <1>3, <1>4, OnFillKeeps, MoveBalanceKeeps, HearingKeeps, FetchKeeps,
     SetFetchedKeeps, DeleteOthersKeeps DEF Bal!Next

LEMMA BalancesSafe ==
  ASSUME BalancesInv
  PROVE  Bal!BalancesExact
  BY RedisHasWallet DEF Bal!BalancesExact

\* The component is one of its own in the composition, and rests while another runs.
LEMMA ServicesKeepBalances ==
  ASSUME ServicesAssumption, BalancesInv, [ServicesNext]_services
  PROVE  BalancesInv'
<1>1. Bal!BalanceLedgerAssumption
  BY DEF ServicesAssumption
<1>2. Bal!Next \/ UNCHANGED bal
  BY DEF ServicesNext, services
<1>3. [Bal!Next]_(Bal!vars)
  BY <1>2 DEF bal, Bal!vars, Bal!exch, Bal!wsside, Bal!apiside
<1>4. QED
  BY <1>1, <1>3, BalancesStep

\* Once every fill heard of is moved and no load runs, the balances in redis are the free
\* balances of an exchange that keeps what a position cost as its margin, at any prices and
\* whichever way positions are opened, added to, reduced, closed or turned, except after a
\* short reduced or a long turned at another price than its own, or another known cause of
\* suspicion: however fills, events, loads and deletions of the two processes interleave, and
\* again after a load that nothing crossed (_update_balance_from_trade,
\* calc_balance_consumption, Position.__add__, set_balance, load_balances).
THEOREM BalancesAlwaysExact == ASSUME ServicesAssumption PROVE ServicesSpec => []BalancesExact
<1>1. ServicesInit => BalancesInv
  BY BalancesInit DEF ServicesInit, ServicesAssumption
<1>2. BalancesInv /\ [ServicesNext]_services => BalancesInv'
  BY ServicesKeepBalances
<1>3. BalancesInv => BalancesExact
  BY BalancesSafe DEF ServicesAssumption, BalancesExact
<1>4. QED
  BY <1>1, <1>2, <1>3, PTL DEF ServicesSpec

-----------------------------------------------------------------------------
(* The values of a sentinel and of its clients                                *)
\* s is the end of t.
Ends(s, t) ==
  /\ Len(s) <= Len(t)
  /\ \A k \in 1..Len(s) : s[k] = t[Len(t) - Len(s) + k]

\* What a client makes of a message, ...
Heard(old, m) ==
  IF m.kind = "snapshot" THEN Sent!OnSnapshot(old, m.values) ELSE Sent!OnUpdate(old, m.values)

\* ... and, one after the other, of all that are on their way.
Hearings(f, s, q, n) ==
  /\ f \in [0..Len(q) -> Seq(1..n)]
  /\ f[0] = s
  /\ \A k \in 1..Len(q) : f[k] = Heard(f[k - 1], q[k])

\* It will have the end of the server's values, with the candle that is not published yet.
UpToDate(s, late, t) == Ends(IF late THEN Sent!OnUpdate(s, <<Sent!Last(t)>>) ELSE s, t)

\* What a client is due when it has heard all.
Served(s, q, n, due, late, t) ==
  \E f \in [0..Len(q) -> Seq(1..n)] : Hearings(f, s, q, n) /\ (due => UpToDate(f[Len(q)], late, t))

Due(c, p, j, o) == p # "down" /\ c \in j /\ c \notin o

Clients ==
  \A c \in Watchers : Served(cache[c], inbox[c], clock, Due(c, phase, joined, overlapped), unsaid, values)

\* A server that does not listen has nothing to answer.
Idling == phase # "listening" => ~ticked /\ ~unsaid /\ requests = <<>> /\ answering = Sent!NoAnswer

Ticking == (ticked => ~unsaid /\ clock > 0) /\ (unsaid => values # <<>>)

\* A client asks once, when it has joined.
AskedOnce ==
  /\ \A j, k \in 1..Len(requests) : requests[j] = requests[k] => j = k
  /\ \A k \in 1..Len(requests) : requests[k] \in joined \ overlapped /\ requests[k] # answering.to
  /\ answering.to \in joined \cup {"nobody"}
  /\ overlapped \subseteq joined

\* An answer is what the server has, unless a candle overtook it.
AnswerTrue ==
  /\ answering.to = "nobody" => answering = Sent!NoAnswer
  /\ (answering # Sent!NoAnswer /\ answering.to \notin overlapped /\ ~unsaid) => answering.values = values

Fresh == \A c \in Watchers \ joined : cache[c] = <<>> /\ inbox[c] = <<>>

NoneAhead ==
  /\ values \in Seq(1..clock)
  /\ answering.values \in Seq(1..clock)
  /\ \A c \in Watchers : \A k \in 1..Len(inbox[c]) : inbox[c][k].values \in Seq(1..clock)

SentinelInv ==
  Sent!TypeOK /\ Idling /\ Ticking /\ AskedOnce /\ AnswerTrue /\ Fresh /\ NoneAhead /\ Clients

-----------------------------------------------------------------------------
\* What is cut off is the beginning.
LEMMA TrimmedIs ==
  ASSUME Sent!SentinelAssumption, NEW T, NEW s \in Seq(T)
  PROVE  /\ Sent!Trimmed(s) \in Seq(T)
         /\ Len(Sent!Trimmed(s)) = IF Len(s) > MaxLen THEN MaxLen ELSE Len(s)
         /\ \A k \in 1..Len(Sent!Trimmed(s)) : Sent!Trimmed(s)[k] = s[Len(s) - Len(Sent!Trimmed(s)) + k]
<1>1. MaxLen \in Nat /\ Len(s) \in Nat
  BY LenProperties DEF Sent!SentinelAssumption
<1>2. CASE Len(s) > MaxLen
  <2>1. Sent!Trimmed(s) = SubSeq(s, Len(s) - MaxLen + 1, Len(s))
    BY <1>2 DEF Sent!Trimmed
  <2>2. \A i \in (Len(s) - MaxLen + 1)..Len(s) : s[i] \in T
    BY <1>1, <1>2, ElementOfSeq
  <2>3. Len(s) - MaxLen + 1 \in Int /\ Len(s) \in Int
    BY <1>1
  <2>4. /\ Sent!Trimmed(s) \in Seq(T)
        /\ Len(Sent!Trimmed(s)) = IF Len(s) - MaxLen + 1 <= Len(s) THEN Len(s) - (Len(s) - MaxLen + 1) + 1 ELSE 0
        /\ \A i \in 1..(Len(s) - (Len(s) - MaxLen + 1) + 1) : Sent!Trimmed(s)[i] = s[Len(s) - MaxLen + 1 + i - 1]
    BY <2>1, <2>2, <2>3, SubSeqProperties
  <2>5. Len(Sent!Trimmed(s)) = MaxLen
    BY <1>1, <1>2, <2>4 DEF Sent!SentinelAssumption
  <2>6. ASSUME NEW k \in 1..MaxLen
        PROVE  Sent!Trimmed(s)[k] = s[Len(s) - MaxLen + k]
    <3>1. Len(s) - MaxLen + 1 + k - 1 = Len(s) - MaxLen + k /\ k \in 1..(Len(s) - (Len(s) - MaxLen + 1) + 1)
      BY <1>1
    <3>2. QED
      BY <2>4, <3>1
  <2>7. QED
    BY <1>2, <2>4, <2>5, <2>6
<1>3. CASE ~(Len(s) > MaxLen)
  <2>1. Sent!Trimmed(s) = s
    BY <1>3 DEF Sent!Trimmed
  <2>2. \A k \in 1..Len(s) : Len(s) - Len(s) + k = k
    BY <1>1
  <2>3. QED
    BY <1>3, <2>1, <2>2
<1>4. QED
  BY <1>2, <1>3

LEMMA TrimmedEnds ==
  ASSUME Sent!SentinelAssumption, NEW T, NEW s \in Seq(T)
  PROVE  Ends(Sent!Trimmed(s), s)
<1>1. MaxLen \in Nat /\ Len(s) \in Nat
  BY LenProperties DEF Sent!SentinelAssumption
<1>2. QED
  BY <1>1, TrimmedIs DEF Ends

LEMMA EndsTrimmed ==
  ASSUME Sent!SentinelAssumption, NEW T, NEW s \in Seq(T), NEW t \in Seq(T), Ends(s, t)
  PROVE  Ends(Sent!Trimmed(s), Sent!Trimmed(t))
<1> DEFINE a == Sent!Trimmed(s)
           b == Sent!Trimmed(t)
<1>1. MaxLen \in Nat /\ Len(s) \in Nat /\ Len(t) \in Nat /\ Len(a) \in Nat /\ Len(b) \in Nat
  BY LenProperties, TrimmedIs DEF Sent!SentinelAssumption
<1>2. Len(s) <= Len(t) /\ \A k \in 1..Len(s) : s[k] = t[Len(t) - Len(s) + k]
  BY DEF Ends
<1>3. /\ Len(a) = (IF Len(s) > MaxLen THEN MaxLen ELSE Len(s))
      /\ \A k \in 1..Len(a) : a[k] = s[Len(s) - Len(a) + k]
  BY TrimmedIs
<1>4. /\ Len(b) = (IF Len(t) > MaxLen THEN MaxLen ELSE Len(t))
      /\ \A k \in 1..Len(b) : b[k] = t[Len(t) - Len(b) + k]
  BY TrimmedIs
<1> HIDE DEF a, b
<1>5. Len(a) <= Len(b) /\ Len(a) <= Len(s) /\ Len(b) <= Len(t)
  BY <1>1, <1>2, <1>3, <1>4
<1>6. ASSUME NEW k \in 1..Len(a)
      PROVE  a[k] = b[Len(b) - Len(a) + k]
  <2>1. Len(s) - Len(a) + k \in 1..Len(s) /\ Len(b) - Len(a) + k \in 1..Len(b)
    BY <1>1, <1>5
  <2>2. a[k] = s[Len(s) - Len(a) + k]
    BY <1>3
  <2>3. s[Len(s) - Len(a) + k] = t[Len(t) - Len(s) + (Len(s) - Len(a) + k)]
    BY <1>2, <2>1
  <2>4. b[Len(b) - Len(a) + k] = t[Len(t) - Len(b) + (Len(b) - Len(a) + k)]
    BY <1>4, <2>1
  <2>5. Len(t) - Len(s) + (Len(s) - Len(a) + k) = Len(t) - Len(b) + (Len(b) - Len(a) + k)
    BY <1>1
  <2>6. QED
    BY <2>2, <2>3, <2>4, <2>5
<1>7. QED
  BY <1>5, <1>6 DEF Ends, a, b

LEMMA EndsAppended ==
  ASSUME NEW T, NEW s \in Seq(T), NEW t \in Seq(T), NEW x \in T, Ends(s, t)
  PROVE  Ends(Append(s, x), Append(t, x))
<1> DEFINE a == Append(s, x)
           b == Append(t, x)
<1>1. Len(s) \in Nat /\ Len(t) \in Nat
  BY LenProperties
<1>2. Len(s) <= Len(t) /\ \A k \in 1..Len(s) : s[k] = t[Len(t) - Len(s) + k]
  BY DEF Ends
<1>3. Len(a) = Len(s) + 1 /\ (\A k \in 1..Len(s) : a[k] = s[k]) /\ a[Len(s) + 1] = x
  BY AppendProperties
<1>4. Len(b) = Len(t) + 1 /\ (\A k \in 1..Len(t) : b[k] = t[k]) /\ b[Len(t) + 1] = x
  BY AppendProperties
<1> HIDE DEF a, b
<1>5. ASSUME NEW k \in 1..Len(a)
      PROVE  a[k] = b[Len(b) - Len(a) + k]
  <2>1. Len(b) - Len(a) + k = Len(t) - Len(s) + k
    BY <1>1, <1>3, <1>4
  <2>2. CASE k = Len(s) + 1
    <3>1. Len(t) - Len(s) + k = Len(t) + 1
      BY <1>1, <2>2
    <3>2. QED
      BY <1>3, <1>4, <2>1, <2>2, <3>1
  <2>3. CASE k \in 1..Len(s)
    <3>1. Len(t) - Len(s) + k \in 1..Len(t)
      BY <1>1, <1>2, <2>3
    <3>2. QED
      BY <1>2, <1>3, <1>4, <2>1, <2>3, <3>1
  <2>4. QED
    BY <1>1, <1>3, <2>2, <2>3
<1>6. Len(a) <= Len(b)
  BY <1>1, <1>2, <1>3, <1>4
<1>7. QED
  BY <1>5, <1>6 DEF Ends, a, b

\* The ends are what the property calls suffixes.
LEMMA EndsSuffix ==
  ASSUME NEW T, NEW s \in Seq(T), NEW t \in Seq(T), Ends(s, t)
  PROVE  Sent!IsSuffix(s, t)
<1> DEFINE a == Sent!Reverse(s)
           b == Sent!Reverse(t)
<1>1. Len(s) \in Nat /\ Len(t) \in Nat
  BY LenProperties
<1>2. Len(s) <= Len(t) /\ \A k \in 1..Len(s) : s[k] = t[Len(t) - Len(s) + k]
  BY DEF Ends
<1>3. a \in Seq(T) /\ Len(a) = Len(s) /\ \A k \in 1..Len(s) : a[k] = s[(Len(s) - k) + 1]
  <2>1. \A k \in 1..Len(s) : s[(Len(s) - k) + 1] \in T
    BY <1>1, ElementOfSeq
  <2>2. [i \in 1..Len(s) |-> s[(Len(s) - i) + 1]] \in Seq(T)
    BY <1>1, <2>1
  <2>3. QED
    BY <1>1, <2>2 DEF Sent!Reverse
<1>4. b \in Seq(T) /\ Len(b) = Len(t) /\ \A k \in 1..Len(t) : b[k] = t[(Len(t) - k) + 1]
  <2>1. \A k \in 1..Len(t) : t[(Len(t) - k) + 1] \in T
    BY <1>1, ElementOfSeq
  <2>2. [i \in 1..Len(t) |-> t[(Len(t) - i) + 1]] \in Seq(T)
    BY <1>1, <2>1
  <2>3. QED
    BY <1>1, <2>2 DEF Sent!Reverse
<1> HIDE DEF a, b
<1>5. ASSUME NEW k \in 1..Len(s)
      PROVE  a[k] = b[k]
  <2>1. (Len(s) - k) + 1 \in 1..Len(s) /\ k \in 1..Len(t)
    BY <1>1, <1>2
  <2>2. s[(Len(s) - k) + 1] = t[Len(t) - Len(s) + ((Len(s) - k) + 1)]
    BY <1>2, <2>1
  <2>3. Len(t) - Len(s) + ((Len(s) - k) + 1) = (Len(t) - k) + 1
    BY <1>1
  <2>4. QED
    BY <1>3, <1>4, <2>1, <2>2, <2>3
<1>6. /\ SubSeq(a, 1, Len(s)) \in Seq(T) /\ Len(SubSeq(a, 1, Len(s))) = Len(s)
      /\ \A i \in 1..Len(s) : SubSeq(a, 1, Len(s))[i] = a[i]
  <2>1. \A i \in 1..Len(s) : a[i] \in T
    BY <1>1, <1>3, ElementOfSeq
  <2>2. /\ SubSeq(a, 1, Len(s)) \in Seq(T)
        /\ Len(SubSeq(a, 1, Len(s))) = (IF 1 <= Len(s) THEN Len(s) - 1 + 1 ELSE 0)
        /\ \A i \in 1..(Len(s) - 1 + 1) : SubSeq(a, 1, Len(s))[i] = a[1 + i - 1]
    BY <1>1, <2>1, SubSeqProperties
  <2>3. Len(s) - 1 + 1 = Len(s) /\ \A i \in 1..Len(s) : 1 + i - 1 = i
    BY <1>1
  <2>4. QED
    BY <1>1, <2>2, <2>3
<1>7. /\ SubSeq(b, 1, Len(s)) \in Seq(T) /\ Len(SubSeq(b, 1, Len(s))) = Len(s)
      /\ \A i \in 1..Len(s) : SubSeq(b, 1, Len(s))[i] = b[i]
  <2>1. \A i \in 1..Len(s) : b[i] \in T
    BY <1>1, <1>2, <1>4, ElementOfSeq
  <2>2. /\ SubSeq(b, 1, Len(s)) \in Seq(T)
        /\ Len(SubSeq(b, 1, Len(s))) = (IF 1 <= Len(s) THEN Len(s) - 1 + 1 ELSE 0)
        /\ \A i \in 1..(Len(s) - 1 + 1) : SubSeq(b, 1, Len(s))[i] = b[1 + i - 1]
    BY <1>1, <2>1, SubSeqProperties
  <2>3. Len(s) - 1 + 1 = Len(s) /\ \A i \in 1..Len(s) : 1 + i - 1 = i
    BY <1>1
  <2>4. QED
    BY <1>1, <2>2, <2>3
<1>8. SubSeq(a, 1, Len(s)) = SubSeq(b, 1, Len(s))
  BY <1>5, <1>6, <1>7, SeqEqual
<1>9. Sent!IsPrefix(a, b)
  BY <1>2, <1>3, <1>4, <1>8 DEF Sent!IsPrefix
<1>10. QED
  BY <1>9 DEF Sent!IsSuffix, a, b

-----------------------------------------------------------------------------
LEMMA LastIs ==
  ASSUME NEW T, NEW t \in Seq(T), t # <<>>
  PROVE  Sent!Last(t) \in T /\ Ends(<<Sent!Last(t)>>, t)
<1>1. Len(t) \in Nat \ {0}
  BY LenProperties, EmptySeq
<1>2. Sent!Last(t) \in T
  BY <1>1, ElementOfSeq DEF Sent!Last
<1>3. Len(<<Sent!Last(t)>>) = 1 /\ <<Sent!Last(t)>>[1] = Sent!Last(t)
  OBVIOUS
<1>4. QED
  BY <1>1, <1>2, <1>3 DEF Ends, Sent!Last

LEMMA UpdateIs ==
  ASSUME NEW T, NEW s \in Seq(T), NEW x \in T
  PROVE  Sent!OnUpdate(s, <<x>>) = Sent!Trimmed(Append(s, x))
<1>1. s \o <<x>> = Append(s, x)
  <2>1. <<x>> \in Seq(T) /\ Len(<<x>>) = 1 /\ <<x>>[1] = x /\ Len(s) \in Nat
    BY LenProperties
  <2>2. /\ s \o <<x>> \in Seq(T) /\ Len(s \o <<x>>) = Len(s) + 1
        /\ \A i \in 1..(Len(s) + 1) : (s \o <<x>>)[i] = IF i <= Len(s) THEN s[i] ELSE <<x>>[i - Len(s)]
    BY <2>1, ConcatProperties
  <2>3. /\ Append(s, x) \in Seq(T) /\ Len(Append(s, x)) = Len(s) + 1
        /\ (\A i \in 1..Len(s) : Append(s, x)[i] = s[i]) /\ Append(s, x)[Len(s) + 1] = x
    BY AppendProperties
  <2>4. ASSUME NEW i \in 1..(Len(s) + 1)
        PROVE  (s \o <<x>>)[i] = Append(s, x)[i]
    <3>1. CASE i = Len(s) + 1
      BY <2>1, <2>2, <2>3, <3>1
    <3>2. CASE i \in 1..Len(s)
      BY <2>1, <2>2, <2>3, <3>2
    <3>3. QED
      BY <2>1, <3>1, <3>2
  <2>5. QED
    BY <2>2, <2>3, <2>4, SeqEqual
<1>2. QED
  BY <1>1 DEF Sent!OnUpdate

LEMMA HeardTyped ==
  ASSUME Sent!SentinelAssumption, NEW n \in Nat, NEW old \in Seq(1..n), NEW m, m.values \in Seq(1..n)
  PROVE  Heard(old, m) \in Seq(1..n)
<1>1. old \o m.values \in Seq(1..n)
  BY ConcatProperties
<1>2. Sent!Trimmed(old \o m.values) \in Seq(1..n) /\ Sent!Trimmed(old) \in Seq(1..n) /\ Sent!Trimmed(m.values) \in Seq(1..n)
  BY <1>1, TrimmedIs
<1>3. QED
  BY <1>2 DEF Heard, Sent!OnSnapshot, Sent!OnUpdate

\* One more message is heard after the others, ...
LEMMA HearingsGrow ==
  ASSUME Sent!SentinelAssumption, NEW n \in Nat, NEW q \in Seq(Sent!Messages), NEW m \in Sent!Messages,
         m.values \in Seq(1..n), NEW s, NEW f \in [0..Len(q) -> Seq(1..n)], Hearings(f, s, q, n)
  PROVE  \E g \in [0..Len(Append(q, m)) -> Seq(1..n)] :
           Hearings(g, s, Append(q, m), n) /\ g[Len(Append(q, m))] = Heard(f[Len(q)], m)
<1> DEFINE b == Append(q, m)
           z == Heard(f[Len(q)], m)
           g == [k \in 0..(Len(q) + 1) |-> IF k = Len(q) + 1 THEN z ELSE f[k]]
<1>1. /\ Len(q) \in Nat /\ Len(b) = Len(q) + 1
      /\ \A k \in 1..Len(q) : b[k] = q[k]
      /\ b[Len(q) + 1] = m
  BY AppendProperties, LenProperties
<1>2. f[Len(q)] \in Seq(1..n)
  BY <1>1
<1>3. z \in Seq(1..n)
  BY <1>2, HeardTyped
<1>4. f[0] = s /\ \A k \in 1..Len(q) : f[k] = Heard(f[k - 1], q[k])
  BY DEF Hearings
<1>5. /\ g \in [0..(Len(q) + 1) -> Seq(1..n)] /\ g[Len(q) + 1] = z
      /\ \A k \in 0..Len(q) : g[k] = f[k]
  <2> HIDE DEF z
  <2>1. QED
    BY <1>1, <1>3
<1> HIDE DEF b, g
<1>6. ASSUME NEW k \in 1..(Len(q) + 1)
      PROVE  g[k] = Heard(g[k - 1], b[k])
  <2>1. CASE k = Len(q) + 1
    <3>1. k - 1 = Len(q) /\ g[k - 1] = f[Len(q)]
      BY <1>1, <1>5, <2>1
    <3>2. QED
      BY <1>1, <1>5, <2>1, <3>1
  <2>2. CASE k \in 1..Len(q)
    <3>1. g[k] = f[k] /\ g[k - 1] = f[k - 1] /\ b[k] = q[k]
      BY <1>1, <1>5, <2>2
    <3>2. QED
      BY <1>4, <2>2, <3>1
  <2>3. QED
    BY <1>1, <2>1, <2>2
<1>7. g[0] = s
  <2>1. 0 \in 0..Len(q)
    BY <1>1
  <2>2. QED
    BY <1>4, <1>5, <2>1
<1> HIDE DEF z
<1>8. Hearings(g, s, b, n)
  BY <1>1, <1>5, <1>6, <1>7 DEF Hearings
<1>9. QED
  BY <1>1, <1>5, <1>8 DEF b, z

\* ... and the first is heard before them.
LEMMA HearingsShorten ==
  ASSUME NEW n \in Nat, NEW q \in Seq(Sent!Messages), q # <<>>, NEW s,
         NEW f \in [0..Len(q) -> Seq(1..n)], Hearings(f, s, q, n)
  PROVE  \E g \in [0..Len(Tail(q)) -> Seq(1..n)] :
           Hearings(g, Heard(s, Head(q)), Tail(q), n) /\ g[Len(Tail(q))] = f[Len(q)]
<1> DEFINE b == Tail(q)
           g == [k \in 0..(Len(q) - 1) |-> f[k + 1]]
<1>1. /\ Len(q) \in Nat \ {0} /\ Len(b) = Len(q) - 1 /\ Head(q) = q[1]
      /\ \A k \in 1..(Len(q) - 1) : b[k] = q[k + 1]
  BY HeadTailProperties, LenProperties, EmptySeq
<1>2. f[0] = s /\ \A k \in 1..Len(q) : f[k] = Heard(f[k - 1], q[k])
  BY DEF Hearings
<1>3. f[1] = Heard(s, Head(q))
  BY <1>1, <1>2
<1>4. \A k \in 0..(Len(q) - 1) : k + 1 \in 0..Len(q) /\ f[k + 1] \in Seq(1..n)
  BY <1>1
<1>5. g \in [0..(Len(q) - 1) -> Seq(1..n)] /\ \A k \in 0..(Len(q) - 1) : g[k] = f[k + 1]
  BY <1>4
<1> HIDE DEF b, g
<1>6. g[0] = f[1] /\ g[Len(q) - 1] = f[Len(q)]
  <2>1. 0 \in 0..(Len(q) - 1) /\ Len(q) - 1 \in 0..(Len(q) - 1) /\ (Len(q) - 1) + 1 = Len(q) /\ 0 + 1 = 1
    BY <1>1
  <2>2. QED
    BY <1>5, <2>1
<1>7. ASSUME NEW k \in 1..(Len(q) - 1)
      PROVE  g[k] = Heard(g[k - 1], b[k])
  <2>1. /\ k \in 0..(Len(q) - 1) /\ k - 1 \in 0..(Len(q) - 1) /\ (k - 1) + 1 = k
        /\ k + 1 \in 1..Len(q) /\ (k + 1) - 1 = k
    BY <1>1
  <2>2. g[k] = f[k + 1] /\ g[k - 1] = f[k] /\ b[k] = q[k + 1]
    BY <1>1, <1>5, <2>1
  <2>3. f[k + 1] = Heard(f[k], q[k + 1])
    BY <1>2, <2>1
  <2>4. QED
    BY <2>2, <2>3
<1>8. Hearings(g, Heard(s, Head(q)), b, n)
  BY <1>1, <1>3, <1>5, <1>6, <1>7 DEF Hearings
<1>9. QED
  BY <1>1, <1>5, <1>6, <1>8 DEF b

\* A period more changes none of this.
LEMMA ServedLater ==
  ASSUME NEW n \in Nat, NEW s, NEW q, Len(q) \in Nat, NEW due, NEW late, NEW t, Served(s, q, n, due, late, t)
  PROVE  Served(s, q, n + 1, due, late, t)
<1>1. PICK f \in [0..Len(q) -> Seq(1..n)] :
        Hearings(f, s, q, n) /\ (due => UpToDate(f[Len(q)], late, t))
  BY DEF Served
<1>2. f \in [0..Len(q) -> Seq(1..(n + 1))]
  <2>1. 1..n \subseteq 1..(n + 1)
    OBVIOUS
  <2>2. \A k \in 0..Len(q) : f[k] \in Seq(1..(n + 1))
    BY <2>1, SeqMonotonic
  <2>3. QED
    BY <2>2
<1>3. Hearings(f, s, q, n + 1)
  BY <1>1, <1>2 DEF Hearings
<1>4. QED
  BY <1>1, <1>2, <1>3 DEF Served

\* A client that hears a message more is served if the message makes it so.
LEMMA ServedByMessage ==
  ASSUME Sent!SentinelAssumption, NEW n \in Nat, NEW q \in Seq(Sent!Messages), NEW m \in Sent!Messages,
         m.values \in Seq(1..n), NEW s, NEW due, NEW late, NEW t,
         NEW due2, NEW late2, NEW t2, Served(s, q, n, due, late, t),
         \A x \in Seq(1..n) : ((due => UpToDate(x, late, t)) /\ due2) => UpToDate(Heard(x, m), late2, t2)
  PROVE  Served(s, Append(q, m), n, due2, late2, t2)
<1>1. PICK f \in [0..Len(q) -> Seq(1..n)] :
        Hearings(f, s, q, n) /\ (due => UpToDate(f[Len(q)], late, t))
  BY DEF Served
<1>2. Len(q) \in Nat /\ f[Len(q)] \in Seq(1..n)
  BY LenProperties
<1>3. PICK g \in [0..Len(Append(q, m)) -> Seq(1..n)] :
        Hearings(g, s, Append(q, m), n) /\ g[Len(Append(q, m))] = Heard(f[Len(q)], m)
  <2>1. Hearings(f, s, q, n)
    BY <1>1
  <2>2. QED
    BY <2>1, HearingsGrow
<1>4. due2 => UpToDate(g[Len(Append(q, m))], late2, t2)
  BY <1>1, <1>2, <1>3
<1>5. QED
  BY <1>3, <1>4 DEF Served

\* What the server has may change under it.
LEMMA ServedStill ==
  ASSUME NEW n \in Nat, NEW q, Len(q) \in Nat, NEW s, NEW due, NEW late, NEW t,
         NEW due2, NEW late2, NEW t2, Served(s, q, n, due, late, t),
         \A x \in Seq(1..n) : ((due => UpToDate(x, late, t)) /\ due2) => UpToDate(x, late2, t2)
  PROVE  Served(s, q, n, due2, late2, t2)
<1>1. PICK f \in [0..Len(q) -> Seq(1..n)] :
        Hearings(f, s, q, n) /\ (due => UpToDate(f[Len(q)], late, t))
  BY DEF Served
<1>2. due2 => UpToDate(f[Len(q)], late2, t2)
  <2>1. f[Len(q)] \in Seq(1..n)
    OBVIOUS
  <2>2. QED
    BY <1>1, <2>1
<1>3. QED
  BY <1>1, <1>2 DEF Served

LEMMA ServedAfterHearing ==
  ASSUME NEW n \in Nat, NEW q \in Seq(Sent!Messages), q # <<>>, NEW s, NEW due, NEW late, NEW t,
         Served(s, q, n, due, late, t)
  PROVE  Served(Heard(s, Head(q)), Tail(q), n, due, late, t)
<1>1. PICK f \in [0..Len(q) -> Seq(1..n)] :
        Hearings(f, s, q, n) /\ (due => UpToDate(f[Len(q)], late, t))
  BY DEF Served
<1>2. PICK g \in [0..Len(Tail(q)) -> Seq(1..n)] :
        Hearings(g, Heard(s, Head(q)), Tail(q), n) /\ g[Len(Tail(q))] = f[Len(q)]
  BY <1>1, HearingsShorten
<1>3. QED
  BY <1>1, <1>2 DEF Served

-----------------------------------------------------------------------------
LEMMA SnapshotServes ==
  ASSUME Sent!SentinelAssumption, NEW T, NEW x \in Seq(T), NEW v \in Seq(T), v = <<>> => Len(x) = 0
  PROVE  UpToDate(Sent!OnSnapshot(x, v), FALSE, v)
<1>1. CASE v # <<>>
  BY <1>1, TrimmedEnds DEF Sent!OnSnapshot, UpToDate
<1>2. CASE v = <<>>
  <2>1. Len(x) = 0 /\ Len(v) = 0
    BY <1>2
  <2>2. Sent!Trimmed(x) = x
    BY <2>1 DEF Sent!Trimmed, Sent!SentinelAssumption
  <2>3. QED
    BY <1>2, <2>1, <2>2 DEF Sent!OnSnapshot, UpToDate, Ends
<1>3. QED
  BY <1>1, <1>2

LEMMA PublishedTo ==
  ASSUME Sent!SentinelAssumption, Sent!TypeOK, NoneAhead, NEW to, NEW sort \in {"snapshot", "update"},
         NEW seq \in Seq(1..clock), Sent!Publish(to, sort, seq)
  PROVE  /\ [kind |-> sort, values |-> seq] \in Sent!Messages
         /\ inbox' \in [Watchers -> Seq(Sent!Messages)]
         /\ \A c \in Watchers :
              inbox'[c] = IF c \in to \cap joined THEN Append(inbox[c], [kind |-> sort, values |-> seq])
                          ELSE inbox[c]
         /\ \A c \in Watchers : \A k \in 1..Len(inbox'[c]) : inbox'[c][k].values \in Seq(1..clock)
<1> DEFINE m == [kind |-> sort, values |-> seq]
<1>1. 1..clock \subseteq Sent!Candle
  BY DEF Sent!TypeOK, Sent!Candle, Sent!SentinelAssumption
<1>2. m \in Sent!Messages
  <2>1. seq \in Seq(Sent!Candle)
    BY <1>1, SeqMonotonic
  <2>2. QED
    BY <2>1 DEF Sent!Messages
<1>3. m.values \in Seq(1..clock)
  OBVIOUS
<1> HIDE DEF m
<1>4. \A c \in Watchers : inbox[c] \in Seq(Sent!Messages)
  BY DEF Sent!TypeOK
<1>5. inbox' = [c \in Watchers |-> IF c \in to \cap joined THEN Append(inbox[c], m) ELSE inbox[c]]
  BY DEF Sent!Publish, m
<1>6. inbox' \in [Watchers -> Seq(Sent!Messages)]
  BY <1>2, <1>4, <1>5, AppendProperties
<1>7. ASSUME NEW c \in Watchers, NEW k \in 1..Len(inbox'[c])
      PROVE  inbox'[c][k].values \in Seq(1..clock)
  <2>1. CASE c \in to \cap joined
    <3>1. /\ inbox'[c] = Append(inbox[c], m) /\ Len(inbox[c]) \in Nat
          /\ Len(inbox'[c]) = Len(inbox[c]) + 1 /\ inbox'[c][Len(inbox[c]) + 1] = m
          /\ \A i \in 1..Len(inbox[c]) : inbox'[c][i] = inbox[c][i]
      BY <1>2, <1>4, <1>5, <2>1, AppendProperties, LenProperties
    <3>2. CASE k = Len(inbox[c]) + 1
      BY <1>3, <3>1, <3>2
    <3>3. CASE k \in 1..Len(inbox[c])
      BY <3>1, <3>3 DEF NoneAhead
    <3>4. QED
      BY <3>1, <3>2, <3>3
  <2>2. CASE c \notin to \cap joined
    <3>1. inbox'[c] = inbox[c]
      BY <1>5, <2>2
    <3>2. QED
      BY <3>1 DEF NoneAhead
  <2>3. QED
    BY <2>1, <2>2
<1>8. QED
  BY <1>2, <1>5, <1>6, <1>7 DEF m

LEMMA SentinelInit ==
  ASSUME Sent!SentinelAssumption, Sent!Init
  PROVE  SentinelInv
<1>1. Sent!TypeOK
  <2>1. <<>> \in Seq(Sent!Candle) /\ <<>> \in Seq(Watchers) /\ <<>> \in Seq(Sent!Messages) /\ Len(<<>>) = 0
    OBVIOUS
  <2>2. Sent!NoAnswer \in [to : Watchers \cup {"nobody"}, values : Seq(Sent!Candle)]
    BY <2>1 DEF Sent!NoAnswer
  <2>3. /\ [c \in Watchers |-> <<>>] \in [Watchers -> Seq(Sent!Messages)]
        /\ [c \in Watchers |-> <<>>] \in [Watchers -> Seq(Sent!Candle)]
    BY <2>1
  <2>4. 0 \in 0..Periods /\ 0 \in 0..MaxServerStarts /\ 0 <= MaxLen
    BY DEF Sent!SentinelAssumption
  <2>5. QED
    BY <2>1, <2>2, <2>3, <2>4 DEF Sent!Init, Sent!TypeOK
<1>2. Idling /\ Ticking /\ Fresh
  BY DEF Sent!Init, Idling, Ticking, Fresh
<1>3. AskedOnce /\ AnswerTrue
  BY DEF Sent!Init, AskedOnce, AnswerTrue, Sent!NoAnswer
<1>4. NoneAhead
  <2>1. <<>> \in Seq(1..clock)
    OBVIOUS
  <2>2. QED
    BY <2>1 DEF Sent!Init, NoneAhead, Sent!NoAnswer
<1>5. Clients
  <2>1. SUFFICES ASSUME NEW c \in Watchers
                 PROVE  Served(<<>>, <<>>, 0, Due(c, "down", {}, {}), FALSE, <<>>)
    BY DEF Clients, Sent!Init
  <2> DEFINE f == [k \in 0..0 |-> <<>>]
  <2>2. Len(<<>>) = 0 /\ f \in [0..0 -> Seq(1..0)] /\ f[0] = <<>>
    OBVIOUS
  <2> HIDE DEF f
  <2>3. Hearings(f, <<>>, <<>>, 0)
    BY <2>2 DEF Hearings
  <2>4. QED
    BY <2>2, <2>3 DEF Served, Due
<1>6. QED
  BY <1>1, <1>2, <1>3, <1>4, <1>5 DEF SentinelInv

LEMMA LoadKeeps ==
  ASSUME Sent!SentinelAssumption, SentinelInv, Sent!Load
  PROVE  SentinelInv'
<1> DEFINE full == [k \in 1..clock |-> k]
           v == Sent!Trimmed(full)
<1>0. Sent!TypeOK /\ Idling /\ Ticking /\ AskedOnce /\ AnswerTrue /\ Fresh /\ NoneAhead /\ Clients
  BY DEF SentinelInv
<1>1. /\ phase = "down" /\ phase' = "loaded" /\ serverStarts' = serverStarts + 1
      /\ serverStarts < MaxServerStarts /\ values' = v /\ Sent!Publish(Watchers, "snapshot", v)
      /\ overlapped' = {}
      /\ UNCHANGED <<clock, ticked, unsaid, requests, answering, joined, cache>>
  BY DEF Sent!Load
<1>2. ~ticked /\ unsaid = FALSE /\ requests = <<>> /\ answering = Sent!NoAnswer
  BY <1>0, <1>1 DEF Idling, Sent!TypeOK
<1>3. clock \in Nat /\ MaxLen \in Nat \ {0}
  BY <1>0 DEF Sent!TypeOK, Sent!SentinelAssumption
<1>4. full \in Seq(1..clock) /\ Len(full) = clock
  BY <1>3
<1> HIDE DEF full
<1>5. v \in Seq(1..clock) /\ Len(v) <= MaxLen /\ (v = <<>> => clock = 0)
  BY <1>3, <1>4, TrimmedIs
<1> HIDE DEF v
<1> DEFINE m == [kind |-> "snapshot", values |-> v]
<1>6. /\ m \in Sent!Messages
      /\ inbox' \in [Watchers -> Seq(Sent!Messages)]
      /\ \A c \in Watchers : inbox'[c] = IF c \in Watchers \cap joined THEN Append(inbox[c], m) ELSE inbox[c]
      /\ \A c \in Watchers : \A k \in 1..Len(inbox'[c]) : inbox'[c][k].values \in Seq(1..clock)
  BY <1>0, <1>1, <1>5, PublishedTo
<1>7. m.kind = "snapshot" /\ m.values = v
  OBVIOUS
<1> HIDE DEF m
<1>8. Sent!TypeOK'
  <2>1. v \in Seq(Sent!Candle)
    <3>1. 1..clock \subseteq Sent!Candle
      BY <1>0 DEF Sent!TypeOK, Sent!Candle, Sent!SentinelAssumption
    <3>2. QED
      BY <1>5, <3>1, SeqMonotonic
  <2>2. serverStarts' \in 0..MaxServerStarts
    BY <1>0, <1>1 DEF Sent!TypeOK, Sent!SentinelAssumption
  <2>3. QED
    BY <1>0, <1>1, <1>5, <1>6, <2>1, <2>2 DEF Sent!TypeOK
<1>9. Idling' /\ Ticking'
  BY <1>1, <1>2 DEF Idling, Ticking
<1>10. AskedOnce' /\ AnswerTrue'
  BY <1>1, <1>2 DEF AskedOnce, AnswerTrue, Sent!NoAnswer
<1>11. Fresh'
  BY <1>0, <1>1, <1>6 DEF Fresh
<1>12. NoneAhead'
  BY <1>0, <1>1, <1>5, <1>6 DEF NoneAhead
<1>13. Clients'
  <2>1. SUFFICES ASSUME NEW c \in Watchers
                 PROVE  Served(cache[c], inbox'[c], clock, Due(c, phase', joined, {}), FALSE, v)
    BY <1>1, <1>2 DEF Clients
  <2>2. inbox[c] \in Seq(Sent!Messages)
    BY <1>0 DEF Sent!TypeOK
  <2>3. Served(cache[c], inbox[c], clock, Due(c, phase, joined, overlapped), unsaid, values)
    BY <1>0 DEF Clients
  <2>4. CASE c \in joined
    <3>1. ASSUME NEW x \in Seq(1..clock)
          PROVE  UpToDate(Heard(x, m), FALSE, v)
      <4>1. Heard(x, m) = Sent!OnSnapshot(x, v)
        BY <1>7 DEF Heard
      <4>2. v = <<>> => Len(x) = 0
        BY <1>5, ElementOfSeq, LenProperties
      <4>3. QED
        BY <1>5, <4>1, <4>2, SnapshotServes
    <3>2. inbox'[c] = Append(inbox[c], m)
      BY <1>6, <2>4
    <3>3. \A x \in Seq(1..clock) :
            ((Due(c, phase, joined, overlapped) => UpToDate(x, unsaid, values)) /\ Due(c, phase', joined, {}))
              => UpToDate(Heard(x, m), FALSE, v)
      BY <3>1
    <3>4. m.values \in Seq(1..clock) /\ m \in Sent!Messages
      BY <1>5, <1>6, <1>7
    <3>5. Served(cache[c], Append(inbox[c], m), clock, Due(c, phase', joined, {}), FALSE, v)
      BY <1>3, <2>2, <2>3, <3>3, <3>4, ServedByMessage, Zenon
    <3>6. QED
      BY <3>2, <3>5
  <2>5. CASE c \notin joined
    <3>1. inbox'[c] = inbox[c] /\ ~Due(c, phase', joined, {}) /\ Len(inbox[c]) \in Nat
      BY <1>6, <2>2, <2>5, LenProperties DEF Due
    <3>2. QED
      BY <1>3, <2>3, <3>1, ServedStill
  <2>6. QED
    BY <2>4, <2>5
<1>14. QED
  BY <1>8, <1>9, <1>10, <1>11, <1>12, <1>13 DEF SentinelInv

LEMMA ListenKeeps ==
  ASSUME Sent!SentinelAssumption, SentinelInv, Sent!Listen
  PROVE  SentinelInv'
<1>0. Sent!TypeOK /\ Idling /\ Ticking /\ AskedOnce /\ AnswerTrue /\ Fresh /\ NoneAhead /\ Clients
  BY DEF SentinelInv
<1>1. /\ phase = "loaded" /\ phase' = "listening"
      /\ UNCHANGED <<clock, values, ticked, unsaid, requests, answering, joined, inbox, cache,
                     serverStarts, overlapped>>
  BY DEF Sent!Listen
<1>2. Sent!TypeOK' /\ Idling' /\ Ticking'
  BY <1>0, <1>1 DEF Sent!TypeOK, Idling, Ticking
<1>3. AskedOnce' /\ AnswerTrue' /\ Fresh' /\ NoneAhead'
  BY <1>0, <1>1 DEF AskedOnce, AnswerTrue, Fresh, NoneAhead
<1>4. Clients'
  BY <1>0, <1>1 DEF Clients, Due
<1>5. QED
  BY <1>2, <1>3, <1>4 DEF SentinelInv

LEMMA KillKeeps ==
  ASSUME Sent!SentinelAssumption, SentinelInv, Sent!Kill
  PROVE  SentinelInv'
<1>0. Sent!TypeOK /\ Idling /\ Ticking /\ AskedOnce /\ AnswerTrue /\ Fresh /\ NoneAhead /\ Clients
  BY DEF SentinelInv
<1>1. /\ phase' = "down" /\ ticked' = FALSE /\ unsaid' = FALSE /\ requests' = <<>>
      /\ answering' = Sent!NoAnswer
      /\ UNCHANGED <<clock, values, joined, inbox, cache, serverStarts, overlapped>>
  BY DEF Sent!Kill
<1>2. Sent!TypeOK'
  <2>1. <<>> \in Seq(Watchers) /\ <<>> \in Seq(Sent!Candle)
    OBVIOUS
  <2>2. Sent!NoAnswer \in [to : Watchers \cup {"nobody"}, values : Seq(Sent!Candle)]
    BY <2>1 DEF Sent!NoAnswer
  <2>3. QED
    BY <1>0, <1>1, <2>1, <2>2 DEF Sent!TypeOK
<1>3. Idling' /\ Ticking' /\ Fresh'
  BY <1>0, <1>1 DEF Idling, Ticking, Fresh
<1>4. AskedOnce' /\ AnswerTrue'
  BY <1>0, <1>1 DEF AskedOnce, AnswerTrue, Sent!NoAnswer
<1>5. NoneAhead'
  <2>1. <<>> \in Seq(1..clock)
    OBVIOUS
  <2>2. QED
    BY <1>0, <1>1, <2>1 DEF NoneAhead, Sent!NoAnswer
<1>6. Clients'
  <2>1. SUFFICES ASSUME NEW c \in Watchers
                 PROVE  Served(cache[c], inbox[c], clock, Due(c, "down", joined, overlapped), FALSE, values)
    BY <1>1 DEF Clients
  <2>2. Served(cache[c], inbox[c], clock, Due(c, phase, joined, overlapped), unsaid, values)
    BY <1>0 DEF Clients
  <2>3. ~Due(c, "down", joined, overlapped) /\ clock \in Nat /\ Len(inbox[c]) \in Nat
    BY <1>0, LenProperties DEF Due, Sent!TypeOK, Sent!SentinelAssumption
  <2>4. PICK f \in [0..Len(inbox[c]) -> Seq(1..clock)] : Hearings(f, cache[c], inbox[c], clock)
    BY <2>2 DEF Served
  <2>5. QED
    BY <2>3, <2>4 DEF Served
<1>7. QED
  BY <1>2, <1>3, <1>4, <1>5, <1>6 DEF SentinelInv

LEMMA PeriodKeeps ==
  ASSUME Sent!SentinelAssumption, SentinelInv, Sent!Period
  PROVE  SentinelInv'
<1>0. Sent!TypeOK /\ Idling /\ Ticking /\ AskedOnce /\ AnswerTrue /\ Fresh /\ NoneAhead /\ Clients
  BY DEF SentinelInv
<1>1. /\ clock < Periods /\ ~ticked /\ ~unsaid /\ clock' = clock + 1
      /\ ticked' = (phase = "listening")
      /\ UNCHANGED <<phase, values, unsaid, requests, answering, joined, inbox, cache,
                     serverStarts, overlapped>>
  BY DEF Sent!Period
<1>2. clock \in Nat /\ clock' \in 0..Periods /\ 1..clock \subseteq 1..clock'
  BY <1>0, <1>1 DEF Sent!TypeOK, Sent!SentinelAssumption
<1>3. Sent!TypeOK'
  BY <1>0, <1>1, <1>2 DEF Sent!TypeOK
<1>4. Idling' /\ Ticking'
  <2>1. (phase # "listening" => ~ticked') /\ clock' > 0
    <3>1. clock + 1 > 0
      BY <1>2
    <3>2. QED
      BY <1>1, <3>1
  <2>2. QED
    BY <1>0, <1>1, <2>1 DEF Idling, Ticking
<1>5. AskedOnce' /\ AnswerTrue' /\ Fresh'
  BY <1>0, <1>1 DEF AskedOnce, AnswerTrue, Fresh
<1>6. NoneAhead'
  <2>1. values \in Seq(1..clock') /\ answering.values \in Seq(1..clock')
    BY <1>0, <1>2, SeqMonotonic DEF NoneAhead
  <2>2. \A c \in Watchers : \A k \in 1..Len(inbox[c]) : inbox[c][k].values \in Seq(1..clock')
    BY <1>0, <1>2, SeqMonotonic DEF NoneAhead
  <2>3. QED
    BY <1>1, <2>1, <2>2 DEF NoneAhead
<1>7. Clients'
  <2>1. SUFFICES ASSUME NEW c \in Watchers
                 PROVE  Served(cache[c], inbox[c], clock + 1, Due(c, phase, joined, overlapped), unsaid, values)
    BY <1>1 DEF Clients
  <2>2. Len(inbox[c]) \in Nat
    BY <1>0, LenProperties DEF Sent!TypeOK
  <2>3. QED
    BY <1>0, <1>2, <2>2, ServedLater DEF Clients
<1>8. QED
  BY <1>3, <1>4, <1>5, <1>6, <1>7 DEF SentinelInv

LEMMA UpdateCandlesKeeps ==
  ASSUME Sent!SentinelAssumption, SentinelInv, Sent!UpdateCandles
  PROVE  SentinelInv'
<1>0. Sent!TypeOK /\ Idling /\ Ticking /\ AskedOnce /\ AnswerTrue /\ Fresh /\ NoneAhead /\ Clients
  BY DEF SentinelInv
<1>1. /\ ticked /\ ticked' = FALSE
      /\ UNCHANGED <<clock, phase, requests, answering, joined, inbox, cache, serverStarts,
                     overlapped>>
  BY DEF Sent!UpdateCandles
<1>2. ~unsaid /\ clock > 0 /\ phase = "listening"
  BY <1>0, <1>1 DEF Ticking, Idling
<1>3. clock \in Nat /\ clock \in 1..clock /\ 1..clock \subseteq Sent!Candle
  BY <1>0, <1>2 DEF Sent!TypeOK, Sent!Candle, Sent!SentinelAssumption
<1>4. CASE UNCHANGED <<values, unsaid>>
  <2>1. Sent!TypeOK' /\ Idling' /\ Ticking'
    BY <1>0, <1>1, <1>2, <1>4 DEF Sent!TypeOK, Idling, Ticking
  <2>2. AskedOnce' /\ AnswerTrue' /\ Fresh' /\ NoneAhead'
    BY <1>0, <1>1, <1>4 DEF AskedOnce, AnswerTrue, Fresh, NoneAhead
  <2>3. Clients'
    BY <1>0, <1>1, <1>4 DEF Clients
  <2>4. QED
    BY <2>1, <2>2, <2>3 DEF SentinelInv
<1>5. CASE values' = Sent!Trimmed(Append(values, clock)) /\ unsaid' = TRUE
  <2> DEFINE a == Append(values, clock)
             v == Sent!Trimmed(a)
  <2>1. values \in Seq(1..clock)
    BY <1>0 DEF NoneAhead
  <2>2. a \in Seq(1..clock) /\ Len(a) = Len(values) + 1 /\ a[Len(values) + 1] = clock /\ Len(values) \in Nat
    BY <1>3, <2>1, AppendProperties, LenProperties
  <2> HIDE DEF a
  <2>3. /\ v \in Seq(1..clock) /\ Len(v) = (IF Len(a) > MaxLen THEN MaxLen ELSE Len(a))
        /\ \A k \in 1..Len(v) : v[k] = a[Len(a) - Len(v) + k]
    BY <2>2, TrimmedIs
  <2>4. Len(v) <= MaxLen /\ Len(v) \in Nat \ {0} /\ v # <<>>
    BY <2>2, <2>3 DEF Sent!SentinelAssumption
  <2>5. Sent!Last(v) = clock
    <3>1. Len(a) - Len(v) + Len(v) = Len(values) + 1 /\ Len(v) \in 1..Len(v)
      BY <2>2, <2>4
    <3>2. QED
      BY <2>2, <2>3, <3>1 DEF Sent!Last
  <2>6. values' = v
    BY <1>5 DEF a
  <2>7. Sent!TypeOK'
    <3>1. v \in Seq(Sent!Candle)
      BY <1>3, <2>3, SeqMonotonic
    <3>2. QED
      BY <1>0, <1>1, <1>5, <2>4, <2>6, <3>1 DEF Sent!TypeOK
  <2>8. Idling' /\ Ticking'
    BY <1>0, <1>1, <1>2, <1>5, <2>4, <2>6 DEF Idling, Ticking
  <2>9. AskedOnce' /\ AnswerTrue' /\ Fresh'
    BY <1>0, <1>1, <1>5 DEF AskedOnce, AnswerTrue, Fresh
  <2>10. NoneAhead'
    BY <1>0, <1>1, <2>3, <2>6 DEF NoneAhead
  <2>11. Clients'
    <3>1. SUFFICES ASSUME NEW c \in Watchers
                   PROVE  Served(cache[c], inbox[c], clock, Due(c, phase, joined, overlapped), TRUE, v)
      BY <1>1, <1>5, <2>6 DEF Clients
    <3>2. Served(cache[c], inbox[c], clock, Due(c, phase, joined, overlapped), unsaid, values)
      BY <1>0 DEF Clients
    <3>3. ASSUME NEW x \in Seq(1..clock), UpToDate(x, unsaid, values)
          PROVE  UpToDate(x, TRUE, v)
      <4>1. Ends(x, values)
        BY <1>2, <3>3 DEF UpToDate
      <4>2. Ends(Append(x, clock), a)
        BY <1>3, <2>1, <4>1, EndsAppended DEF a
      <4>3. Append(x, clock) \in Seq(1..clock)
        BY <1>3, AppendProperties
      <4>4. Ends(Sent!Trimmed(Append(x, clock)), v)
        BY <2>2, <4>2, <4>3, EndsTrimmed
      <4>5. Sent!OnUpdate(x, <<Sent!Last(v)>>) = Sent!Trimmed(Append(x, clock))
        BY <1>3, <2>5, UpdateIs
      <4>6. QED
        BY <4>4, <4>5 DEF UpToDate
    <3>4. Len(inbox[c]) \in Nat
      BY <1>0, LenProperties DEF Sent!TypeOK
    <3> HIDE DEF v
    <3>5. QED
      BY <1>3, <3>2, <3>3, <3>4, ServedStill
  <2>12. QED
    BY <2>7, <2>8, <2>9, <2>10, <2>11 DEF SentinelInv
<1>6. QED
  BY <1>4, <1>5 DEF Sent!UpdateCandles

LEMMA SendUpdateKeeps ==
  ASSUME Sent!SentinelAssumption, SentinelInv, Sent!SendUpdate
  PROVE  SentinelInv'
<1> DEFINE seq == <<Sent!Last(values)>>
           m == [kind |-> "update", values |-> seq]
<1>0. Sent!TypeOK /\ Idling /\ Ticking /\ AskedOnce /\ AnswerTrue /\ Fresh /\ NoneAhead /\ Clients
  BY DEF SentinelInv
<1>1. /\ unsaid /\ unsaid' = FALSE /\ Sent!Publish(Watchers, "update", seq)
      /\ overlapped' = overlapped \cup ({answering.to} \cap Watchers)
      /\ UNCHANGED <<clock, phase, values, ticked, requests, answering, joined, cache, serverStarts>>
  BY DEF Sent!SendUpdate
<1>2. clock \in Nat /\ values \in Seq(1..clock) /\ values # <<>>
  BY <1>0, <1>1 DEF Sent!TypeOK, Ticking, NoneAhead
<1>3. Sent!Last(values) \in 1..clock
  BY <1>2, LastIs
<1>4. seq \in Seq(1..clock)
  BY <1>3
<1>5. /\ m \in Sent!Messages
      /\ inbox' \in [Watchers -> Seq(Sent!Messages)]
      /\ \A c \in Watchers : inbox'[c] = IF c \in Watchers \cap joined THEN Append(inbox[c], m) ELSE inbox[c]
      /\ \A c \in Watchers : \A k \in 1..Len(inbox'[c]) : inbox'[c][k].values \in Seq(1..clock)
  <2> HIDE DEF seq
  <2>1. QED
    BY <1>0, <1>1, <1>4, PublishedTo
<1>6. m.kind = "update" /\ m.values = seq
  OBVIOUS
<1> HIDE DEF m, seq
<1>7. Sent!TypeOK'
  BY <1>0, <1>1, <1>5 DEF Sent!TypeOK
<1>8. Idling' /\ Ticking'
  BY <1>0, <1>1 DEF Idling, Ticking
<1>9. AskedOnce'
  <2>1. \A k \in 1..Len(requests) : requests[k] \in joined \ overlapped' /\ requests[k] # answering.to
    BY <1>0, <1>1 DEF AskedOnce
  <2>2. overlapped' \subseteq joined
    BY <1>0, <1>1 DEF AskedOnce, Sent!SentinelAssumption
  <2>3. QED
    BY <1>0, <1>1, <2>1, <2>2 DEF AskedOnce
<1>10. AnswerTrue'
  <2>1. answering.to \in Watchers \/ answering.to = "nobody"
    BY <1>0 DEF Sent!TypeOK
  <2>2. QED
    BY <1>0, <1>1, <2>1 DEF AnswerTrue
<1>11. Fresh'
  BY <1>0, <1>1, <1>5 DEF Fresh
<1>12. NoneAhead'
  BY <1>0, <1>1, <1>5 DEF NoneAhead
<1>13. Clients'
  <2>1. SUFFICES ASSUME NEW c \in Watchers
                 PROVE  Served(cache[c], inbox'[c], clock, Due(c, phase, joined, overlapped'), FALSE, values)
    BY <1>1 DEF Clients
  <2>2. inbox[c] \in Seq(Sent!Messages)
    BY <1>0 DEF Sent!TypeOK
  <2>3. Served(cache[c], inbox[c], clock, Due(c, phase, joined, overlapped), TRUE, values)
    BY <1>0, <1>1 DEF Clients
  <2>4. Due(c, phase, joined, overlapped') => Due(c, phase, joined, overlapped)
    BY <1>1 DEF Due
  <2>5. CASE c \in joined
    <3>1. ASSUME NEW x \in Seq(1..clock), UpToDate(x, TRUE, values)
          PROVE  UpToDate(Heard(x, m), FALSE, values)
      BY <1>6, <3>1 DEF UpToDate, Heard, seq
    <3>2. inbox'[c] = Append(inbox[c], m)
      BY <1>5, <2>5
    <3>3. \A x \in Seq(1..clock) :
            ((Due(c, phase, joined, overlapped) => UpToDate(x, TRUE, values)) /\ Due(c, phase, joined, overlapped'))
              => UpToDate(Heard(x, m), FALSE, values)
      BY <2>4, <3>1
    <3>4. m.values \in Seq(1..clock) /\ m \in Sent!Messages
      BY <1>4, <1>5, <1>6
    <3>5. Served(cache[c], Append(inbox[c], m), clock, Due(c, phase, joined, overlapped'), FALSE, values)
      BY <1>2, <2>2, <2>3, <3>3, <3>4, ServedByMessage, Zenon
    <3>6. QED
      BY <3>2, <3>5
  <2>6. CASE c \notin joined
    <3>1. inbox'[c] = inbox[c] /\ ~Due(c, phase, joined, overlapped') /\ Len(inbox[c]) \in Nat
      BY <1>5, <2>2, <2>6, LenProperties DEF Due
    <3>2. QED
      BY <1>2, <2>3, <3>1, ServedStill
  <2>7. QED
    BY <2>5, <2>6
<1>14. QED
  BY <1>7, <1>8, <1>9, <1>10, <1>11, <1>12, <1>13 DEF SentinelInv

LEMMA ReadRequestKeeps ==
  ASSUME Sent!SentinelAssumption, SentinelInv, Sent!ReadRequest
  PROVE  SentinelInv'
<1> DEFINE h == Head(requests)
<1>0. Sent!TypeOK /\ Idling /\ Ticking /\ AskedOnce /\ AnswerTrue /\ Fresh /\ NoneAhead /\ Clients
  BY DEF SentinelInv
<1>1. /\ phase = "listening" /\ requests # <<>> /\ answering = Sent!NoAnswer
      /\ answering' = [to |-> h, values |-> values]
      /\ requests' = Tail(requests)
      /\ overlapped' = (IF unsaid THEN overlapped \cup {h} ELSE overlapped \ {h})
      /\ UNCHANGED <<clock, phase, values, ticked, unsaid, joined, inbox, cache, serverStarts>>
  BY DEF Sent!ReadRequest
<1>2. requests \in Seq(Watchers)
  BY <1>0 DEF Sent!TypeOK
<1>3. /\ h \in Watchers /\ Tail(requests) \in Seq(Watchers) /\ Len(requests) \in Nat \ {0}
      /\ Len(Tail(requests)) = Len(requests) - 1 /\ h = requests[1]
      /\ \A k \in 1..Len(Tail(requests)) : Tail(requests)[k] = requests[k + 1]
  BY <1>1, <1>2, HeadTailProperties, LenProperties, EmptySeq
<1> HIDE DEF h
<1>4. h \in joined /\ h \notin overlapped /\ overlapped \subseteq joined
  BY <1>0, <1>3 DEF AskedOnce
<1>5. ASSUME NEW k \in 1..Len(Tail(requests))
      PROVE  Tail(requests)[k] \in joined \ overlapped /\ Tail(requests)[k] # h
  <2>1. k + 1 \in 1..Len(requests) /\ 1 \in 1..Len(requests) /\ k + 1 # 1
    BY <1>3
  <2>2. QED
    BY <1>0, <1>3, <2>1 DEF AskedOnce
<1>6. ASSUME NEW j \in 1..Len(Tail(requests)), NEW k \in 1..Len(Tail(requests)),
             Tail(requests)[j] = Tail(requests)[k]
      PROVE  j = k
  <2>1. j + 1 \in 1..Len(requests) /\ k + 1 \in 1..Len(requests)
    BY <1>3
  <2>2. requests[j + 1] = requests[k + 1]
    BY <1>3, <1>6
  <2>3. j + 1 = k + 1
    BY <1>0, <2>1, <2>2 DEF AskedOnce
  <2>4. QED
    BY <2>3
<1>7. Sent!TypeOK'
  <2>1. overlapped' \subseteq Watchers
    BY <1>0, <1>1, <1>3 DEF Sent!TypeOK
  <2>2. answering' \in [to : Watchers \cup {"nobody"}, values : Seq(Sent!Candle)]
    BY <1>0, <1>1, <1>3 DEF Sent!TypeOK
  <2>3. QED
    BY <1>0, <1>1, <1>3, <2>1, <2>2 DEF Sent!TypeOK
<1>8. Idling' /\ Ticking'
  BY <1>0, <1>1 DEF Idling, Ticking
<1>9. AskedOnce'
  <2>1. answering'.to = h /\ overlapped' \subseteq joined
    BY <1>1, <1>4
  <2>2. \A k \in 1..Len(Tail(requests)) : Tail(requests)[k] \in joined \ overlapped'
    BY <1>1, <1>5
  <2>3. QED
    BY <1>1, <1>4, <1>5, <1>6, <2>1, <2>2 DEF AskedOnce
<1>10. AnswerTrue'
  <2>1. answering'.to = h /\ answering'.values = values /\ h # "nobody"
    BY <1>1, <1>3 DEF Sent!SentinelAssumption
  <2>2. QED
    BY <1>1, <2>1 DEF AnswerTrue
<1>11. Fresh' /\ NoneAhead'
  BY <1>0, <1>1 DEF Fresh, NoneAhead
<1>12. Clients'
  <2>1. SUFFICES ASSUME NEW c \in Watchers
                 PROVE  Served(cache[c], inbox[c], clock, Due(c, phase, joined, overlapped'), unsaid, values)
    BY <1>1 DEF Clients
  <2>2. Served(cache[c], inbox[c], clock, Due(c, phase, joined, overlapped), unsaid, values)
    BY <1>0 DEF Clients
  <2>3. Due(c, phase, joined, overlapped') => Due(c, phase, joined, overlapped)
    BY <1>1, <1>4 DEF Due
  <2>4. clock \in Nat /\ Len(inbox[c]) \in Nat
    BY <1>0, LenProperties DEF Sent!TypeOK
  <2>5. QED
    BY <2>2, <2>3, <2>4, ServedStill
<1>13. QED
  BY <1>7, <1>8, <1>9, <1>10, <1>11, <1>12 DEF SentinelInv

LEMMA SendSnapshotKeeps ==
  ASSUME Sent!SentinelAssumption, SentinelInv, Sent!SendSnapshot
  PROVE  SentinelInv'
<1> DEFINE to == answering.to
           v == answering.values
           m == [kind |-> "snapshot", values |-> v]
<1>0. Sent!TypeOK /\ Idling /\ Ticking /\ AskedOnce /\ AnswerTrue /\ Fresh /\ NoneAhead /\ Clients
  BY DEF SentinelInv
<1>1. /\ answering # Sent!NoAnswer /\ Sent!Publish({to}, "snapshot", v)
      /\ overlapped' = (IF unsaid THEN overlapped \cup {to} ELSE overlapped)
      /\ answering' = Sent!NoAnswer
      /\ UNCHANGED <<clock, phase, values, ticked, unsaid, requests, joined, cache, serverStarts>>
  BY DEF Sent!SendSnapshot
<1>2. clock \in Nat /\ v \in Seq(1..clock) /\ values \in Seq(1..clock)
  BY <1>0 DEF Sent!TypeOK, NoneAhead
<1>3. /\ m \in Sent!Messages
      /\ inbox' \in [Watchers -> Seq(Sent!Messages)]
      /\ \A c \in Watchers : inbox'[c] = IF c \in {to} \cap joined THEN Append(inbox[c], m) ELSE inbox[c]
      /\ \A c \in Watchers : \A k \in 1..Len(inbox'[c]) : inbox'[c][k].values \in Seq(1..clock)
  <2> HIDE DEF to, v
  <2>1. QED
    BY <1>0, <1>1, <1>2, PublishedTo
<1>4. m.kind = "snapshot" /\ m.values = v
  OBVIOUS
<1>5. to \in joined /\ to \in Watchers /\ (to \notin overlapped /\ ~unsaid => v = values)
  BY <1>0, <1>1 DEF AnswerTrue, AskedOnce, Sent!TypeOK
<1> HIDE DEF m
<1>6. Sent!NoAnswer \in [to : Watchers \cup {"nobody"}, values : Seq(Sent!Candle)] /\ Sent!NoAnswer.to = "nobody"
      /\ Sent!NoAnswer.values = <<>>
  <2>1. <<>> \in Seq(Sent!Candle)
    OBVIOUS
  <2>2. QED
    BY <2>1 DEF Sent!NoAnswer
<1>7. Sent!TypeOK'
  <2>1. overlapped' \subseteq Watchers
    BY <1>0, <1>1, <1>5 DEF Sent!TypeOK
  <2>2. QED
    BY <1>0, <1>1, <1>3, <1>6, <2>1 DEF Sent!TypeOK
<1>8. Idling' /\ Ticking'
  BY <1>0, <1>1 DEF Idling, Ticking
<1>9. AskedOnce'
  <2>1. ASSUME NEW k \in 1..Len(requests)
        PROVE  requests[k] \in joined \ overlapped' /\ requests[k] # "nobody"
    <3>1. requests[k] \in joined \ overlapped /\ requests[k] # to
      BY <1>0 DEF AskedOnce
    <3>2. requests[k] \in Watchers
      BY <1>0, <3>1 DEF Sent!TypeOK
    <3>3. QED
      BY <1>1, <3>1, <3>2 DEF Sent!SentinelAssumption
  <2>2. overlapped' \subseteq joined
    BY <1>0, <1>1, <1>5 DEF AskedOnce
  <2>3. QED
    BY <1>0, <1>1, <1>6, <2>1, <2>2 DEF AskedOnce
<1>10. AnswerTrue'
  BY <1>1 DEF AnswerTrue
<1>11. Fresh'
  BY <1>0, <1>1, <1>3 DEF Fresh
<1>12. NoneAhead'
  <2>1. <<>> \in Seq(1..clock)
    OBVIOUS
  <2>2. QED
    BY <1>0, <1>1, <1>3, <1>6, <2>1 DEF NoneAhead
<1>13. Clients'
  <2>1. SUFFICES ASSUME NEW c \in Watchers
                 PROVE  Served(cache[c], inbox'[c], clock, Due(c, phase, joined, overlapped'), unsaid, values)
    BY <1>1 DEF Clients
  <2>2. inbox[c] \in Seq(Sent!Messages)
    BY <1>0 DEF Sent!TypeOK
  <2>3. Served(cache[c], inbox[c], clock, Due(c, phase, joined, overlapped), unsaid, values)
    BY <1>0 DEF Clients
  <2>4. Due(c, phase, joined, overlapped') => Due(c, phase, joined, overlapped)
    BY <1>1 DEF Due
  <2>5. CASE c = to
    <3>1. ASSUME NEW x \in Seq(1..clock), UpToDate(x, unsaid, values), Due(c, phase, joined, overlapped')
          PROVE  UpToDate(Heard(x, m), unsaid, values)
      <4>1. ~unsaid /\ v = values
        BY <1>1, <1>5, <2>5, <3>1 DEF Due
      <4>2. Heard(x, m) = Sent!OnSnapshot(x, v)
        BY <1>4 DEF Heard
      <4>3. Len(x) \in Nat /\ Len(x) <= Len(values)
        BY <3>1, <4>1, LenProperties DEF UpToDate, Ends
      <4>4. v = <<>> => Len(x) = 0
        BY <4>1, <4>3
      <4>5. UpToDate(Sent!OnSnapshot(x, v), FALSE, v)
        <5> HIDE DEF v
        <5>1. QED
          BY <1>2, <4>4, SnapshotServes
      <4>6. unsaid = FALSE
        BY <1>0, <4>1 DEF Sent!TypeOK
      <4>7. QED
        BY <4>1, <4>2, <4>5, <4>6
    <3>2. inbox'[c] = Append(inbox[c], m)
      BY <1>3, <1>5, <2>5
    <3>3. m.values \in Seq(1..clock)
      BY <1>2, <1>4
    <3> HIDE DEF v, to
    <3>4. QED
      BY <1>2, <1>3, <2>2, <2>3, <2>4, <3>1, <3>2, <3>3, ServedByMessage
  <2>6. CASE c # to
    <3>1. inbox'[c] = inbox[c] /\ Len(inbox[c]) \in Nat
      BY <1>3, <2>2, <2>6, LenProperties
    <3>2. QED
      BY <1>2, <2>3, <2>4, <3>1, ServedStill
  <2>7. QED
    BY <2>5, <2>6
<1>14. QED
  BY <1>7, <1>8, <1>9, <1>10, <1>11, <1>12, <1>13 DEF SentinelInv

LEMMA JoinKeeps ==
  ASSUME Sent!SentinelAssumption, SentinelInv, NEW d \in Watchers, Sent!Join(d)
  PROVE  SentinelInv'
<1>0. Sent!TypeOK /\ Idling /\ Ticking /\ AskedOnce /\ AnswerTrue /\ Fresh /\ NoneAhead /\ Clients
  BY DEF SentinelInv
<1>1. /\ d \notin joined /\ joined' = joined \cup {d}
      /\ requests' = (IF phase = "listening" THEN Append(requests, d) ELSE requests)
      /\ UNCHANGED <<clock, phase, values, ticked, unsaid, answering, inbox, cache, serverStarts,
                     overlapped>>
  BY DEF Sent!Join
<1>2. requests \in Seq(Watchers) /\ Len(requests) \in Nat
  BY <1>0, LenProperties DEF Sent!TypeOK
<1>3. /\ Append(requests, d) \in Seq(Watchers)
      /\ Len(Append(requests, d)) = Len(requests) + 1
      /\ \A k \in 1..Len(requests) : Append(requests, d)[k] = requests[k]
      /\ Append(requests, d)[Len(requests) + 1] = d
  BY <1>2, AppendProperties
<1>4. Sent!TypeOK'
  BY <1>0, <1>1, <1>2, <1>3 DEF Sent!TypeOK
<1>5. Idling' /\ Ticking'
  BY <1>0, <1>1 DEF Idling, Ticking
<1>6. AskedOnce'
  <2>1. d \notin overlapped /\ d # answering.to /\ overlapped \subseteq joined'
    BY <1>0, <1>1 DEF AskedOnce, Sent!SentinelAssumption
  <2>2. \A k \in 1..Len(requests) : requests[k] \in joined' \ overlapped /\ requests[k] # answering.to /\ requests[k] # d
    BY <1>0, <1>1 DEF AskedOnce
  <2>3. answering.to \in joined' \cup {"nobody"}
    BY <1>0, <1>1 DEF AskedOnce
  <2>4. CASE phase = "listening"
    <3> DEFINE r == Append(requests, d)
    <3>1. requests' = r /\ Len(r) = Len(requests) + 1
      BY <1>1, <1>3, <2>4
    <3>2. ASSUME NEW k \in 1..Len(r)
          PROVE  k = Len(requests) + 1 \/ k \in 1..Len(requests)
      BY <1>2, <3>1
    <3>3. ASSUME NEW j \in 1..Len(r), NEW k \in 1..Len(r), r[j] = r[k]
          PROVE  j = k
      <4>1. CASE j \in 1..Len(requests) /\ k \in 1..Len(requests)
        <5>1. requests[j] = requests[k]
          BY <1>3, <3>3, <4>1
        <5>2. QED
          BY <1>0, <4>1, <5>1 DEF AskedOnce
      <4>2. CASE j = Len(requests) + 1 /\ k \in 1..Len(requests)
        BY <1>3, <2>2, <3>3, <4>2
      <4>3. CASE j \in 1..Len(requests) /\ k = Len(requests) + 1
        BY <1>3, <2>2, <3>3, <4>3
      <4>4. QED
        BY <3>2, <4>1, <4>2, <4>3
    <3>4. ASSUME NEW k \in 1..Len(r)
          PROVE  r[k] \in joined' \ overlapped /\ r[k] # answering.to
      <4>1. CASE k = Len(requests) + 1
        BY <1>1, <1>3, <2>1, <4>1
      <4>2. CASE k \in 1..Len(requests)
        BY <1>3, <2>2, <4>2
      <4>3. QED
        BY <3>2, <4>1, <4>2
    <3> HIDE DEF r
    <3>5. QED
      BY <1>1, <2>1, <2>3, <3>1, <3>3, <3>4 DEF AskedOnce
  <2>5. CASE phase # "listening"
    <3>1. requests' = requests
      BY <1>1, <2>5
    <3>2. \A j, k \in 1..Len(requests) : requests[j] = requests[k] => j = k
      BY <1>0 DEF AskedOnce
    <3>3. QED
      BY <1>1, <2>1, <2>2, <2>3, <3>1, <3>2 DEF AskedOnce
  <2>6. QED
    BY <2>4, <2>5
<1>7. AnswerTrue' /\ Fresh' /\ NoneAhead'
  BY <1>0, <1>1 DEF AnswerTrue, Fresh, NoneAhead
<1>8. Clients'
  <2>1. SUFFICES ASSUME NEW c \in Watchers
                 PROVE  Served(cache[c], inbox[c], clock, Due(c, phase, joined', overlapped), unsaid, values)
    BY <1>1 DEF Clients
  <2>2. Served(cache[c], inbox[c], clock, Due(c, phase, joined, overlapped), unsaid, values)
    BY <1>0 DEF Clients
  <2>3. CASE c = d
    <3>1. cache[c] = <<>> /\ inbox[c] = <<>> /\ Len(<<>>) = 0
      BY <1>0, <1>1, <2>3 DEF Fresh
    <3>2. UpToDate(<<>>, unsaid, values)
      <4>1. values \in Seq(1..clock) /\ Len(values) \in Nat /\ MaxLen \in Nat \ {0}
        BY <1>0, LenProperties DEF NoneAhead, Sent!SentinelAssumption
      <4>2. CASE unsaid
        <5>1. values # <<>>
          BY <1>0, <4>2 DEF Ticking
        <5>2. Sent!Last(values) \in 1..clock /\ Ends(<<Sent!Last(values)>>, values)
          BY <4>1, <5>1, LastIs
        <5>3. <<>> \o <<Sent!Last(values)>> = <<Sent!Last(values)>> /\ Len(<<Sent!Last(values)>>) = 1
          OBVIOUS
        <5>4. Sent!OnUpdate(<<>>, <<Sent!Last(values)>>) = <<Sent!Last(values)>>
          BY <4>1, <5>3 DEF Sent!OnUpdate, Sent!Trimmed
        <5>5. QED
          BY <4>2, <5>2, <5>4 DEF UpToDate
      <4>3. CASE ~unsaid
        BY <3>1, <4>1, <4>3 DEF UpToDate, Ends
      <4>4. QED
        BY <4>2, <4>3
    <3> DEFINE f == [k \in 0..0 |-> <<>>]
    <3>3. f \in [0..0 -> Seq(1..clock)] /\ f[0] = <<>>
      OBVIOUS
    <3> HIDE DEF f
    <3>4. Hearings(f, <<>>, <<>>, clock)
      BY <3>1, <3>3 DEF Hearings
    <3>5. QED
      BY <3>1, <3>2, <3>3, <3>4 DEF Served
  <2>4. CASE c # d
    <3>1. Due(c, phase, joined', overlapped) => Due(c, phase, joined, overlapped)
      BY <1>1, <2>4 DEF Due
    <3>2. clock \in Nat /\ Len(inbox[c]) \in Nat
      BY <1>0, LenProperties DEF Sent!TypeOK
    <3>3. QED
      BY <2>2, <3>1, <3>2, ServedStill
  <2>5. QED
    BY <2>3, <2>4
<1>9. QED
  BY <1>4, <1>5, <1>6, <1>7, <1>8 DEF SentinelInv

LEMMA OnSentinelEventKeeps ==
  ASSUME Sent!SentinelAssumption, SentinelInv, NEW d \in Watchers, Sent!OnSentinelEvent(d)
  PROVE  SentinelInv'
<1> DEFINE m == Head(inbox[d])
<1>0. Sent!TypeOK /\ Idling /\ Ticking /\ AskedOnce /\ AnswerTrue /\ Fresh /\ NoneAhead /\ Clients
  BY DEF SentinelInv
<1>1. /\ inbox[d] # <<>>
      /\ inbox' = [inbox EXCEPT ![d] = Tail(inbox[d])]
      /\ cache' = [cache EXCEPT ![d] = Heard(cache[d], m)]
      /\ UNCHANGED <<clock, phase, values, ticked, unsaid, requests, answering, joined,
                     serverStarts, overlapped>>
  BY DEF Sent!OnSentinelEvent, Heard
<1>2. inbox \in [Watchers -> Seq(Sent!Messages)] /\ cache \in [Watchers -> Seq(Sent!Candle)] /\ clock \in Nat
      /\ 1..clock \subseteq Sent!Candle
  BY <1>0 DEF Sent!TypeOK, Sent!Candle, Sent!SentinelAssumption
<1>3. inbox[d] \in Seq(Sent!Messages)
  BY <1>2
<1>4. /\ Tail(inbox[d]) \in Seq(Sent!Messages) /\ Len(inbox[d]) \in Nat \ {0}
      /\ Len(Tail(inbox[d])) = Len(inbox[d]) - 1 /\ m = inbox[d][1]
      /\ \A k \in 1..Len(Tail(inbox[d])) : Tail(inbox[d])[k] = inbox[d][k + 1]
  BY <1>1, <1>3, HeadTailProperties, LenProperties, EmptySeq
<1>5. m.values \in Seq(1..clock)
  BY <1>0, <1>4 DEF NoneAhead
<1>6. cache[d] \in Seq(1..clock)
  <2>1. Served(cache[d], inbox[d], clock, Due(d, phase, joined, overlapped), unsaid, values)
    BY <1>0 DEF Clients
  <2>2. PICK f \in [0..Len(inbox[d]) -> Seq(1..clock)] : Hearings(f, cache[d], inbox[d], clock)
    BY <2>1 DEF Served
  <2>3. 0 \in 0..Len(inbox[d]) /\ f[0] = cache[d]
    BY <1>4, <2>2 DEF Hearings
  <2>4. QED
    BY <2>3
<1> HIDE DEF m
<1>7. Heard(cache[d], m) \in Seq(1..clock)
  BY <1>2, <1>5, <1>6, HeardTyped
<1>8. Sent!TypeOK'
  <2>1. Heard(cache[d], m) \in Seq(Sent!Candle)
    BY <1>2, <1>7, SeqMonotonic
  <2>2. cache' \in [Watchers -> Seq(Sent!Candle)] /\ inbox' \in [Watchers -> Seq(Sent!Messages)]
    BY <1>1, <1>2, <1>4, <2>1
  <2>3. QED
    BY <1>0, <1>1, <2>2 DEF Sent!TypeOK
<1>9. Idling' /\ Ticking' /\ AskedOnce' /\ AnswerTrue'
  BY <1>0, <1>1 DEF Idling, Ticking, AskedOnce, AnswerTrue
<1>10. Fresh'
  BY <1>0, <1>1, <1>2 DEF Fresh
<1>11. NoneAhead'
  <2>1. ASSUME NEW c \in Watchers, NEW k \in 1..Len(inbox'[c])
        PROVE  inbox'[c][k].values \in Seq(1..clock)
    <3>1. CASE c = d
      <4>1. inbox'[c] = Tail(inbox[d])
        BY <1>1, <1>2, <3>1
      <4>2. k + 1 \in 1..Len(inbox[d]) /\ inbox'[c][k] = inbox[d][k + 1]
        BY <1>4, <4>1
      <4>3. QED
        BY <1>0, <4>2 DEF NoneAhead
    <3>2. CASE c # d
      <4>1. inbox'[c] = inbox[c]
        BY <1>1, <1>2, <3>2
      <4>2. QED
        BY <1>0, <4>1 DEF NoneAhead
    <3>3. QED
      BY <3>1, <3>2
  <2>2. QED
    BY <1>0, <1>1, <2>1 DEF NoneAhead
<1>12. Clients'
  <2>1. SUFFICES ASSUME NEW c \in Watchers
                 PROVE  Served(cache'[c], inbox'[c], clock, Due(c, phase, joined, overlapped), unsaid, values)
    BY <1>1 DEF Clients
  <2>2. Served(cache[c], inbox[c], clock, Due(c, phase, joined, overlapped), unsaid, values)
    BY <1>0 DEF Clients
  <2>3. CASE c = d
    <3>1. cache'[c] = Heard(cache[d], Head(inbox[d])) /\ inbox'[c] = Tail(inbox[d])
      BY <1>1, <1>2, <2>3 DEF m
    <3>2. Served(Heard(cache[d], Head(inbox[d])), Tail(inbox[d]), clock,
                 Due(c, phase, joined, overlapped), unsaid, values)
      BY <1>1, <1>2, <1>3, <2>2, <2>3, ServedAfterHearing
    <3>3. QED
      BY <3>1, <3>2
  <2>4. CASE c # d
    BY <1>1, <1>2, <2>2, <2>4
  <2>5. QED
    BY <2>3, <2>4
<1>13. QED
  BY <1>8, <1>9, <1>10, <1>11, <1>12 DEF SentinelInv

LEMMA SentinelStep ==
  ASSUME Sent!SentinelAssumption, SentinelInv, [Sent!Next]_(Sent!vars)
  PROVE  SentinelInv'
<1>1. CASE UNCHANGED Sent!vars
  <2>1. UNCHANGED <<clock, phase, values, ticked, unsaid, requests, answering, joined, inbox, cache,
                    serverStarts, overlapped>>
    BY <1>1 DEF Sent!vars
  <2>2. Sent!TypeOK' /\ Idling' /\ Ticking'
    BY <2>1 DEF SentinelInv, Sent!TypeOK, Idling, Ticking
  <2>3. AskedOnce' /\ AnswerTrue' /\ Fresh' /\ NoneAhead' /\ Clients'
    BY <2>1 DEF SentinelInv, AskedOnce, AnswerTrue, Fresh, NoneAhead, Clients
  <2>4. QED
    BY <2>2, <2>3 DEF SentinelInv
<1>2. QED
  BY <1>1, LoadKeeps, ListenKeeps, KillKeeps, PeriodKeeps, UpdateCandlesKeeps, SendUpdateKeeps,
     ReadRequestKeeps, SendSnapshotKeeps, JoinKeeps, OnSentinelEventKeeps DEF Sent!Next

LEMMA SentinelSafe ==
  ASSUME Sent!SentinelAssumption, SentinelInv
  PROVE  Sent!CacheIsSuffix
<1>1. SUFFICES ASSUME NEW c \in joined \ overlapped, phase # "down", ~unsaid, inbox[c] = <<>>
               PROVE  Sent!IsSuffix(cache[c], values)
  BY DEF Sent!CacheIsSuffix
<1>2. c \in Watchers /\ Due(c, phase, joined, overlapped) /\ Len(<<>>) = 0
  BY <1>1 DEF SentinelInv, Sent!TypeOK, Due
<1>3. PICK f \in [0..Len(inbox[c]) -> Seq(1..clock)] :
        /\ Hearings(f, cache[c], inbox[c], clock)
        /\ Due(c, phase, joined, overlapped) => UpToDate(f[Len(inbox[c])], unsaid, values)
  BY <1>2 DEF SentinelInv, Clients, Served
<1>4. Len(inbox[c]) = 0 /\ f[0] = cache[c] /\ cache[c] \in Seq(1..clock)
  BY <1>1, <1>2, <1>3 DEF Hearings
<1>5. Ends(cache[c], values)
  BY <1>1, <1>2, <1>3, <1>4 DEF UpToDate
<1>6. QED
  BY <1>4, <1>5, EndsSuffix DEF SentinelInv, NoneAhead

\* The component is one of its own in the composition, and rests while another runs.
LEMMA ServicesKeepSentinel ==
  ASSUME ServicesAssumption, SentinelInv, [ServicesNext]_services
  PROVE  SentinelInv'
<1>1. Sent!SentinelAssumption
  BY DEF ServicesAssumption
<1>2. Sent!Next \/ UNCHANGED sent
  BY DEF ServicesNext, services
<1>3. [Sent!Next]_(Sent!vars)
  BY <1>2 DEF sent, Sent!vars
<1>4. QED
  BY <1>1, <1>3, SentinelStep

\* Whenever a client joined and however periods, requests, answers and restarts of the server
\* interleave: a client that heard all has the last values of the server, none missing and none
\* twice, unless the snapshot it asked for met a candle on its way (sentinel_base.py,
\* candle_sentinel.py).
THEOREM ClientsHaveTheEnd == ASSUME ServicesAssumption PROVE ServicesSpec => []CacheIsSuffix
<1>1. ServicesInit => SentinelInv
  BY SentinelInit DEF ServicesInit, ServicesAssumption
<1>2. SentinelInv /\ [ServicesNext]_services => SentinelInv'
  BY ServicesKeepSentinel
<1>3. SentinelInv => CacheIsSuffix
  BY SentinelSafe DEF ServicesAssumption, CacheIsSuffix
<1>4. QED
  BY <1>1, <1>2, <1>3, PTL DEF ServicesSpec

-----------------------------------------------------------------------------
(* The files of the recorder of market data                                   *)
\* The file of an instrument is that of a day not before the day of its last event, ...
FilesFollowDays ==
  \A i \in Instrs : fds[i] # Rec!Closed
       => current_day[i] # Rec!Unset /\ current_day[i] <= fds[i].day

\* ... which is not over, on the host, while the file's buffer has rows.
BuffersFresh == \A i \in Instrs : fds[i].buffer # {} => current_day[i] >= Rec!Local(now - 1)

\* What the job has removed, has read or has compressed is of days that are over.
RemovedOver ==
  \A i \in Instrs : fds[i].removed => fds[i].buffer = {} /\ fds[i].day < Rec!Local(now - 1)

LoadedOver ==
  loaded # Rec!Idle =>
    /\ loaded.day = Rec!Yesterday /\ (now + zone) % 2 = 1
    /\ csv[loaded.day] = loaded.rows /\ parquet[loaded.day] = {}

CompressedOver == \A d \in Rec!Days : parquet[d] # {} => csv[d] = {} /\ d < Rec!Local(now - 1)

OnDisk(x) == \E d \in Rec!Days : x \in csv[d] \/ x \in parquet[d]
InBuffer(x) == \E i \in Instrs : x \in fds[i].buffer /\ ~fds[i].removed

RowsSomewhere == \A x \in 1..recorded : OnDisk(x) \/ InBuffer(x) \/ x \in dropped

RecorderInv ==
  /\ Rec!TypeOK
  /\ \A i \in Instrs : fds[i].buffer \subseteq 1..recorded
       /\ (fds[i].day = -1 => fds[i] = Rec!Closed)
  /\ loaded # Rec!Idle => loaded.day \in Rec!Days
  /\ zone <= 0 /\ ~died =>
       /\ flusher /\ FilesFollowDays /\ BuffersFresh /\ RemovedOver /\ LoadedOver
       /\ CompressedOver /\ RowsSomewhere

USE DEF Rec!FirstMoment, Rec!Unset

\* Days of half days that follow each other
LEMMA HalfDays ==
  ASSUME NEW n \in Int
  PROVE  /\ n \div 2 \in Int
         /\ (n - 1) \div 2 \in Int
         /\ (n - 1) \div 2 <= n \div 2
         /\ n \div 2 <= (n - 1) \div 2 + 1
         /\ n % 2 = 1 => (n - 1) \div 2 = n \div 2
  OBVIOUS

LEMMA DaysMonotone ==
  ASSUME NEW m \in Int, NEW n \in Int, m <= n
  PROVE  m \div 2 <= n \div 2
  OBVIOUS

\* A file is closed when it looks so.
LEMMA ClosedFile ==
  ASSUME NEW f \in [day : Rec!Days \cup {-1}, removed : BOOLEAN,
       buffer : SUBSET (1..MaxRows)],
         f.day = -1, ~f.removed, f.buffer = {}
  PROVE  f = Rec!Closed
  BY DEF Rec!Closed

LEMMA RecorderInit == ASSUME Rec!RecorderAssumption, Rec!Init PROVE RecorderInv
<1>1. Rec!TypeOK
  <2>1. Rec!Closed \in [day : Rec!Days \cup {-1}, removed : BOOLEAN,
          buffer : SUBSET (1..MaxRows)]
    BY DEF Rec!Closed
  <2>2. Rec!Idle \in [day : Rec!Days \cup {-1}, rows : SUBSET (1..MaxRows)]
    BY DEF Rec!Idle
  <2>3. now \in Rec!FirstMoment..(Rec!FirstMoment + MaxTime) /\ zone \in Zones
    BY DEF Rec!RecorderAssumption, Rec!Init
  <2>4. recorded \in 0..MaxRows /\ dropped \subseteq 1..recorded /\ kills \in 0..MaxKills
    BY DEF Rec!RecorderAssumption, Rec!Init
  <2>5. QED
    BY <2>1, <2>2, <2>3, <2>4 DEF Rec!Init, Rec!TypeOK
<1>2. \A i \in Instrs : fds[i] = Rec!Closed /\ fds[i].buffer = {} /\ ~fds[i].removed
  BY DEF Rec!Init, Rec!Closed
<1>3. recorded = 0 /\ loaded = Rec!Idle /\ flusher /\ \A d \in Rec!Days : parquet[d] = {}
  BY DEF Rec!Init
<1>4. QED
  BY <1>1, <1>2, <1>3 DEF RecorderInv, FilesFollowDays, BuffersFresh, RemovedOver, LoadedOver,
     CompressedOver, RowsSomewhere

\* What is on disk when some files are flushed
LEMMA FlushedHas ==
  ASSUME NEW C, NEW d \in Rec!Days, NEW x
  PROVE  x \in Rec!Flushed(C)[d] <=>
           x \in csv[d] \/ \E g \in C : g.day = d /\ ~g.removed /\ x \in g.buffer
  BY DEF Rec!Flushed

LEMMA FlushedTyped ==
  ASSUME Rec!TypeOK, NEW C, \A g \in C : g.buffer \subseteq 1..MaxRows
  PROVE  Rec!Flushed(C) \in [Rec!Days -> SUBSET (1..MaxRows)]
<1>1. ASSUME NEW d \in Rec!Days PROVE Rec!Flushed(C)[d] \subseteq 1..MaxRows
  <2>1. csv[d] \subseteq 1..MaxRows
    BY DEF Rec!TypeOK
  <2>2. QED
    BY <2>1, FlushedHas
<1>2. Rec!Flushed(C) = [d \in Rec!Days |-> Rec!Flushed(C)[d]]
  BY DEF Rec!Flushed
<1>3. QED
  BY <1>1, <1>2

\* The days of an event
LEMMA EventDays ==
  ASSUME Rec!RecorderAssumption, Rec!TypeOK, NEW late \in {0, 1}
  PROVE  /\ Rec!Local(now - late) \in Rec!Days /\ Rec!Day(now) \in Rec!Days
         /\ Rec!Local(now - 1) <= Rec!Local(now - late)
         /\ Rec!Local(now - 1) \in Int /\ Rec!Local(now) \in Int
         /\ Rec!Local(now) - 1 \in Rec!Days
         /\ zone <= 0 => Rec!Local(now - late) <= Rec!Day(now)
<1>1. now \in Int /\ zone \in {-1, 0, 1} /\ now >= 4 /\ now <= 4 + MaxTime /\ MaxTime \in Nat
  BY DEF Rec!RecorderAssumption, Rec!TypeOK
<1>2. Rec!Local(now - late) \in Rec!Days /\ Rec!Day(now) \in Rec!Days
        /\ Rec!Local(now) - 1 \in Rec!Days
  BY <1>1 DEF Rec!Local, Rec!Day, Rec!Days
<1>3. Rec!Local(now - 1) <= Rec!Local(now - late)
  BY <1>1 DEF Rec!Local
<1>4. zone <= 0 => Rec!Local(now - late) <= Rec!Day(now)
  BY <1>1 DEF Rec!Local, Rec!Day
<1>5. Rec!Local(now - 1) \in Int /\ Rec!Local(now) \in Int
  BY <1>1 DEF Rec!Local
<1>6. QED
  BY <1>2, <1>3, <1>4, <1>5

LEMMA RecorderWrites ==
  ASSUME Rec!RecorderAssumption, RecorderInv, NEW i \in Instrs, NEW late \in {0, 1},
         Rec!OnAnyEvent(i, now - late)
  PROVE  RecorderInv'
<1> DEFINE t == now - late
           changed == Rec!DayOf(i) # Rec!Local(t)
           fd == IF changed \/ fds[i] = Rec!Closed THEN Rec!OpenFd ELSE fds[i]
<1>1. /\ Rec!TypeOK
      /\ \A j \in Instrs : fds[j].buffer \subseteq 1..recorded
           /\ (fds[j].day = -1 => fds[j] = Rec!Closed)
      /\ loaded # Rec!Idle => loaded.day \in Rec!Days
  BY DEF RecorderInv
<1>2. /\ current_day' = [current_day EXCEPT ![i] = Rec!Local(t)] /\ recorded < MaxRows
      /\ UNCHANGED <<now, zone, parquet, loaded, dropped, kills>>
  BY DEF Rec!OnAnyEvent
<1>3. /\ Rec!Local(t) \in Rec!Days /\ Rec!Day(now) \in Rec!Days
        /\ Rec!Local(now - 1) <= Rec!Local(t)
      /\ Rec!Local(now - 1) \in Int /\ Rec!Local(t) \in Int
      /\ zone <= 0 => Rec!Local(t) <= Rec!Day(now)
  BY <1>1, EventDays DEF Rec!Days
<1>4. recorded \in Nat /\ MaxRows \in Nat /\ recorded + 1 \in 1..MaxRows
  BY <1>1, <1>2 DEF Rec!TypeOK, Rec!RecorderAssumption
<1>5. Rec!Local(now - 1)' = Rec!Local(now - 1) /\ Rec!Yesterday' = Rec!Yesterday
        /\ (now + zone)' = now + zone
  BY <1>2 DEF Rec!Local, Rec!Yesterday
<1>6. CASE changed /\ fds[i] = Rec!Closed /\ UNCHANGED <<fds, flusher, csv, recorded, died>>
  <2>1. Rec!TypeOK'
    BY <1>1, <1>2, <1>3, <1>6 DEF Rec!TypeOK
  <2>2. ASSUME zone' <= 0, ~died'
        PROVE  (/\ flusher /\ FilesFollowDays /\ BuffersFresh /\ RemovedOver /\ LoadedOver
                /\ CompressedOver /\ RowsSomewhere)'
    <3>1. /\ flusher /\ FilesFollowDays /\ BuffersFresh /\ RemovedOver /\ LoadedOver
          /\ CompressedOver /\ RowsSomewhere
      BY <1>2, <1>6, <2>2 DEF RecorderInv
    <3>2. fds[i].buffer = {}
      BY <1>6 DEF Rec!Closed
    <3>3. \A j \in Instrs \ {i} : current_day'[j] = current_day[j]
      BY <1>1, <1>2 DEF Rec!TypeOK
    <3>4. FilesFollowDays' /\ BuffersFresh'
      BY <1>5, <1>6, <3>1, <3>2, <3>3 DEF FilesFollowDays, BuffersFresh
    <3>5. RemovedOver' /\ LoadedOver' /\ CompressedOver'
      BY <1>2, <1>5, <1>6, <3>1 DEF RemovedOver, LoadedOver, CompressedOver
    <3>6. RowsSomewhere' /\ flusher'
      BY <1>2, <1>6, <3>1 DEF RowsSomewhere, OnDisk, InBuffer
    <3>7. QED
      BY <3>4, <3>5, <3>6
  <2>3. QED
    BY <1>1, <1>2, <1>6, <2>1, <2>2 DEF RecorderInv
<1>7. CASE /\ changed => fds[i] # Rec!Closed
           /\ recorded' = recorded + 1
           /\ fds' = [fds EXCEPT ![i] = [fd EXCEPT !.buffer = @ \cup {recorded'}]]
           /\ csv' = IF changed THEN Rec!Flushed({fds[i]}) ELSE csv
           /\ \/ UNCHANGED <<flusher, died>>
              \/ (changed \/ fds[i] = Rec!Closed) /\ flusher' = FALSE /\ died' = TRUE
  <2>1. /\ fd \in [day : Rec!Days \cup {-1}, removed : BOOLEAN, buffer : SUBSET (1..MaxRows)]
        /\ fd.buffer \subseteq 1..recorded /\ fd.day \in Rec!Days
        /\ changed \/ fds[i] = Rec!Closed
             => fd.day = Rec!Day(now) /\ fd.buffer = {} /\ ~fd.removed
    <3>1. CASE changed \/ fds[i] = Rec!Closed
      BY <1>3, <3>1 DEF Rec!OpenFd
    <3>2. CASE ~changed /\ fds[i] # Rec!Closed
      <4>1. fd = fds[i]
        BY <3>2
      <4>2. QED
        BY <1>1, <3>2, <4>1 DEF Rec!TypeOK
    <3>3. QED
      BY <3>1, <3>2
  <2>2. /\ fds'[i].day = fd.day /\ fds'[i].removed = fd.removed
        /\ fds'[i].buffer = fd.buffer \cup {recorded + 1}
        /\ fds'[i] \in [day : Rec!Days \cup {-1}, removed : BOOLEAN,
             buffer : SUBSET (1..MaxRows)]
    <3> HIDE DEF fd
    <3>1. fds'[i] = [fd EXCEPT !.buffer = @ \cup {recorded + 1}]
      BY <1>1, <1>7 DEF Rec!TypeOK
    <3>2. QED
      BY <1>4, <2>1, <3>1
  <2>3. \A j \in Instrs \ {i} : fds'[j] = fds[j] /\ current_day'[j] = current_day[j]
    BY <1>1, <1>2, <1>7 DEF Rec!TypeOK
  <2>4. current_day'[i] = Rec!Local(t)
    BY <1>1, <1>2 DEF Rec!TypeOK
  <2>5. \A j \in Instrs : fds[j].buffer \subseteq 1..MaxRows
    BY <1>1 DEF Rec!TypeOK
  <2>6. Rec!TypeOK'
    <3>1. csv' \in [Rec!Days -> SUBSET (1..MaxRows)]
      BY <1>1, <1>7, <2>5, FlushedTyped DEF Rec!TypeOK
    <3>2. fds' \in [Instrs -> [day : Rec!Days \cup {-1}, removed : BOOLEAN,
            buffer : SUBSET (1..MaxRows)]]
      BY <1>1, <1>7, <2>2, <2>3 DEF Rec!TypeOK
    <3>3. current_day' \in [Instrs -> Rec!Days \cup {Rec!Unset}]
      BY <1>1, <1>2, <1>3 DEF Rec!TypeOK
    <3>4. recorded' \in 0..MaxRows /\ dropped' \subseteq 1..recorded'
      BY <1>1, <1>2, <1>4, <1>7 DEF Rec!TypeOK
    <3>5. flusher' \in BOOLEAN /\ died' \in BOOLEAN
      BY <1>1, <1>7 DEF Rec!TypeOK
    <3>6. QED
      BY <1>1, <1>2, <3>1, <3>2, <3>3, <3>4, <3>5 DEF Rec!TypeOK
  <2>7. \A j \in Instrs : fds'[j].buffer \subseteq 1..recorded'
          /\ (fds'[j].day = -1 => fds'[j] = Rec!Closed)
    <3>1. ASSUME NEW j \in Instrs, j # i
          PROVE  fds'[j].buffer \subseteq 1..recorded'
               /\ (fds'[j].day = -1 => fds'[j] = Rec!Closed)
      <4>1. fds[j].buffer \subseteq 1..recorded
        BY <1>1
      <4>2. QED
        BY <1>1, <1>4, <1>7, <2>3, <3>1, <4>1
    <3>2. fds'[i].buffer \subseteq 1..recorded' /\ fds'[i].day # -1
      BY <1>4, <1>7, <2>1, <2>2 DEF Rec!Days
    <3>3. QED
      BY <3>1, <3>2
  <2>8. ASSUME zone' <= 0, ~died'
        PROVE  (/\ flusher /\ FilesFollowDays /\ BuffersFresh /\ RemovedOver /\ LoadedOver
                /\ CompressedOver /\ RowsSomewhere)'
    <3>1. zone <= 0 /\ ~died /\ flusher'= flusher
      BY <1>2, <1>7, <2>8
    <3>2. /\ flusher /\ FilesFollowDays /\ BuffersFresh /\ RemovedOver /\ LoadedOver
          /\ CompressedOver /\ RowsSomewhere
      BY <3>1 DEF RecorderInv
    <3>3. Rec!Local(t) <= fd.day
      <4>1. CASE changed \/ fds[i] = Rec!Closed
        BY <1>3, <2>1, <3>1, <4>1
      <4>2. CASE ~changed /\ fds[i] # Rec!Closed
        <5>1. current_day[i] <= fds[i].day /\ current_day[i] # Rec!Unset /\ fd = fds[i]
          BY <3>2, <4>2 DEF FilesFollowDays
        <5>2. Rec!DayOf(i) = current_day[i]
          BY <5>1 DEF Rec!DayOf
        <5>3. QED
          BY <4>2, <5>1, <5>2
      <4>3. QED
        BY <4>1, <4>2
    <3>4. ~fd.removed
      <4>1. CASE changed \/ fds[i] = Rec!Closed
        BY <2>1, <4>1
      <4>2. CASE ~changed /\ fds[i] # Rec!Closed
        <5>1. fd = fds[i]
          BY <4>2
        <5>2. fds[i].removed => fds[i].day < Rec!Local(now - 1)
          BY <3>2 DEF RemovedOver
        <5>3. fd.day \in Int
          BY <2>1 DEF Rec!Days
        <5>4. QED
          BY <1>3, <3>3, <5>1, <5>2, <5>3
      <4>3. QED
        BY <4>1, <4>2
    <3>5. FilesFollowDays'
      BY <1>3, <2>2, <2>3, <2>4, <3>2, <3>3 DEF FilesFollowDays, Rec!Days
    <3>6. BuffersFresh'
      BY <1>3, <1>5, <2>3, <2>4, <3>2 DEF BuffersFresh
    <3>7. RemovedOver'
      BY <1>5, <2>2, <2>3, <3>2, <3>4 DEF RemovedOver
    <3>8. ASSUME NEW d \in Rec!Days, d < Rec!Local(now - 1) PROVE csv'[d] = csv[d]
      <4>1. CASE changed
        <5>1. fds[i].buffer = {} \/ fds[i].day # d
          <6>1. SUFFICES ASSUME fds[i].buffer # {} PROVE fds[i].day # d
            OBVIOUS
          <6>2. fds[i] # Rec!Closed
            BY <6>1 DEF Rec!Closed
          <6>3. current_day[i] >= Rec!Local(now - 1) /\ current_day[i] <= fds[i].day
            BY <3>2, <6>1, <6>2 DEF BuffersFresh, FilesFollowDays
          <6>4. current_day[i] \in Int /\ fds[i].day \in Int /\ d \in Int
            BY <1>1 DEF Rec!TypeOK, Rec!Days
          <6>5. QED
            BY <1>3, <3>8, <6>3, <6>4
        <5>2. \A x : x \in csv'[d] <=> x \in csv[d]
          BY <1>7, <4>1, <5>1, FlushedHas
        <5>3. csv'[d] \subseteq 1..MaxRows /\ csv[d] \subseteq 1..MaxRows
          BY <1>1, <2>6 DEF Rec!TypeOK
        <5>4. QED
          BY <5>2, <5>3
      <4>2. CASE ~changed
        BY <1>7, <4>2
      <4>3. QED
        BY <4>1, <4>2
    <3>9. LoadedOver'
      <4>1. SUFFICES ASSUME loaded # Rec!Idle PROVE LoadedOver'
        BY <1>2 DEF LoadedOver
      <4>2. loaded.day = Rec!Yesterday /\ (now + zone) % 2 = 1
        BY <3>2, <4>1 DEF LoadedOver
      <4>3. Rec!Yesterday \in Rec!Days /\ Rec!Yesterday < Rec!Local(now - 1)
        <5>1. now \in Int /\ zone \in Int
          BY <1>1 DEF Rec!TypeOK, Rec!RecorderAssumption
        <5>2. Rec!Local(now - 1) = Rec!Local(now)
          BY <4>2, <5>1, HalfDays DEF Rec!Local
        <5>3. QED
          BY <1>1, <1>3, <5>2, EventDays DEF Rec!Yesterday
      <4>4. csv'[loaded.day] = csv[loaded.day]
        BY <3>8, <4>2, <4>3
      <4>5. QED
        BY <1>2, <1>5, <3>2, <4>1, <4>4 DEF LoadedOver
    <3>10. CompressedOver'
      <4>1. ASSUME NEW d \in Rec!Days, parquet'[d] # {}
            PROVE  csv'[d] = {} /\ d < Rec!Local(now - 1)'
        <5>1. csv[d] = {} /\ d < Rec!Local(now - 1)
          BY <1>2, <3>2, <4>1 DEF CompressedOver
        <5>2. QED
          BY <1>5, <3>8, <5>1
      <4>2. QED
        BY <4>1 DEF CompressedOver
    <3>11. RowsSomewhere'
      <4>1. ASSUME NEW x \in 1..recorded' PROVE OnDisk(x)' \/ InBuffer(x)' \/ x \in dropped'
        <5>1. CASE x = recorded + 1
          BY <2>2, <3>4, <5>1 DEF InBuffer
        <5>2. CASE x # recorded + 1 /\ OnDisk(x)
          <6>1. PICK d \in Rec!Days : x \in csv[d] \/ x \in parquet[d]
            BY <5>2 DEF OnDisk
          <6>2. x \in csv[d] => x \in csv'[d]
            BY <1>7, FlushedHas
          <6>3. QED
            BY <1>2, <6>1, <6>2 DEF OnDisk
        <5>3. CASE x # recorded + 1 /\ InBuffer(x)
          <6>1. PICK j \in Instrs : x \in fds[j].buffer /\ ~fds[j].removed
            BY <5>3 DEF InBuffer
          <6>2. CASE j # i
            BY <2>3, <6>1, <6>2 DEF InBuffer
          <6>3. CASE j = i /\ ~changed
            <7>1. fds[i] # Rec!Closed
              BY <6>1, <6>3 DEF Rec!Closed
            <7>2. fd = fds[i]
              BY <6>3, <7>1
            <7>3. QED
              BY <2>2, <6>1, <6>3, <7>2 DEF InBuffer
          <6>4. CASE j = i /\ changed
            <7>1. fds[i] # Rec!Closed
              BY <6>1, <6>4 DEF Rec!Closed
            <7>2. fds[i].day \in Rec!Days
              BY <1>1, <7>1 DEF Rec!TypeOK
            <7>3. x \in csv'[fds[i].day]
              BY <1>7, <6>1, <6>4, <7>2, FlushedHas
            <7>4. QED
              BY <7>2, <7>3 DEF OnDisk
          <6>5. QED
            BY <6>2, <6>3, <6>4
        <5>4. CASE x \in dropped
          BY <1>2, <5>4
        <5>5. QED
          <6>1. x = recorded + 1 \/ x \in 1..recorded
            BY <1>4, <1>7, <4>1
          <6>2. QED
            BY <3>2, <5>1, <5>2, <5>3, <5>4, <6>1 DEF RowsSomewhere
      <4>2. QED
        BY <4>1 DEF RowsSomewhere
    <3>12. QED
      BY <3>1, <3>2, <3>5, <3>6, <3>7, <3>9, <3>10, <3>11
  <2>9. QED
    BY <1>1, <1>2, <2>6, <2>7, <2>8 DEF RecorderInv
<1>8. QED
  BY <1>6, <1>7 DEF Rec!OnAnyEvent

LEMMA RecorderFlushes == ASSUME Rec!RecorderAssumption, RecorderInv, Rec!FlushFds
  PROVE RecorderInv'
<1>1. /\ Rec!TypeOK
      /\ \A j \in Instrs : fds[j].buffer \subseteq 1..recorded
           /\ (fds[j].day = -1 => fds[j] = Rec!Closed)
      /\ loaded # Rec!Idle => loaded.day \in Rec!Days
  BY DEF RecorderInv
<1>2. /\ csv' = Rec!Flushed(Rec!Range(fds))
      /\ fds' = [i \in Instrs |-> [fds[i] EXCEPT !.buffer = {}]]
      /\ UNCHANGED <<now, zone, current_day, flusher, parquet, loaded, recorded, dropped,
           kills, died>>
  BY DEF Rec!FlushFds
<1>3. \A i \in Instrs : /\ fds'[i].day = fds[i].day /\ fds'[i].removed = fds[i].removed
                        /\ fds'[i].buffer = {}
                        /\ fds'[i] \in [day : Rec!Days \cup {-1}, removed : BOOLEAN,
                             buffer : SUBSET (1..MaxRows)]
  BY <1>1, <1>2 DEF Rec!TypeOK
<1>4. \A i \in Instrs : fds[i] = Rec!Closed => fds'[i] = Rec!Closed
  <2>1. SUFFICES ASSUME NEW i \in Instrs, fds[i] = Rec!Closed PROVE fds'[i] = Rec!Closed
    OBVIOUS
  <2>2. fds'[i].day = -1 /\ ~fds'[i].removed /\ fds'[i].buffer = {}
    BY <1>3, <2>1 DEF Rec!Closed
  <2>3. QED
    BY <1>3, <2>2, ClosedFile
<1>5. \A g \in Rec!Range(fds) : g.buffer \subseteq 1..MaxRows
  BY <1>1 DEF Rec!TypeOK, Rec!Range
<1>6. Rec!TypeOK'
  <2>1. csv' \in [Rec!Days -> SUBSET (1..MaxRows)]
    BY <1>1, <1>2, <1>5, FlushedTyped
  <2>2. fds' \in [Instrs -> [day : Rec!Days \cup {-1}, removed : BOOLEAN,
          buffer : SUBSET (1..MaxRows)]]
    BY <1>2, <1>3
  <2>3. QED
    BY <1>1, <1>2, <2>1, <2>2 DEF Rec!TypeOK
<1>7. Rec!Local(now - 1)' = Rec!Local(now - 1) /\ Rec!Yesterday' = Rec!Yesterday
        /\ (now + zone)' = now + zone
  BY <1>2 DEF Rec!Local, Rec!Yesterday
<1>8. ASSUME zone' <= 0, ~died'
      PROVE  (/\ flusher /\ FilesFollowDays /\ BuffersFresh /\ RemovedOver /\ LoadedOver
              /\ CompressedOver /\ RowsSomewhere)'
  <2>1. /\ flusher /\ FilesFollowDays /\ BuffersFresh /\ RemovedOver /\ LoadedOver
        /\ CompressedOver /\ RowsSomewhere
    BY <1>2, <1>8 DEF RecorderInv
  <2>2. FilesFollowDays' /\ BuffersFresh'
    BY <1>2, <1>3, <1>4, <2>1 DEF FilesFollowDays, BuffersFresh
  <2>3. RemovedOver'
    BY <1>3, <1>7, <2>1 DEF RemovedOver
  <2>4. ASSUME NEW d \in Rec!Days, d < Rec!Local(now - 1) PROVE csv'[d] = csv[d]
    <3>1. ASSUME NEW g \in Rec!Range(fds), g.day = d PROVE g.buffer = {}
      <4>1. PICK i \in Instrs : g = fds[i]
        BY <1>1 DEF Rec!TypeOK, Rec!Range
      <4>2. SUFFICES ASSUME fds[i].buffer # {} PROVE FALSE
        BY <4>1
      <4>3. current_day[i] >= Rec!Local(now - 1) /\ current_day[i] <= fds[i].day
        BY <2>1, <4>2 DEF BuffersFresh, FilesFollowDays, Rec!Closed
      <4>4. current_day[i] \in Int /\ fds[i].day = d /\ d \in Int
              /\ Rec!Local(now - 1) \in Int
        BY <1>1, <3>1, <4>1, EventDays DEF Rec!TypeOK, Rec!Days
      <4>5. QED
        BY <2>4, <4>3, <4>4
    <3>2. \A x : x \in csv'[d] <=> x \in csv[d]
      BY <1>2, <3>1, FlushedHas
    <3>3. csv'[d] \subseteq 1..MaxRows /\ csv[d] \subseteq 1..MaxRows
      BY <1>1, <1>6 DEF Rec!TypeOK
    <3>4. QED
      BY <3>2, <3>3
  <2>5. LoadedOver'
    <3>1. SUFFICES ASSUME loaded # Rec!Idle PROVE LoadedOver'
      BY <1>2 DEF LoadedOver
    <3>2. loaded.day = Rec!Yesterday /\ (now + zone) % 2 = 1
      BY <2>1, <3>1 DEF LoadedOver
    <3>3. Rec!Yesterday \in Rec!Days /\ Rec!Yesterday < Rec!Local(now - 1)
      <4>1. now \in Int /\ zone \in Int
        BY <1>1 DEF Rec!TypeOK, Rec!RecorderAssumption
      <4>2. Rec!Local(now - 1) = Rec!Local(now)
        BY <3>2, <4>1, HalfDays DEF Rec!Local
      <4>3. QED
        BY <1>1, <4>2, EventDays DEF Rec!Yesterday
    <3>4. csv'[loaded.day] = csv[loaded.day]
      BY <2>4, <3>2, <3>3
    <3>5. QED
      BY <1>2, <1>7, <2>1, <3>1, <3>4 DEF LoadedOver
  <2>6. CompressedOver'
    <3>1. ASSUME NEW d \in Rec!Days, parquet'[d] # {}
          PROVE  csv'[d] = {} /\ d < Rec!Local(now - 1)'
      <4>1. csv[d] = {} /\ d < Rec!Local(now - 1)
        BY <1>2, <2>1, <3>1 DEF CompressedOver
      <4>2. QED
        BY <1>7, <2>4, <4>1
    <3>2. QED
      BY <3>1 DEF CompressedOver
  <2>7. RowsSomewhere'
    <3>1. ASSUME NEW x \in 1..recorded PROVE OnDisk(x)' \/ x \in dropped'
      <4>1. CASE OnDisk(x)
        <5>1. PICK d \in Rec!Days : x \in csv[d] \/ x \in parquet[d]
          BY <4>1 DEF OnDisk
        <5>2. x \in csv[d] => x \in csv'[d]
          BY <1>2, FlushedHas
        <5>3. QED
          BY <1>2, <5>1, <5>2 DEF OnDisk
      <4>2. CASE InBuffer(x)
        <5>1. PICK j \in Instrs : x \in fds[j].buffer /\ ~fds[j].removed
          BY <4>2 DEF InBuffer
        <5>2. fds[j] # Rec!Closed
          BY <5>1 DEF Rec!Closed
        <5>3. fds[j].day \in Rec!Days /\ fds[j] \in Rec!Range(fds)
          BY <1>1, <5>2 DEF Rec!TypeOK, Rec!Range
        <5>4. x \in csv'[fds[j].day]
          BY <1>2, <5>1, <5>3, FlushedHas
        <5>5. QED
          BY <5>3, <5>4 DEF OnDisk
      <4>3. QED
        BY <1>2, <2>1, <4>1, <4>2 DEF RowsSomewhere
    <3>2. QED
      BY <1>2, <3>1 DEF RowsSomewhere
  <2>8. QED
    BY <1>2, <2>1, <2>2, <2>3, <2>5, <2>6, <2>7
<1>9. QED
  <2>1. \A j \in Instrs : fds'[j].buffer \subseteq 1..recorded'
          /\ (fds'[j].day = -1 => fds'[j] = Rec!Closed)
    BY <1>1, <1>3, <1>4
  <2>2. QED
    BY <1>1, <1>2, <1>6, <1>8, <2>1 DEF RecorderInv

LEMMA RecorderKilled == ASSUME Rec!RecorderAssumption, RecorderInv, Rec!KillAndStart
  PROVE RecorderInv'
<1>1. /\ Rec!TypeOK
      /\ \A j \in Instrs : fds[j].buffer \subseteq 1..recorded
      /\ loaded # Rec!Idle => loaded.day \in Rec!Days
  BY DEF RecorderInv
<1>2. /\ fds' = [i \in Instrs |-> Rec!Closed] /\ flusher' = TRUE
      /\ current_day' = [i \in Instrs |-> Rec!Unset]
      /\ dropped' = dropped \cup UNION {fds[i].buffer : i \in Instrs}
      /\ kills < MaxKills /\ kills' = kills + 1
      /\ UNCHANGED <<now, zone, csv, parquet, loaded, recorded, died>>
  BY DEF Rec!KillAndStart
<1>3. \A i \in Instrs : fds'[i] = Rec!Closed /\ fds'[i].buffer = {} /\ ~fds'[i].removed
  BY <1>2 DEF Rec!Closed
<1>4. Rec!TypeOK'
  <2>1. Rec!Closed \in [day : Rec!Days \cup {-1}, removed : BOOLEAN,
          buffer : SUBSET (1..MaxRows)]
    BY DEF Rec!Closed
  <2>2. dropped' \subseteq 1..recorded'
    <3>1. \A i \in Instrs : fds[i].buffer \subseteq 1..recorded
      BY <1>1
    <3>2. dropped \subseteq 1..recorded
      BY <1>1 DEF Rec!TypeOK
    <3>3. QED
      BY <1>2, <3>1, <3>2
  <2>3. kills' \in 0..MaxKills
    BY <1>1, <1>2 DEF Rec!TypeOK, Rec!RecorderAssumption
  <2>4. QED
    BY <1>1, <1>2, <2>1, <2>2, <2>3 DEF Rec!TypeOK
<1>5. Rec!Local(now - 1)' = Rec!Local(now - 1) /\ Rec!Yesterday' = Rec!Yesterday
        /\ (now + zone)' = now + zone
  BY <1>2 DEF Rec!Local, Rec!Yesterday
<1>6. ASSUME zone' <= 0, ~died'
      PROVE  (/\ flusher /\ FilesFollowDays /\ BuffersFresh /\ RemovedOver /\ LoadedOver
              /\ CompressedOver /\ RowsSomewhere)'
  <2>1. LoadedOver /\ CompressedOver /\ RowsSomewhere
    BY <1>2, <1>6 DEF RecorderInv
  <2>2. FilesFollowDays' /\ BuffersFresh' /\ RemovedOver'
    BY <1>3 DEF FilesFollowDays, BuffersFresh, RemovedOver
  <2>3. LoadedOver' /\ CompressedOver'
    BY <1>2, <1>5, <2>1 DEF LoadedOver, CompressedOver
  <2>4. RowsSomewhere'
    BY <1>2, <2>1 DEF RowsSomewhere, OnDisk, InBuffer
  <2>5. QED
    BY <1>2, <2>2, <2>3, <2>4
<1>7. QED
  <2>1. \A j \in Instrs : fds'[j].buffer \subseteq 1..recorded'
          /\ (fds'[j].day = -1 => fds'[j] = Rec!Closed)
    BY <1>3
  <2>2. QED
    BY <1>1, <1>2, <1>4, <1>6, <2>1 DEF RecorderInv

\* The day the job takes is over where the recorder writes.
LEMMA YesterdayIsOver ==
  ASSUME Rec!RecorderAssumption, Rec!TypeOK, (now + zone) % 2 = 1
  PROVE  Rec!Yesterday \in Rec!Days /\ Rec!Yesterday < Rec!Local(now - 1)
<1>1. now \in Int /\ zone \in Int
  BY DEF Rec!TypeOK, Rec!RecorderAssumption
<1>2. Rec!Local(now - 1) = Rec!Local(now)
  BY <1>1, HalfDays DEF Rec!Local
<1>3. QED
  BY <1>2, EventDays DEF Rec!Yesterday

LEMMA CleanerLoads == ASSUME Rec!RecorderAssumption, RecorderInv, Rec!CleanLoad
  PROVE RecorderInv'
<1>1. /\ Rec!TypeOK
      /\ \A j \in Instrs : fds[j].buffer \subseteq 1..recorded
           /\ (fds[j].day = -1 => fds[j] = Rec!Closed)
      /\ loaded # Rec!Idle => loaded.day \in Rec!Days
  BY DEF RecorderInv
<1>2. /\ loaded = Rec!Idle /\ (now + zone) % 2 = 1 /\ csv[Rec!Yesterday] # {}
      /\ loaded' = [day |-> Rec!Yesterday, rows |-> csv[Rec!Yesterday]]
      /\ UNCHANGED <<now, zone, current_day, fds, flusher, csv, parquet, recorded, dropped,
           kills, died>>
  BY DEF Rec!CleanLoad
<1>3. Rec!Yesterday \in Rec!Days /\ Rec!Yesterday' = Rec!Yesterday
        /\ Rec!Local(now - 1)' = Rec!Local(now - 1)
  BY <1>1, <1>2, YesterdayIsOver DEF Rec!Yesterday, Rec!Local
<1>4. Rec!TypeOK'
  <2>1. loaded' \in [day : Rec!Days \cup {-1}, rows : SUBSET (1..MaxRows)]
    BY <1>1, <1>2, <1>3 DEF Rec!TypeOK
  <2>2. QED
    BY <1>1, <1>2, <2>1 DEF Rec!TypeOK
<1>5. ASSUME zone' <= 0, ~died'
      PROVE  (/\ flusher /\ FilesFollowDays /\ BuffersFresh /\ RemovedOver /\ LoadedOver
              /\ CompressedOver /\ RowsSomewhere)'
  <2>1. /\ flusher /\ FilesFollowDays /\ BuffersFresh /\ RemovedOver
        /\ CompressedOver /\ RowsSomewhere
    BY <1>2, <1>5 DEF RecorderInv
  <2>2. parquet[Rec!Yesterday] = {}
    BY <1>2, <1>3, <2>1 DEF CompressedOver
  <2>3. LoadedOver'
    BY <1>2, <1>3, <2>2 DEF LoadedOver
  <2>4. FilesFollowDays' /\ BuffersFresh' /\ RemovedOver' /\ CompressedOver'
    BY <1>2, <1>3, <2>1 DEF FilesFollowDays, BuffersFresh, RemovedOver, CompressedOver
  <2>5. RowsSomewhere'
    BY <1>2, <2>1 DEF RowsSomewhere, OnDisk, InBuffer
  <2>6. QED
    BY <1>2, <2>1, <2>3, <2>4, <2>5
<1>6. QED
  <2>1. loaded' # Rec!Idle => loaded'.day \in Rec!Days
    BY <1>2, <1>3
  <2>2. QED
    BY <1>1, <1>2, <1>4, <1>5, <2>1 DEF RecorderInv

LEMMA CleanerSaves == ASSUME Rec!RecorderAssumption, RecorderInv, Rec!CleanSave
  PROVE RecorderInv'
<1>1. /\ Rec!TypeOK
      /\ \A j \in Instrs : fds[j].buffer \subseteq 1..recorded
           /\ (fds[j].day = -1 => fds[j] = Rec!Closed)
      /\ loaded # Rec!Idle => loaded.day \in Rec!Days
  BY DEF RecorderInv
<1>2. /\ loaded # Rec!Idle
      /\ parquet' = [parquet EXCEPT ![loaded.day] = loaded.rows]
      /\ csv' = [csv EXCEPT ![loaded.day] = {}]
      /\ fds' = [i \in Instrs |-> [fds[i] EXCEPT !.removed = @ \/ fds[i].day = loaded.day]]
      /\ loaded' = Rec!Idle
      /\ UNCHANGED <<now, zone, current_day, flusher, recorded, dropped, kills, died>>
  BY DEF Rec!CleanSave
<1>3. \A i \in Instrs :
        /\ fds'[i].day = fds[i].day /\ fds'[i].buffer = fds[i].buffer
        /\ fds'[i].removed <=> fds[i].removed \/ fds[i].day = loaded.day
        /\ fds'[i] \in [day : Rec!Days \cup {-1}, removed : BOOLEAN,
             buffer : SUBSET (1..MaxRows)]
  BY <1>1, <1>2 DEF Rec!TypeOK
<1>4. Rec!TypeOK'
  <2>1. Rec!Idle \in [day : Rec!Days \cup {-1}, rows : SUBSET (1..MaxRows)]
    BY DEF Rec!Idle
  <2>2. loaded.rows \subseteq 1..MaxRows
    BY <1>1 DEF Rec!TypeOK
  <2>3. fds' \in [Instrs -> [day : Rec!Days \cup {-1}, removed : BOOLEAN,
          buffer : SUBSET (1..MaxRows)]]
    BY <1>2, <1>3
  <2>4. parquet' \in [Rec!Days -> SUBSET (1..MaxRows)]
          /\ csv' \in [Rec!Days -> SUBSET (1..MaxRows)]
    BY <1>1, <1>2, <2>2 DEF Rec!TypeOK
  <2>5. QED
    BY <1>1, <1>2, <2>1, <2>3, <2>4 DEF Rec!TypeOK
<1>5. Rec!Local(now - 1)' = Rec!Local(now - 1)
  BY <1>2 DEF Rec!Local
<1>6. ASSUME loaded.day # -1, NEW i \in Instrs, fds[i] = Rec!Closed PROVE fds'[i] = Rec!Closed
  <2>1. fds'[i].day = -1 /\ ~fds'[i].removed /\ fds'[i].buffer = {}
    BY <1>3, <1>6 DEF Rec!Closed
  <2>2. QED
    BY <1>3, <2>1, ClosedFile
<1>7. loaded.day \in Rec!Days /\ loaded.day # -1
  BY <1>1, <1>2 DEF Rec!Days
<1>8. ASSUME zone' <= 0, ~died'
      PROVE  (/\ flusher /\ FilesFollowDays /\ BuffersFresh /\ RemovedOver /\ LoadedOver
              /\ CompressedOver /\ RowsSomewhere)'
  <2>1. /\ flusher /\ FilesFollowDays /\ BuffersFresh /\ RemovedOver /\ LoadedOver
        /\ CompressedOver /\ RowsSomewhere
    BY <1>2, <1>8 DEF RecorderInv
  <2>2. /\ csv[loaded.day] = loaded.rows /\ parquet[loaded.day] = {}
        /\ loaded.day = Rec!Yesterday /\ (now + zone) % 2 = 1
    BY <1>2, <2>1 DEF LoadedOver
  <2>3. loaded.day < Rec!Local(now - 1)
    BY <1>1, <2>2, YesterdayIsOver
  <2>4. ASSUME NEW i \in Instrs, fds[i].day = loaded.day PROVE fds[i].buffer = {}
    <3>1. SUFFICES ASSUME fds[i].buffer # {} PROVE FALSE
      OBVIOUS
    <3>2. current_day[i] >= Rec!Local(now - 1) /\ current_day[i] <= fds[i].day
      BY <2>1, <3>1 DEF BuffersFresh, FilesFollowDays, Rec!Closed
    <3>3. current_day[i] \in Int /\ loaded.day \in Int /\ Rec!Local(now - 1) \in Int
      BY <1>1, <1>7, EventDays DEF Rec!TypeOK, Rec!Days
    <3>4. QED
      BY <2>3, <2>4, <3>2, <3>3
  <2>5. FilesFollowDays'
    BY <1>2, <1>3, <1>6, <1>7, <2>1 DEF FilesFollowDays
  <2>6. BuffersFresh'
    BY <1>2, <1>3, <1>5, <2>1 DEF BuffersFresh
  <2>7. RemovedOver'
    BY <1>3, <1>5, <2>1, <2>3, <2>4 DEF RemovedOver
  <2>8. LoadedOver'
    BY <1>2 DEF LoadedOver
  <2>9. /\ parquet'[loaded.day] = loaded.rows /\ csv'[loaded.day] = {}
        /\ \A d \in Rec!Days \ {loaded.day} : parquet'[d] = parquet[d] /\ csv'[d] = csv[d]
    BY <1>1, <1>2, <1>7 DEF Rec!TypeOK
  <2>10. CompressedOver'
    BY <1>5, <2>1, <2>3, <2>9 DEF CompressedOver
  <2>11. RowsSomewhere'
    <3>1. ASSUME NEW x \in 1..recorded PROVE OnDisk(x)' \/ InBuffer(x)' \/ x \in dropped'
      <4>1. CASE OnDisk(x)
        <5>1. PICK d \in Rec!Days : x \in csv[d] \/ x \in parquet[d]
          BY <4>1 DEF OnDisk
        <5>2. x \in csv'[d] \/ x \in parquet'[d]
          BY <2>2, <2>9, <5>1
        <5>3. QED
          BY <5>2 DEF OnDisk
      <4>2. CASE InBuffer(x)
        BY <1>3, <2>4, <4>2 DEF InBuffer
      <4>3. QED
        BY <1>2, <2>1, <4>1, <4>2 DEF RowsSomewhere
    <3>2. QED
      BY <1>2, <3>1 DEF RowsSomewhere
  <2>12. QED
    BY <1>2, <2>1, <2>5, <2>6, <2>7, <2>8, <2>10, <2>11
<1>9. QED
  <2>1. \A j \in Instrs : fds'[j].buffer \subseteq 1..recorded'
          /\ (fds'[j].day = -1 => fds'[j] = Rec!Closed)
    BY <1>1, <1>2, <1>3, <1>6, <1>7
  <2>2. QED
    BY <1>2, <1>4, <1>8, <2>1 DEF RecorderInv

LEMMA HalfDayPasses == ASSUME Rec!RecorderAssumption, RecorderInv, Rec!HalfDay
  PROVE RecorderInv'
<1>1. /\ Rec!TypeOK
      /\ \A j \in Instrs : fds[j].buffer \subseteq 1..recorded
           /\ (fds[j].day = -1 => fds[j] = Rec!Closed)
      /\ loaded # Rec!Idle => loaded.day \in Rec!Days
  BY DEF RecorderInv
<1>2. /\ now < Rec!FirstMoment + MaxTime /\ loaded = Rec!Idle /\ now' = now + 1
      /\ flusher => \A i \in Instrs : fds[i].buffer = {}
      /\ UNCHANGED <<zone, current_day, fds, flusher, csv, parquet, loaded, recorded, dropped,
           kills,
                     died>>
  BY DEF Rec!HalfDay
<1>3. now \in Int /\ zone \in Int
  BY <1>1 DEF Rec!TypeOK, Rec!RecorderAssumption
<1>4. Rec!TypeOK'
  BY <1>1, <1>2 DEF Rec!TypeOK, Rec!RecorderAssumption
<1>5. /\ Rec!Local(now - 1)' \in Int /\ Rec!Local(now - 1) \in Int
        /\ Rec!Local(now - 1) <= Rec!Local(now - 1)'
  <2>1. Rec!Local(now - 1) = (now - 1 + zone) \div 2
          /\ Rec!Local(now - 1)' = (now + zone) \div 2
    BY <1>2, <1>3 DEF Rec!Local
  <2>2. QED
    BY <1>3, <2>1
<1>6. ASSUME zone' <= 0, ~died'
      PROVE  (/\ flusher /\ FilesFollowDays /\ BuffersFresh /\ RemovedOver /\ LoadedOver
              /\ CompressedOver /\ RowsSomewhere)'
  <2>1. /\ flusher /\ FilesFollowDays /\ RemovedOver /\ CompressedOver /\ RowsSomewhere
    BY <1>2, <1>6 DEF RecorderInv
  <2>2. FilesFollowDays' /\ BuffersFresh' /\ LoadedOver'
    BY <1>2, <2>1 DEF FilesFollowDays, BuffersFresh, LoadedOver
  <2>3. RemovedOver'
    BY <1>1, <1>2, <1>5, <2>1 DEF RemovedOver, Rec!TypeOK, Rec!Days
  <2>4. CompressedOver'
    BY <1>2, <1>5, <2>1 DEF CompressedOver, Rec!Days
  <2>5. RowsSomewhere'
    BY <1>2, <2>1 DEF RowsSomewhere, OnDisk, InBuffer
  <2>6. QED
    BY <1>2, <2>1, <2>2, <2>3, <2>4, <2>5
<1>7. QED
  BY <1>1, <1>2, <1>4, <1>6 DEF RecorderInv

LEMMA RecorderStep ==
  ASSUME Rec!RecorderAssumption, RecorderInv, [Rec!Next]_(Rec!vars)
  PROVE  RecorderInv'
<1>1. ASSUME NEW i \in Instrs, NEW late \in {0, 1}, Rec!OnAnyEvent(i, now - late)
      PROVE RecorderInv'
  BY <1>1, RecorderWrites
<1>2. CASE UNCHANGED Rec!vars
  <2>1. UNCHANGED <<now, zone, current_day, fds, flusher, csv, parquet, loaded, recorded, dropped,
                    kills, died>>
    BY <1>2 DEF Rec!vars
  <2>2. Rec!Local(now - 1)' = Rec!Local(now - 1) /\ Rec!Yesterday' = Rec!Yesterday
    BY <2>1 DEF Rec!Local, Rec!Yesterday
  <2>3. Rec!TypeOK' <=> Rec!TypeOK
    BY <2>1 DEF Rec!TypeOK
  <2>4. /\ FilesFollowDays' <=> FilesFollowDays
        /\ BuffersFresh' <=> BuffersFresh
        /\ RemovedOver' <=> RemovedOver
        /\ LoadedOver' <=> LoadedOver
        /\ CompressedOver' <=> CompressedOver
        /\ RowsSomewhere' <=> RowsSomewhere
    BY <2>1, <2>2 DEF FilesFollowDays, BuffersFresh, RemovedOver, LoadedOver, CompressedOver,
       RowsSomewhere, OnDisk, InBuffer
  <2>5. QED
    BY <2>1, <2>3, <2>4 DEF RecorderInv
<1>3. QED
  BY <1>1, <1>2, RecorderFlushes, RecorderKilled, CleanerLoads, CleanerSaves, HalfDayPasses
     DEF Rec!Next

LEMMA RecorderSafe == ASSUME RecorderInv PROVE Rec!RowsKept
<1>1. SUFFICES ASSUME zone <= 0, ~died, NEW x \in 1..recorded
      PROVE x \in Rec!Kept \cup Rec!Pending \cup dropped
  BY DEF Rec!RowsKept
<1>2. OnDisk(x) => x \in Rec!Kept
  BY DEF OnDisk, Rec!Kept
<1>3. InBuffer(x) => x \in Rec!Pending
  BY DEF InBuffer, Rec!Pending, Rec!Range, RecorderInv, Rec!TypeOK
<1>4. QED
  BY <1>1, <1>2, <1>3 DEF RecorderInv, RowsSomewhere

-----------------------------------------------------------------------------
(* The rows of a file, from the recorder to a reader                          *)
\* A set of naturals that is not empty has a least element.
LEMMA LeastNat ==
  ASSUME NEW S \in SUBSET Nat, S # {}
  PROVE  Files!Min(S) \in S /\ \A y \in S : Files!Min(S) <= y
<1> DEFINE T == {0..m : m \in S}
<1>1. T \subseteq FiniteSubsetsOf(Nat) /\ T # {}
  <2>1. \A m \in Nat : IsFiniteSet(0..m) /\ 0..m \in SUBSET Nat
    BY FS_Interval
  <2>2. QED
    BY <2>1 DEF FiniteSubsetsOf
<1>2. PICK t \in T : \A u \in T : <<u, t>> \notin StrictSubsetOrdering(Nat)
  <2> HIDE DEF T
  <2>1. QED
    BY <1>1, FS_StrictSubsetOrderingWellFounded, WFMin
<1>3. PICK x \in S : t = 0..x
  BY <1>2
<1>4. ASSUME NEW y \in S, y < x PROVE FALSE
  <2>1. 0..y \subseteq 0..x /\ 0..y # 0..x /\ 0..y \in SUBSET Nat /\ 0..x \in SUBSET Nat
    <3>1. x \in 0..x /\ x \notin 0..y
      BY <1>4
    <3>2. QED
      BY <1>4, <3>1
  <2>2. <<0..y, 0..x>> \in StrictSubsetOrdering(Nat)
    BY <2>1 DEF StrictSubsetOrdering
  <2>3. QED
    BY <1>2, <1>3, <2>2
<1>5. \A y \in S : x <= y
  BY <1>4
<1>6. QED
  BY <1>5 DEF Files!Min

LEMMA GreatestNat ==
  ASSUME NEW S \in SUBSET Nat, NEW n \in Nat, \A y \in S : y <= n, S # {}
  PROVE  Files!Max(S) \in S /\ \A y \in S : Files!Max(S) >= y
<1> DEFINE T == {m \in 0..n : n - m \in S}
<1>1. T \in SUBSET Nat /\ T # {}
  <2>1. PICK y \in S : TRUE
    OBVIOUS
  <2>2. n - y \in 0..n /\ n - (n - y) = y
    BY <2>1
  <2>3. n - y \in T
    BY <2>1, <2>2
  <2>4. T \subseteq 0..n /\ 0..n \subseteq Nat
    OBVIOUS
  <2> HIDE DEF T
  <2>5. QED
    BY <2>3, <2>4
<1>2. Files!Min(T) \in T /\ \A y \in T : Files!Min(T) <= y
  <2> HIDE DEF T
  <2>1. QED
    BY <1>1, LeastNat
<1>3. n - Files!Min(T) \in S /\ Files!Min(T) \in 0..n
  BY <1>2
<1>4. ASSUME NEW y \in S PROVE n - Files!Min(T) >= y
  <2>1. n - y \in 0..n /\ n - (n - y) = y
    BY <1>4
  <2>2. Files!Min(T) <= n - y
    BY <1>2, <2>1
  <2>3. QED
    BY <1>3, <2>1, <2>2
<1>5. QED
  BY <1>3, <1>4 DEF Files!Max

FileCell == Nat \cup {Files!NaN}
IsFrame(F, n) == F \in Seq([1..n -> FileCell])

\* In a frame, as read or as compressed, a cell that is not blank is filled with itself.
LEMMA FilledCell ==
  ASSUME NEW G, NEW n \in Nat, IsFrame(G, n), NEW k \in DOMAIN G, NEW c \in 1..n,
         NEW m \in 1..k, G[m][c] # Files!NaN, \A j \in 1..k : j > m => G[j][c] = Files!NaN
  PROVE  Files!Fill(G)[k][c] = G[m][c]
<1> DEFINE full == {j \in 1..k : G[j][c] # Files!NaN}
<1>1. k \in Nat /\ DOMAIN G[k] = 1..n
  <2>1. Len(G) \in Nat /\ DOMAIN G = 1..Len(G)
        /\ \A j \in DOMAIN G : G[j] \in [1..n -> FileCell]
    BY DEF IsFrame
  <2>2. QED
    BY <2>1
<1>2. Files!Max(full) \in full /\ \A j \in full : Files!Max(full) >= j
  <2>1. full \in SUBSET Nat /\ full # {} /\ \A j \in full : j <= k
    BY <1>1
  <2> HIDE DEF full
  <2>2. QED
    BY <1>1, <2>1, GreatestNat
<1>3. m \in full /\ \A j \in full : j <= m
  BY <1>1
<1>4. Files!Max(full) = m
  BY <1>1, <1>2, <1>3
<1>5. Files!Fill(G)[k][c] = IF full = {} THEN Files!NaN ELSE G[Files!Max(full)][c]
  BY <1>1 DEF Files!Fill
<1>6. QED
  BY <1>3, <1>4, <1>5

LEMMA FillKeeps ==
  ASSUME NEW F, NEW n \in Nat, IsFrame(F, n), NEW k \in DOMAIN F, NEW c \in 1..n,
       F[k][c] # Files!NaN
  PROVE  Files!Fill(F)[k][c] = F[k][c]
<1>1. k \in 1..k /\ k \in Nat
  BY DEF IsFrame
<1>2. QED
  BY <1>1, FilledCell

LEMMA MaskFrame ==
  ASSUME NEW F, NEW n \in Nat, IsFrame(F, n)
  PROVE  /\ IsFrame(Files!Mask(F), n) /\ Len(Files!Mask(F)) = Len(F)
         /\ \A k \in DOMAIN F, c \in 1..n :
              Files!Mask(F)[k][c] = IF k > 1 /\ F[k - 1][c] = F[k][c] THEN Files!NaN
                              ELSE F[k][c]
<1>1. /\ Len(F) \in Nat /\ DOMAIN F = 1..Len(F)
      /\ \A k \in DOMAIN F : F[k] \in [1..n -> FileCell] /\ DOMAIN F[k] = 1..n
  BY DEF IsFrame
<1>2. \A k \in DOMAIN F, c \in 1..n :
        Files!Mask(F)[k][c] = IF k > 1 /\ F[k - 1][c] = F[k][c] THEN Files!NaN ELSE F[k][c]
  BY <1>1 DEF Files!Mask
<1>3. \A k \in DOMAIN F : Files!Mask(F)[k] \in [1..n -> FileCell]
  <2>1. ASSUME NEW k \in DOMAIN F PROVE Files!Mask(F)[k] \in [1..n -> FileCell]
    <3>1. Files!Mask(F)[k] = [c \in 1..n |->
            IF k > 1 /\ F[k - 1][c] = F[k][c] THEN Files!NaN ELSE F[k][c]]
      BY <1>1 DEF Files!Mask
    <3>2. \A c \in 1..n : F[k][c] \in FileCell /\ Files!NaN \in FileCell
      BY <1>1 DEF FileCell
    <3>3. QED
      BY <3>1, <3>2
  <2>2. QED
    BY <2>1
<1>4. Files!Mask(F) = [k \in 1..Len(F) |-> Files!Mask(F)[k]]
  BY <1>1 DEF Files!Mask
<1>5. Files!Mask(F) \in Seq([1..n -> FileCell]) /\ Len(Files!Mask(F)) = Len(F)
  BY <1>1, <1>3, <1>4
<1>6. QED
  BY <1>2, <1>5 DEF IsFrame

\* What the job blanks is filled again: the first of the rows that repeat a cell has it.
LEMMA FillMask ==
  ASSUME NEW F, NEW n \in Nat, IsFrame(F, n), NEW k \in DOMAIN F, NEW c \in 1..n,
       F[k][c] # Files!NaN
  PROVE  Files!Fill(Files!Mask(F))[k][c] = F[k][c]
<1> DEFINE B == {m \in 1..k : \A j \in m..k : F[j][c] = F[k][c]}
           m == Files!Min(B)
<1>1. k \in Nat /\ k >= 1 /\ k <= Len(F) /\ Len(F) \in Nat /\ DOMAIN F = 1..Len(F)
  BY DEF IsFrame
<1>2. m \in B /\ \A y \in B : m <= y
  <2>1. B \in SUBSET Nat /\ k \in B
    BY <1>1
  <2> HIDE DEF B
  <2>2. QED
    BY <2>1, LeastNat
<1>3. \A j \in m..k : F[j][c] = F[k][c]
  BY <1>2
<1>4. m \in 1..k
  BY <1>2
<1>5. m > 1 => F[m - 1][c] # F[m][c]
  <2>1. SUFFICES ASSUME m > 1, F[m - 1][c] = F[m][c] PROVE FALSE
    OBVIOUS
  <2>2. \A j \in (m - 1)..k : F[j][c] = F[k][c]
    <3>1. ASSUME NEW j \in (m - 1)..k PROVE F[j][c] = F[k][c]
      <4>1. j = m - 1 \/ j \in m..k
        BY <1>1, <1>4, <3>1
      <4>2. F[m][c] = F[k][c]
        BY <1>1, <1>3, <1>4
      <4>3. QED
        BY <1>3, <2>1, <4>1, <4>2
    <3>2. QED
      BY <3>1
  <2>3. m - 1 \in B
    BY <1>1, <1>4, <2>1, <2>2
  <2>4. QED
    BY <1>1, <1>2, <1>4, <2>3
<1> HIDE DEF m
<1>6. Files!Mask(F)[m][c] = F[k][c]
  <2>1. m \in DOMAIN F /\ m \in m..k
    <3>1. m \in Nat /\ 1 <= m /\ m <= k
      BY <1>1, <1>4
    <3>2. QED
      BY <1>1, <3>1
  <2> HIDE DEF B
  <2>2. F[m][c] = F[k][c]
    BY <1>3, <2>1
  <2>3. QED
    BY <1>5, <2>1, <2>2, MaskFrame
<1>7. ASSUME NEW j \in 1..k, j > m PROVE Files!Mask(F)[j][c] = Files!NaN
  <2>1. j \in m..k /\ j - 1 \in m..k /\ j \in DOMAIN F /\ j > 1
    BY <1>1, <1>4, <1>7
  <2>2. F[j - 1][c] = F[j][c]
    BY <1>3, <2>1
  <2>3. QED
    BY <2>1, <2>2, MaskFrame
<1>8. IsFrame(Files!Mask(F), n) /\ k \in DOMAIN Files!Mask(F)
  <2>1. IsFrame(Files!Mask(F), n) /\ Len(Files!Mask(F)) = Len(F)
    BY MaskFrame
  <2>2. DOMAIN Files!Mask(F) = 1..Len(Files!Mask(F))
    BY <2>1 DEF IsFrame
  <2>3. QED
    BY <1>1, <2>1, <2>2
<1>9. QED
  BY <1>4, <1>6, <1>7, <1>8, FilledCell

-----------------------------------------------------------------------------
FileRow == IF kind = "l2" THEN Files!Book ELSE Files!TradeRow

FilesInv ==
  /\ Files!TypeOK
  /\ frame # Files!NoFile
       => ~today /\ Files!Loadable(booked) /\ frame = Files!Mask(Files!ReadCsv(booked))

LEMMA RowCells ==
  ASSUME Files!RecordFilesAssumption, kind \in {"l2", "trades"}, NEW row \in FileRow
  PROVE  Files!ToList(row) \in Seq(Nat)
<1>1. CASE kind = "l2"
  <2>1. row.bids \in Files!Sides /\ row.asks \in Files!Sides
    BY <1>1 DEF FileRow, Files!Book
  <2>2. row.bids \in Seq(Nat) /\ row.asks \in Seq(Nat)
    BY <2>1 DEF Files!Sides, Files!RecordFilesAssumption
  <2>3. <<Len(row.bids), Len(row.asks)>> \in Seq(Nat)
    BY <2>2
  <2>4. QED
    BY <1>1, <2>2, <2>3 DEF Files!ToList
<1>2. CASE kind = "trades"
  <2>1. PICK l \in Levels : row.trade = <<l>>
    BY <1>2 DEF FileRow, Files!TradeRow
  <2>2. l \in Nat
    BY DEF Files!RecordFilesAssumption
  <2>3. QED
    BY <1>2, <2>1, <2>2 DEF Files!ToList
<1>3. QED
  BY <1>1, <1>2

LEMMA ColumnsType ==
  ASSUME Files!RecordFilesAssumption, kind \in {"l2", "trades"}, NEW s \in Seq(FileRow),
       s # <<>>
  PROVE  Files!Columns(s) \in Nat
<1> DEFINE first == Len(Files!ToList(s[1]))
           longer == {k \in DOMAIN s : Len(Files!ToList(s[k])) > first}
<1>1. \A k \in DOMAIN s : Len(Files!ToList(s[k])) \in Nat
  BY RowCells
<1>2. 1 \in DOMAIN s
  OBVIOUS
<1>3. longer # {} => Files!Min(longer) \in DOMAIN s
  <2>1. longer \in SUBSET Nat /\ longer \subseteq DOMAIN s
    OBVIOUS
  <2> HIDE DEF longer
  <2>2. QED
    BY <2>1, LeastNat
<1>4. QED
  BY <1>1, <1>2, <1>3 DEF Files!Columns

LEMMA CsvFrame ==
  ASSUME Files!RecordFilesAssumption, kind \in {"l2", "trades"}, NEW s \in Seq(FileRow),
       s # <<>>
  PROVE  /\ IsFrame(Files!ReadCsv(s), Files!Columns(s)) /\ Len(Files!ReadCsv(s)) = Len(s)
         /\ \A k \in DOMAIN s, c \in 1..Files!Columns(s) :
              c <= Len(Files!ToList(s[k])) => Files!ReadCsv(s)[k][c] = Files!ToList(s[k])[c]
<1>1. Files!Columns(s) \in Nat /\ Len(s) \in Nat /\ DOMAIN s = 1..Len(s)
  BY ColumnsType
<1>2. \A k \in DOMAIN s : Files!ToList(s[k]) \in Seq(Nat) /\ Len(Files!ToList(s[k])) \in Nat
  BY RowCells
<1>3. ASSUME NEW k \in DOMAIN s
      PROVE Files!ReadCsv(s)[k] \in [1..Files!Columns(s) -> FileCell]
  <2>1. Files!ReadCsv(s)[k] =
          [c \in 1..Files!Columns(s) |->
             IF c <= Len(Files!ToList(s[k])) THEN Files!ToList(s[k])[c] ELSE Files!NaN]
    BY DEF Files!ReadCsv
  <2>2. ASSUME NEW c \in 1..Files!Columns(s), c <= Len(Files!ToList(s[k]))
        PROVE Files!ToList(s[k])[c] \in Nat
    BY <1>1, <1>2, <2>2
  <2>3. QED
    BY <2>1, <2>2 DEF FileCell
<1>4. Files!ReadCsv(s) = [k \in 1..Len(s) |-> Files!ReadCsv(s)[k]]
  BY <1>1 DEF Files!ReadCsv
<1>5. Files!ReadCsv(s) \in Seq([1..Files!Columns(s) -> FileCell])
        /\ Len(Files!ReadCsv(s)) = Len(s)
  BY <1>1, <1>3, <1>4
<1>6. \A k \in DOMAIN s, c \in 1..Files!Columns(s) :
        c <= Len(Files!ToList(s[k])) => Files!ReadCsv(s)[k][c] = Files!ToList(s[k])[c]
  BY DEF Files!ReadCsv
<1>7. QED
  BY <1>5, <1>6 DEF IsFrame

LEMMA FilesInit == ASSUME Files!RecordFilesAssumption, Files!Init PROVE FilesInv
<1>1. kind \in {"l2", "trades"} /\ booked = <<>> /\ today = TRUE /\ daily = FALSE
        /\ frame = Files!NoFile
  BY DEF Files!Init
<1>2. booked \in Seq(FileRow) /\ Len(booked) <= MaxRows
  BY <1>1 DEF Files!RecordFilesAssumption
<1>3. frame \in Seq(Seq(Nat \cup {Files!NaN}))
  BY <1>1 DEF Files!NoFile
<1>4. QED
  BY <1>1, <1>2, <1>3 DEF FilesInv, Files!TypeOK, FileRow

\* What is made of the rows stays while they do.
LEMMA RowsStay ==
  ASSUME kind' = kind, booked' = booked
  PROVE  (Files!Loadable(booked)' <=> Files!Loadable(booked))
       /\ Files!ReadCsv(booked)' = Files!ReadCsv(booked)
<1>1. \A row : Files!ToList(row)' = Files!ToList(row)
  BY DEF Files!ToList
<1>2. Files!Columns(booked)' = Files!Columns(booked)
  <2> DEFINE longer == {k \in DOMAIN booked :
                          Len(Files!ToList(booked[k])) > Len(Files!ToList(booked[1]))}
  <2>1. longer' = longer
    BY <1>1
  <2>2. Files!Columns(booked) = IF longer = {} THEN Len(Files!ToList(booked[1]))
                        ELSE Len(Files!ToList(booked[Files!Min(longer)]))
    BY DEF Files!Columns
  <2>3. Files!Columns(booked)' = (IF longer = {} THEN Len(Files!ToList(booked[1]))
                          ELSE Len(Files!ToList(booked[Files!Min(longer)])))'
    BY DEF Files!Columns
  <2> HIDE DEF longer
  <2>4. QED
    BY <1>1, <2>1, <2>2, <2>3
<1>3. Files!ReadCsv(booked)' = Files!ReadCsv(booked)
  BY <1>1, <1>2 DEF Files!ReadCsv
<1>4. Files!Fit(booked, Files!Columns(booked))' <=> Files!Fit(booked, Files!Columns(booked))
  BY <1>1, <1>2 DEF Files!Fit
<1>5. QED
  BY <1>2, <1>3, <1>4 DEF Files!Loadable

LEMMA FilesStep == ASSUME Files!RecordFilesAssumption, FilesInv, [Files!Next]_(Files!vars)
  PROVE FilesInv'
<1>1. /\ Files!TypeOK /\ kind \in {"l2", "trades"} /\ booked \in Seq(FileRow)
      /\ frame # Files!NoFile
           => ~today /\ Files!Loadable(booked) /\ frame = Files!Mask(Files!ReadCsv(booked))
  BY DEF FilesInv, Files!TypeOK, FileRow
<1>2. ASSUME NEW row \in FileRow, Files!Record(row) PROVE FilesInv'
  <2>1. /\ today /\ Len(booked) < MaxRows /\ booked' = Append(booked, row) /\ daily' = TRUE
        /\ UNCHANGED <<kind, today, frame>>
    BY <1>2 DEF Files!Record
  <2>2. frame' = Files!NoFile'
    BY <1>1, <2>1 DEF Files!NoFile
  <2>3. booked' \in Seq(FileRow) /\ Len(booked') <= MaxRows
    BY <1>1, <2>1 DEF Files!RecordFilesAssumption
  <2>4. Files!TypeOK'
    BY <1>1, <2>1, <2>3 DEF Files!TypeOK, FileRow
  <2>5. QED
    BY <2>2, <2>4 DEF FilesInv
<1>3. CASE Files!NextDay
  <2>1. today /\ ~today' /\ today' \in BOOLEAN /\ UNCHANGED <<kind, booked, daily, frame>>
    BY <1>3 DEF Files!NextDay
  <2>2. frame' = Files!NoFile'
    BY <1>1, <2>1 DEF Files!NoFile
  <2>3. Files!TypeOK'
    BY <1>1, <2>1 DEF Files!TypeOK
  <2>4. QED
    BY <2>2, <2>3 DEF FilesInv
<1>4. CASE Files!CleanRecords
  <2>1. /\ ~today /\ Files!Loadable(booked) /\ frame' = Files!Mask(Files!ReadCsv(booked))
          /\ daily' = FALSE
        /\ UNCHANGED <<kind, booked, today>>
    BY <1>4 DEF Files!CleanRecords
  <2>2. frame' \in Seq(Seq(Nat \cup {Files!NaN}))
    <3>1. booked # <<>>
      BY <2>1 DEF Files!Loadable
    <3>2. IsFrame(Files!Mask(Files!ReadCsv(booked)), Files!Columns(booked))
            /\ Files!Columns(booked) \in Nat
      BY <1>1, <3>1, ColumnsType, CsvFrame, MaskFrame
    <3>3. [1..Files!Columns(booked) -> FileCell] \subseteq Seq(FileCell)
      BY <3>2
    <3>4. frame' \in Seq(Seq(FileCell))
      BY <2>1, <3>2, <3>3 DEF IsFrame
    <3>5. QED
      BY <3>4 DEF FileCell
  <2>3. Files!TypeOK'
    BY <1>1, <2>1, <2>2 DEF Files!TypeOK
  <2>4. ~today' /\ Files!Loadable(booked)' /\ frame' = Files!Mask(Files!ReadCsv(booked)')
    BY <2>1, RowsStay
  <2>5. QED
    BY <2>3, <2>4 DEF FilesInv, Files!Mask
<1>5. CASE UNCHANGED Files!vars
  <2>1. UNCHANGED <<kind, booked, today, daily, frame>>
    BY <1>5 DEF Files!vars
  <2>2. Files!TypeOK'
    BY <1>1, <2>1 DEF Files!TypeOK
  <2>3. frame' # Files!NoFile'
          => ~today' /\ Files!Loadable(booked)' /\ frame' = Files!Mask(Files!ReadCsv(booked)')
    BY <1>1, <2>1, RowsStay DEF Files!NoFile
  <2>4. QED
    BY <2>2, <2>3 DEF FilesInv, Files!Mask
<1>6. QED
  BY <1>2, <1>3, <1>4, <1>5 DEF Files!Next, FileRow

LEMMA FilesSafe == ASSUME Files!RecordFilesAssumption, FilesInv PROVE Files!ReadsBack
<1> SUFFICES ASSUME Files!CanRead
             PROVE  Len(Files!Read) = Len(booked) /\ \A k \in DOMAIN booked :
                      LET cells == Files!ToList(booked[k])
                      IN  Len(cells) = Files!Columns(booked) => Files!Read[k] = cells
  BY DEF Files!ReadsBack
<1>1. kind \in {"l2", "trades"} /\ booked \in Seq(FileRow)
  BY DEF FilesInv, Files!TypeOK, FileRow
<1>2. booked # <<>> /\ Files!Loadable(booked)
  BY DEF Files!CanRead, FilesInv, Files!Loadable
<1> DEFINE n == Files!Columns(booked)
           F == Files!ReadCsv(booked)
<1>3. /\ n \in Nat /\ IsFrame(F, n) /\ Len(F) = Len(booked) /\ Len(booked) \in Nat
      /\ DOMAIN booked = 1..Len(booked)
      /\ \A k \in DOMAIN booked, c \in 1..n :
           c <= Len(Files!ToList(booked[k])) => F[k][c] = Files!ToList(booked[k])[c]
  BY <1>1, <1>2, ColumnsType, CsvFrame
<1> HIDE DEF n, F
<1>4. PICK G : Files!Read = Files!Fill(G) /\ (G = F \/ G = Files!Mask(F))
  BY DEF Files!Read, Files!CanRead, FilesInv, F
<1>5. IsFrame(G, n) /\ Len(G) = Len(F)
  BY <1>3, <1>4, MaskFrame
<1>6. /\ DOMAIN G = 1..Len(G) /\ DOMAIN F = 1..Len(F)
      /\ \A k \in DOMAIN G : DOMAIN G[k] = 1..n
  <2>1. \A k \in DOMAIN G : G[k] \in [1..n -> FileCell]
    BY <1>3, <1>5 DEF IsFrame
  <2>2. QED
    BY <1>3, <1>5, <2>1 DEF IsFrame
<1>7. Len(Files!Read) = Len(booked)
  BY <1>3, <1>4, <1>5, <1>6 DEF Files!Fill
<1>8. ASSUME NEW k \in DOMAIN booked, Len(Files!ToList(booked[k])) = n
      PROVE Files!Read[k] = Files!ToList(booked[k])
  <2>1. Files!ToList(booked[k]) \in Seq(Nat)
    BY <1>1, RowCells
  <2>2. k \in DOMAIN F /\ k \in DOMAIN G
    BY <1>3, <1>5, <1>6
  <2>3. ASSUME NEW c \in 1..n PROVE Files!Read[k][c] = Files!ToList(booked[k])[c]
    <3>1. F[k][c] = Files!ToList(booked[k])[c] /\ Files!ToList(booked[k])[c] \in Nat
      BY <1>3, <1>8, <2>1, <2>3
    <3>2. F[k][c] # Files!NaN
      BY <3>1 DEF Files!NaN
    <3>3. QED
      BY <1>3, <1>4, <2>2, <3>1, <3>2, FillKeeps, FillMask
  <2>4. DOMAIN Files!Read[k] = 1..n
    BY <1>4, <1>6, <2>2 DEF Files!Fill
  <2>5. Files!Read[k] = [c \in 1..n |-> Files!Read[k][c]]
    BY <1>4, <1>6, <2>2 DEF Files!Fill
  <2>6. Files!ToList(booked[k]) = [c \in 1..n |-> Files!ToList(booked[k])[c]]
    BY <1>8, <2>1
  <2>7. QED
    BY <2>3, <2>5, <2>6
<1>9. QED
  BY <1>7, <1>8 DEF n

\* Each component is one of its own in the composition, and rests while another runs.
LEMMA ServicesKeepRecords ==
  ASSUME ServicesAssumption, RecorderInv, FilesInv, [ServicesNext]_services
  PROVE  RecorderInv' /\ FilesInv'
<1>1. Rec!RecorderAssumption /\ Files!RecordFilesAssumption
  BY DEF ServicesAssumption
<1>2. (Rec!Next \/ UNCHANGED rec) /\ (Files!Next \/ UNCHANGED files)
  BY DEF ServicesNext, services
<1>3. [Rec!Next]_(Rec!vars) /\ [Files!Next]_(Files!vars)
  BY <1>2 DEF rec, Rec!vars, files, Files!vars
<1>4. QED
  BY <1>1, <1>3, RecorderStep, FilesStep

\* Over any days, late events, kills and runs of the job that compresses: a host that is not
\* ahead of UTC loses no row that was recorded (base_recorder.py, clean_records.py); and what
\* a reader can read, of today or compressed, it reads as it was recorded, cell by cell, but
\* for the rows shorter than the columns (base_reader.py).
THEOREM RecordsAreExact == ASSUME ServicesAssumption PROVE ServicesSpec => []RecordsExact
<1>1. ServicesInit => RecorderInv /\ FilesInv
  BY RecorderInit, FilesInit DEF ServicesInit, ServicesAssumption
<1>2. RecorderInv /\ FilesInv /\ [ServicesNext]_services => RecorderInv' /\ FilesInv'
  BY ServicesKeepRecords
<1>3. RecorderInv /\ FilesInv => RecordsExact
  BY RecorderSafe, FilesSafe DEF ServicesAssumption, RecordsExact
<1>4. QED
  BY <1>1, <1>2, <1>3, PTL DEF ServicesSpec

=============================================================================
