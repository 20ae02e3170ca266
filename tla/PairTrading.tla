----------------------------- MODULE PairTrading -----------------------------
(***************************************************************************)
(* From the candles of two instruments to a pair of orders: the z-score    *)
(* sentinel joins the candles that two candle sentinels send it and sends  *)
(* the z-score of the last period both have; the pair seeker trades on the *)
(* last one it has.  The sentinel measures the spread of the instrument it *)
(* was given first over the other, and the seeker trades the one it was    *)
(* given first against the other; the channel between them is named by     *)
(* both, in order of id.                                                   *)
(*                                                                         *)
(* Candles are numbered by their period.  Which of the two is dear in a    *)
(* period is what the regression says of it; the sentinel of the other     *)
(* order says the opposite of the spread.                                  *)
(***************************************************************************)
EXTENDS Integers, SequencesExt

CONSTANTS
  Dears,                            \* what the regression may say: which is dear in each period
  MaxPeriod, MaxStarts, MaxPairs, MaxInbox   \* bounds

PairTradingAssumption ==
  /\ MaxPeriod \in Nat \ {0} /\ MaxStarts \in Nat /\ MaxPairs \in Nat /\ MaxInbox \in Nat
  /\ Dears \subseteq [1..MaxPeriod -> {"a", "b", "none"}]

VARIABLES
  clock,
  dear,      \* dear[k]: "a", "b" or "none" (a z-score under 0.1)
  sentinels, \* those that run: the orders they were given
  candles,   \* candles[o][i]: the periods of instrument i that the sentinel of order o has
  values,    \* values[o]: its z-scores
  seeker,    \* the order it was given, "off" when it does not run
  wants,     \* the sentinels that have not answered its request yet
  inbox,     \* on their way to the seeker
  cache,     \* its values
  firing,    \* the legs still to send
  sent,      \* history: the orders of the last pair
  starts, pairs,
  mixed,     \* history: a sentinel of another order than the seeker's ran with it
  late,      \* history: of a sentinel, an update found no new period, or more than one
  broken     \* history: the seeker was killed over a pair

vars == <<clock, dear, sentinels, candles, values, seeker, wants, inbox, cache, firing, sent,
          starts, pairs, mixed, late, broken>>

Instr == {"a", "b"}
Orders == {"ab", "ba"}
First(o) == IF o = "ab" THEN "a" ELSE "b"
Other(i) == IF i = "a" THEN "b" ELSE "a"
Score == [period : 1..MaxPeriod, z : {-1, 0, 1}]

TypeOK ==
  /\ clock \in 0..MaxPeriod
  /\ sentinels \subseteq Orders
  /\ \A o \in Orders : \A i \in Instr : candles[o][i] \in 0..clock
  /\ \A o \in Orders : values[o] \in Seq(Score)
  /\ seeker \in Orders \cup {"off"} /\ wants \subseteq Orders
  /\ cache \in Seq(Score)
  /\ firing \in Seq([leg : Instr, side : {-1, 1}, period : 1..MaxPeriod])
  /\ starts \in 0..MaxStarts /\ pairs \in 0..MaxPairs
  /\ mixed \in BOOLEAN /\ late \subseteq Orders /\ broken \in BOOLEAN

Init ==
  /\ clock = 0
  /\ dear \in Dears
  /\ sentinels = {}
  /\ candles = [o \in Orders |-> [i \in Instr |-> 0]]
  /\ values = [o \in Orders |-> <<>>]
  /\ seeker = "off" /\ wants = {} /\ inbox = <<>> /\ cache = <<>>
  /\ firing = <<>> /\ sent = <<>> /\ starts = 0 /\ pairs = 0
  /\ mixed = FALSE /\ late = {} /\ broken = FALSE

Tick ==
  /\ clock < MaxPeriod /\ clock' = clock + 1
  /\ UNCHANGED <<dear, sentinels, candles, values, seeker, wants, inbox, cache, firing, sent,
                 starts, pairs, mixed, late, broken>>

-----------------------------------------------------------------------------
(* The z-score sentinel                                                      *)

Mixes(running, o) == o # "off" /\ running \ {o} # {}

\* The pattern of the kill has the ids in the order they are given.  The candle sentinels
\* answer with what they have.
StartSentinel(o) ==
  /\ starts < MaxStarts /\ starts' = starts + 1
  /\ sentinels' = sentinels \cup {o}
  /\ candles' = [candles EXCEPT ![o] = [i \in Instr |-> clock]]
  /\ values' = [values EXCEPT ![o] = <<>>]
  /\ late' = late \ {o} /\ wants' = wants \ {o}
  /\ mixed' = (mixed \/ Mixes(sentinels', seeker))
  /\ UNCHANGED <<clock, dear, seeker, inbox, cache, firing, sent, pairs, broken>>

KillSentinel(o) ==
  /\ o \in sentinels /\ sentinels' = sentinels \ {o} /\ wants' = wants \ {o}
  /\ UNCHANGED <<clock, dear, candles, values, seeker, inbox, cache, firing, sent, starts, pairs,
                 mixed, late, broken>>

\* A candle arrives from the sentinel of its instrument.
HearCandle(o, i) ==
  /\ o \in sentinels /\ candles[o][i] < clock
  /\ candles' = [candles EXCEPT ![o][i] = @ + 1]
  /\ UNCHANGED <<clock, dear, sentinels, values, seeker, wants, inbox, cache, firing, sent, starts,
                 pairs, mixed, late, broken>>

\* The spread is the first less the other: above its mean when the first is dear.
ZScore(o, k) == [period |-> k, z |-> IF dear[k] = "none" THEN 0
                                     ELSE IF dear[k] = First(o) THEN 1 ELSE -1]

\* Mutant: every candle of the first is taken, joined or not.
JoinedOuter(o) == candles[o][First(o)]

\* The last period both have (join, dropna)
Joined(o) == IF candles[o]["a"] < candles[o]["b"] THEN candles[o]["a"] ELSE candles[o]["b"]

\* A message on the channel both orders have; the seeker hears what was sent since it runs.
Send(message) ==
  /\ Len(inbox) < MaxInbox
  /\ inbox' = IF seeker = "off" THEN inbox ELSE Append(inbox, message)

\* update: all of them the first time, then the last one, new or not.
Update(o) ==
  LET last == Joined(o)
      scores == IF values[o] = <<>> THEN [k \in 1..last |-> ZScore(o, k)]
                ELSE Append(values[o], ZScore(o, last))
  IN  /\ o \in sentinels /\ last > 0 /\ candles[o]["a"] > 0 /\ candles[o]["b"] > 0
      /\ Len(values[o]) < MaxPeriod
      /\ values' = [values EXCEPT ![o] = scores]
      /\ late' = IF values[o] # <<>> /\ Last(values[o]).period + 1 # last THEN late \cup {o} ELSE late
      /\ Send([kind |-> "update", values |-> <<Last(scores)>>])
      /\ UNCHANGED <<clock, dear, sentinels, candles, seeker, wants, cache, firing, sent, starts,
                     pairs, mixed, broken>>

\* on_sentinel_server_event
AnswerSnapshot(o) ==
  /\ o \in wants \cap sentinels /\ wants' = wants \ {o}
  /\ Send([kind |-> "snapshot", values |-> values[o]])
  /\ UNCHANGED <<clock, dear, sentinels, candles, values, seeker, cache, firing, sent, starts, pairs,
                 mixed, late, broken>>

-----------------------------------------------------------------------------
(* The pair seeker                                                           *)

StartSeeker(o) ==
  /\ seeker = "off" /\ starts < MaxStarts /\ starts' = starts + 1
  /\ seeker' = o /\ wants' = sentinels
  /\ inbox' = <<>> /\ cache' = <<>> /\ firing' = <<>> /\ sent' = <<>>
  /\ mixed' = Mixes(sentinels, o) /\ broken' = FALSE
  /\ UNCHANGED <<clock, dear, sentinels, candles, values, pairs, late>>

KillSeeker ==
  /\ seeker # "off" /\ seeker' = "off"
  /\ wants' = {} /\ inbox' = <<>> /\ cache' = <<>> /\ firing' = <<>>
  /\ broken' = (firing # <<>>)
  /\ UNCHANGED <<clock, dear, sentinels, candles, values, sent, starts, pairs, mixed, late>>

OnSentinelEvent ==
  /\ seeker # "off" /\ inbox # <<>>
  /\ LET m == Head(inbox)
     IN  cache' = CASE m.kind = "update" -> cache \o m.values
                    [] m.kind = "snapshot" /\ m.values # <<>> -> m.values
                    [] OTHER -> cache
  /\ inbox' = Tail(inbox)
  /\ UNCHANGED <<clock, dear, sentinels, candles, values, seeker, wants, firing, sent, starts, pairs,
                 mixed, late, broken>>

\* _get_qties: the sign of each leg is that of -atan(z**3), and the opposite one.  They are
\* sent without a check of the exchanges.
BuildOrders ==
  LET score == Last(cache)
      side == -score.z
      first == First(seeker)
  IN  /\ seeker # "off" /\ firing = <<>> /\ cache # <<>> /\ pairs < MaxPairs
      /\ score.z # 0
      /\ pairs' = pairs + 1
      /\ firing' = <<[leg |-> first, side |-> side, period |-> score.period],
                     [leg |-> Other(first), side |-> -side, period |-> score.period]>>
      /\ sent' = <<>>
      /\ UNCHANGED <<clock, dear, sentinels, candles, values, seeker, wants, inbox, cache, starts,
                     mixed, late, broken>>

SendOrder ==
  /\ firing # <<>>
  /\ sent' = Append(sent, Head(firing)) /\ firing' = Tail(firing)
  /\ UNCHANGED <<clock, dear, sentinels, candles, values, seeker, wants, inbox, cache, starts, pairs,
                 mixed, late, broken>>

Next ==
  \/ Tick
  \/ \E o \in Orders : \/ StartSentinel(o) \/ KillSentinel(o) \/ Update(o) \/ AnswerSnapshot(o)
                       \/ StartSeeker(o)
                       \/ \E i \in Instr : HearCandle(o, i)
  \/ KillSeeker \/ OnSentinelEvent \/ BuildOrders \/ SendOrder

Spec == Init /\ [][Next]_vars

-----------------------------------------------------------------------------
\* A z-score is that of a period both instruments have closed, and a sentinel that is on time
\* lists every period once; and the orders of a pair sell what was dear in the period they are
\* about and buy the other, both of them unless the seeker was killed over the pair; provided
\* the sentinel was given the two in the order of the seeker, which nothing sees to.
TradesAgainstSpread ==
  /\ \A o \in Orders : \A k \in DOMAIN values[o] :
       /\ o \in sentinels => values[o][k].period <= candles[o]["a"]
       /\ o \in sentinels => values[o][k].period <= candles[o]["b"]
       /\ o \notin late => values[o][k].period = k
  /\ ~mixed => \A k \in DOMAIN sent : sent[k].side = (IF sent[k].leg = dear[sent[k].period] THEN -1 ELSE 1)
  /\ firing = <<>> /\ ~broken => Len(sent) \in {0, 2}
  /\ Len(sent) = 2 => sent[1].leg # sent[2].leg /\ sent[1].side # sent[2].side
=============================================================================
