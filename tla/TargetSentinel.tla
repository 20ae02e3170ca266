----------------------------- MODULE TargetSentinel -----------------------------
(***************************************************************************)
(* The target sentinel: it keeps a series of hourly candles per asset, one *)
(* thread adds the candles it hears, and another, on the hour, waits for   *)
(* the last candle of every asset and writes the targets of all of them.   *)
(* TargetSeeker has the file and what is made of it.                       *)
(*                                                                         *)
(* A candle is the hour it opens at.  The prices are left out: the scores  *)
(* that come of them are any, and those of equal scores share their ranks. *)
(***************************************************************************)
EXTENDS Integers, Sequences, FiniteSets, FiniteSetsExt, Functions

CONSTANTS
  Assets,
  Since,      \* Since[a]: the first candle of a the database has
  Start,      \* the hour the sentinel starts at
  Window,     \* candles kept of an asset (2000)
  Rolling,    \* rows a score is made of (300)
  Threshold,  \* the share of the assets that is bought, and sold, in tenths (3)
  Scores,
  MaxRetries, \* how often it waits for the last candles (5)
  MaxHour     \* bound: hours

TargetSentinelAssumption ==
  /\ IsFiniteSet(Assets) /\ Scores \subseteq Int
  /\ Start \in Nat /\ \A a \in Assets : Since[a] \in 0..Start - 3
  /\ Window \in Nat /\ Window > 3 /\ Rolling \in Nat
  /\ Threshold \in 0..5 /\ MaxRetries \in Nat /\ MaxHour \in Nat /\ Start <= MaxHour

VARIABLES
  hour,
  stored,     \* stored[a]: the last candle of a in the database
  wire,       \* wire[a]: the first candle of a that may still be heard
  candles,    \* candles[a]: the index of loaded_candles[a]
  heartbeat,  \* the step of the thread on the hour
  retry,
  beat,       \* the last hour that was the thread's
  file        \* the targets last written: hour, stamp, targets and scores

vars == <<hour, stored, wire, candles, heartbeat, retry, beat, file>>

Hours == 0..MaxHour
NoFile == [hour |-> 0, stamp |-> 0, targets |-> <<>>, scores |-> <<>>]

TypeOK ==
  /\ hour \in Hours /\ stored \in [Assets -> Hours] /\ wire \in [Assets -> Hours]
  /\ \A a \in Assets : candles[a] \in Seq(Hours) /\ IsInjective(candles[a])
  /\ heartbeat \in {"idle", "waiting", "ended"} /\ retry \in 0..MaxRetries /\ beat \in Hours
  /\ \A a \in DOMAIN file.targets : a \in Assets /\ file.targets[a] \in {-1, 0, 1}

-----------------------------------------------------------------------------
Last(s) == s[Len(s)]
Tail2000(s) == IF Len(s) <= Window THEN s ELSE SubSeq(s, Len(s) - Window + 1, Len(s))

\* _load_candles: what the database has of an asset
LoadCandles(a) == [k \in 1..(stored[a] - Since[a] + 1) |-> Since[a] + k - 1]

Init ==
  /\ hour = Start /\ beat = Start
  /\ stored \in [Assets -> {Start - 2, Start - 1}]
  /\ wire = [a \in Assets |-> Start - 1]
  /\ candles = [a \in Assets |-> LoadCandles(a)]
  /\ heartbeat = "idle" /\ retry = 0 /\ file = NoFile

Tick ==
  /\ hour < MaxHour /\ hour' = hour + 1
  /\ heartbeat # "waiting" /\ (heartbeat = "idle" => beat = hour)
  /\ UNCHANGED <<stored, wire, candles, heartbeat, retry, beat, file>>

\* The candles that have closed come to the database ...
Store(a) ==
  /\ stored[a] < hour - 1 /\ stored' = [stored EXCEPT ![a] = @ + 1]
  /\ UNCHANGED <<hour, wire, candles, heartbeat, retry, beat, file>>

\* on_candle_event, of the series it starts from and of the candle.  More than two periods
\* after the last the series is loaded again; older than the last but one it is dropped;
\* and a candle that is not in the series is put at its end.
Added(a, s, t) ==
  LET series == IF t > Last(s) + 2 THEN LoadCandles(a) ELSE s
  IN  IF t < series[Len(series) - 1] THEN series
      ELSE IF t \in Range(series) THEN Tail2000(series) ELSE Tail2000(Append(series, t))

\* ... and are heard in order, some twice and some never.
OnCandleEvent(a, t) ==
  /\ t \in (wire[a] - 1)..(hour - 1)
  /\ wire' = [wire EXCEPT ![a] = t + 1]
  /\ candles' = [candles EXCEPT ![a] = Added(a, @, t)]
  /\ UNCHANGED <<hour, stored, heartbeat, retry, beat, file>>

-----------------------------------------------------------------------------
(* The thread on the hour                                                    *)

\* Mutant: one asset that has its last candle is enough.
HasLastDataOfOne == \E a \in Assets : Last(candles[a]) >= hour - 1

HasLastData == \A a \in Assets : Last(candles[a]) >= hour - 1

\* The rows of the frame of all series: the sorted hours any of them has.
Rows == UNION {Range(candles[a]) : a \in Assets}
Before(t) == Max({r \in Rows : r < t} \cup {-1})

\* The return of an asset is a number where it has the row and the one before.
HasReturn(a, t) == {t, Before(t)} \subseteq Range(candles[a])
Returns == {t \in Rows : \E a \in Assets : HasReturn(a, t)}

\* Mutant: the first row of returns is kept.
KeptReturns == Returns

\* dropna(how='all') and iloc[1:]
Kept == Returns \ {Min(Returns)}

\* dropna(axis=1): one row without a return and the asset is out.
Selected == {a \in Assets : \A t \in Kept : HasReturn(a, t)}

\* rank(axis=1), twice: ranks of equal scores are averaged.
Rank(a, scores) ==
  LET S == DOMAIN scores
  IN  2 * Cardinality({b \in S : scores[b] < scores[a]})
        + Cardinality({b \in S : scores[b] = scores[a]}) + 1

\* Mutant: what is not bought is sold.
SignalOfRank(a, scores) ==
  IF 10 * Rank(a, scores) <= 2 * Threshold * Cardinality(DOMAIN scores)
  THEN 1 ELSE -1

\* compute_targets: the lowest scores are bought and the highest sold.
Signal(a, scores) ==
  LET share == 2 * Threshold * Cardinality(DOMAIN scores)
      Long == 10 * Rank(a, scores) <= share
      Short == 10 * Rank(a, [b \in DOMAIN scores |-> -scores[b]]) <= share
  IN  (IF Long THEN 1 ELSE 0) - (IF Short THEN 1 ELSE 0)

\* update_targets
UpdateTargets ==
  /\ heartbeat = "idle" /\ beat < hour
  /\ heartbeat' = "waiting" /\ retry' = 0 /\ beat' = hour
  /\ UNCHANGED <<hour, stored, wire, candles, file>>

Retry ==
  /\ heartbeat = "waiting" /\ ~HasLastData /\ retry < MaxRetries
  /\ retry' = retry + 1
  /\ UNCHANGED <<hour, stored, wire, candles, heartbeat, beat, file>>

\* After all retries it gives up, with the last candles or without them.
GiveUp ==
  /\ heartbeat = "waiting" /\ retry = MaxRetries
  /\ heartbeat' = "idle"
  /\ UNCHANGED <<hour, stored, wire, candles, retry, beat, file>>

\* compute_targets and save_targets.  Of too few rows there are no scores, and no signals;
\* of no row there is no last one, which is an error that ends the thread.
SaveTargets(scores) ==
  /\ heartbeat = "waiting" /\ HasLastData /\ retry < MaxRetries
  /\ heartbeat' = IF Kept = {} THEN "ended" ELSE "idle"
  /\ file' = IF Kept = {} THEN file
             ELSE [hour |-> hour, stamp |-> Max(Kept), scores |-> scores,
                   targets |-> [a \in Selected |-> IF Cardinality(Kept) <= Rolling THEN 0
                                                   ELSE Signal(a, scores)]]
  /\ UNCHANGED <<hour, stored, wire, candles, retry, beat>>

Next ==
  \/ Tick \/ UpdateTargets \/ Retry \/ GiveUp
  \/ \E a \in Assets : Store(a) \/ \E t \in 0..hour : OnCandleEvent(a, t)
  \/ \E scores \in [Selected -> Scores] : SaveTargets(scores)

Spec == Init /\ [][Next]_vars

-----------------------------------------------------------------------------
\* The candles of an asset have no hole when the targets are computed.
Gapless(s) == Range(s) = Min(Range(s))..Last(s)

\* The targets are of the hour that closed last.  An asset whose candles have no hole has a
\* target, unless another's begin two hours or more before its own: through candles lost,
\* repeated and late, and series loaded again in between.  Between two assets the one with
\* the lower score is never sold while the other is not, and never bought and sold at once;
\* as many are bought as sold where no scores are equal.
TargetsOfCandles ==
  [][file' # file =>
       /\ file'.stamp = hour - 1
       /\ \A a \in Assets : Gapless(candles[a]) =>
            \/ a \in DOMAIN file'.targets
            \/ \E b \in Assets : Min(Range(candles[b])) <= Min(Range(candles[a])) - 2
       /\ \A a, b \in DOMAIN file'.targets :
            file'.scores[a] < file'.scores[b] => file'.targets[a] >= file'.targets[b]
       /\ IsInjective(file'.scores) => SumFunction(file'.targets) = 0]_vars
=============================================================================
