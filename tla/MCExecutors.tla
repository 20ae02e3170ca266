----------------------------- MODULE MCExecutors -----------------------------
(* Executors that share no state, each checked on its own in one run: `who' *)
(* is the one that runs, and the others stay as they start.                 *)
EXTENDS MMTrigger

CONSTANTS Bids, Asks, NbOrders, MaxDumbOrders, MaxDumbCrashes,    \* MMDumb
          Hours, Listed, MaxRollers,                              \* Roller
          FirstLeg, OrderQty, Start, MaxOrders, MaxTriggers,      \* SpreadTriggerLiqWait
          Instruments, Converted, Spot, Books, Rates, Fundings,   \* AggrBook
          TakerFee, MakerFee, One

VARIABLES
  who,
  liq, clientBuys, orders, spreadTrigger, buys, side, open, firing, up, fired, asked,
  spreadCrashes, armed, over, served, pushed, wrong, broken,
  running, known, hash, todo, owed, onWay, working, ended, used, dumbCrashes, unstored,
  clock, loop, ping, pong, hour, book, order, offset, starts, cut,
  legState, retry, firstOrder, hedgeOrder, chased, held, heard, seen, acks, events, cancels,
  cancelAll, triggers,
  use, orderbooks, currency, l2_up, funding_up, taker_buys, taker_sells, maker_buys,
  maker_sells, funding_rates, ordered_rates, stale

Spread == INSTANCE SpreadTrigger WITH crashes <- spreadCrashes, trigger <- spreadTrigger
Dumb == INSTANCE MMDumb
Roll == INSTANCE Roller
Wait == INSTANCE SpreadTriggerLiqWait WITH orders <- chased
Aggr == INSTANCE AggrBook

ASSUME ExecutorsAssumption ==
  /\ MMTriggerAssumption /\ Spread!SpreadAssumption
  /\ Dumb!MMDumbAssumption /\ Roll!RollerAssumption /\ Wait!LiqWaitAssumption
  /\ Aggr!AggrBookAssumption

spread == <<liq, clientBuys, orders, spreadTrigger, buys, side, open, firing, up, fired, asked,
            spreadCrashes, armed, over, served, pushed, wrong, broken>>
dumb == <<running, known, hash, todo, owed, onWay, working, ended, used, dumbCrashes, unstored>>
roll == <<clock, loop, ping, pong, hour, book, order, offset, starts, cut>>
wait == <<legState, retry, firstOrder, hedgeOrder, chased, held, heard, seen, acks, events,
          cancels, cancelAll, triggers>>
aggr == <<use, orderbooks, currency, l2_up, funding_up, taker_buys, taker_sells, maker_buys,
          maker_sells, funding_rates, ordered_rates, stale>>
executors == <<who, vars, spread, dumb, roll, wait, aggr>>

ExecutorsInit ==
  /\ Init /\ Spread!Init /\ Dumb!Init /\ Roll!Init /\ Wait!Init /\ Aggr!Init
  /\ who \in {"mm", "spread", "dumb", "roller", "wait", "books"}
  /\ who # "spread" => ~liq
  /\ who # "roller" => book
  /\ who # "books" => /\ use = "both" /\ l2_up = {}
                      /\ \A i \in Instruments : funding_rates[i] = 1

ExecutorsNext ==
  /\ UNCHANGED who
  /\ \/ who = "mm" /\ Next /\ UNCHANGED <<spread, dumb, roll, wait, aggr>>
     \/ who = "spread" /\ Spread!Next /\ UNCHANGED <<vars, dumb, roll, wait, aggr>>
     \/ who = "dumb" /\ Dumb!Next /\ UNCHANGED <<vars, spread, roll, wait, aggr>>
     \/ who = "roller" /\ Roll!Next /\ UNCHANGED <<vars, spread, dumb, wait, aggr>>
     \/ who = "wait" /\ Wait!Next /\ UNCHANGED <<vars, spread, dumb, roll, aggr>>
     \/ who = "books" /\ Aggr!Next /\ UNCHANGED <<vars, spread, dumb, roll, wait>>

\* The fairness of MMTrigger and of Roller, of the one that runs.
ExecutorsFairness ==
  /\ WF_vars(who = "mm" /\ OnTriggerEvent)
  /\ WF_vars(who = "mm" /\ Wake)
  /\ WF_vars(who = "mm" /\ BookCancels)
  /\ WF_roll(who = "roller" /\ Roll!Tick)
  /\ WF_roll(who = "roller" /\ Roll!CheckHour)
  /\ WF_roll(who = "roller" /\ Roll!TryRoll)
  /\ WF_roll(who = "roller" /\ Roll!Pong)
  /\ WF_roll(who = "roller" /\ Roll!SendOrder)

ExecutorsSpec == ExecutorsInit /\ [][ExecutorsNext]_executors /\ ExecutorsFairness

\* The types of all of them.
ExecutorsTyped == TypeOK /\ Spread!TypeOK /\ Dumb!TypeOK /\ Roll!TypeOK /\ Wait!TypeOK
                    /\ Aggr!TypeOK

\* A pair is of the command that was retried, once, whole and the way it was commanded.
PairsAsCommanded == Spread!PairsAsCommanded

\* What is to be sent once is sent once: one order at a level, whatever came late or was
\* restarted, and one roll of a position, whoever else was busy.
SentOnce == Dumb!OneOrderPerLevel /\ Roll!RolledOnce

\* A ping for the roll is followed by the roll or undone.
PingIsUndone == Roll!PingIsUndone

\* What the first leg traded is hedged by the second.
FirstIsHedged == Wait!FirstIsHedged

\* The spread an executor reads of the books is the widest there is.
SpreadIsWidest == who = "books" => Aggr!SpreadIsWidest

Books_ == {[bid |-> 3, ask |-> 4], [bid |-> 4, ask |-> 6]}
Fundings_ == {-1, 1}
TakerFees == [i \in Instruments |-> IF i \in Spot THEN 1 ELSE 0]
MakerFees == [i \in Instruments |-> IF i \in Spot THEN 0 ELSE 1]
Flat == [leg \in {"left", "right"} |-> 0]
=============================================================================
