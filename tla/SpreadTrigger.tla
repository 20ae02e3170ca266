----------------------------- MODULE SpreadTrigger -----------------------------
(***************************************************************************)
(* The triggers that buy one leg and sell the other at once                *)
(* (spread_trigger.py, spread_trigger_liq.py), with their client.  A       *)
(* command is tried when it comes and, within a number of seconds, again   *)
(* at each book, until the checks pass.  The legs that are bought and sold *)
(* are those of the trigger's config: the client sends its own for a long  *)
(* and a copy with the legs inverted for a short, and the config that came *)
(* last is the one a retry uses.                                           *)
(*                                                                         *)
(* The post-only variant ends every attempt in an exception: it asks its   *)
(* config for a field fp it does not have.  `liq' says which of the two    *)
(* the process is.  Prices decide only whether the spread is enough.       *)
(***************************************************************************)
EXTENDS Integers, Sequences

CONSTANTS
  MaxCommands,    \* bound: commands of the client
  MaxCrashes      \* bound: crashes of the trigger

SpreadAssumption == MaxCommands \in Nat /\ MaxCrashes \in Nat

Legs == {"left", "right"}
Other(leg) == IF leg = "left" THEN "right" ELSE "left"
NoLeg == "none"

VARIABLES
  liq,          \* which of the two triggers it is: a fact, not a state
  clientBuys,   \* the leg the client's config buys on
  orders,       \* commands on the way: their numbers, what is asked, and the leg
                \* the config they carry buys on
  trigger,      \* "up" or "down"
  buys,         \* the leg the trigger's config buys on, NoLeg without a config
  side,         \* "long", "short" or "none": the command that is retried
  open,         \* whether its seconds are not over
  firing,       \* the orders of a pair still to fire
  up,           \* up[leg]: trading_up of the leg's exchange
  fired,        \* the orders fired: bought and sold
  asked, crashes,
  armed,        \* history: the number of the command that is retried
  over,         \* history: the commands up to this one were cancelled, or replaced
                \* by a later one, or are from before a restart
  served,       \* history: the commands a pair was sent for
  pushed,       \* history: a config came while a command was retried
  wrong,        \* history: a pair was sent the other way round
  broken        \* history: a crash cut a pair

client == <<clientBuys, asked>>
arm == <<side, open, armed>>
history == <<over, served, pushed, wrong, broken>>
vars == <<liq, client, orders, trigger, buys, arm, firing, up, fired, crashes, history>>

Message == [action: {"long", "short", "config", "cancel", "stop_server"},
            buys: Legs \cup {NoLeg}, n: 1..MaxCommands]

TypeOK ==
  /\ liq \in BOOLEAN
  /\ clientBuys \in Legs /\ buys \in Legs \cup {NoLeg}
  /\ orders \in Seq(Message)
  /\ trigger \in {"up", "down"}
  /\ side \in {"long", "short", "none"} /\ open \in BOOLEAN
  /\ firing \in Seq({"buy", "sell"})
  /\ up \in [Legs -> BOOLEAN]
  /\ fired \in [{"buy", "sell"} -> Nat]
  /\ asked \in 0..MaxCommands /\ crashes \in 0..MaxCrashes
  /\ armed \in 0..MaxCommands /\ over \in 0..MaxCommands
  /\ served \subseteq 1..MaxCommands
  /\ pushed \in BOOLEAN /\ wrong \in BOOLEAN /\ broken \in BOOLEAN

Init ==
  /\ liq \in BOOLEAN
  /\ clientBuys = "left" /\ buys = NoLeg
  /\ orders = <<>> /\ trigger = "up" /\ firing = <<>>
  /\ side = "none" /\ open = FALSE
  /\ up = [leg \in Legs |-> TRUE]
  /\ fired = [buy |-> 0, sell |-> 0]
  /\ asked = 0 /\ crashes = 0 /\ armed = 0 /\ over = 0 /\ served = {}
  /\ pushed = FALSE /\ wrong = FALSE /\ broken = FALSE

-----------------------------------------------------------------------------
(* The client                                                                *)

SendTrigger(action, config) ==
  /\ asked < MaxCommands
  /\ asked' = asked + 1
  /\ orders' = IF trigger = "down" THEN orders
               ELSE Append(orders, [action |-> action, buys |-> config, n |-> asked + 1])
  /\ UNCHANGED <<liq, trigger, buys, arm, firing, up, fired, crashes, history>>

DoLong == SendTrigger("long", clientBuys) /\ UNCHANGED clientBuys

\* A mutant of DoShort: the config is inverted in place.
DoShortInPlace ==
  /\ clientBuys' = Other(clientBuys)
  /\ SendTrigger("short", Other(clientBuys))

DoShort == SendTrigger("short", Other(clientBuys)) /\ UNCHANGED clientBuys

DoPushConfig == SendTrigger("config", clientBuys) /\ UNCHANGED clientBuys

DoCancelOrStop ==
  /\ \E action \in {"cancel", "stop_server"} : SendTrigger(action, NoLeg)
  /\ UNCHANGED clientBuys

-----------------------------------------------------------------------------
(* The trigger                                                               *)

\* _stop_retry; the seconds are those of the time stamp it clears.
StopRetry == side' = "none" /\ open' = FALSE /\ armed' = 0

Retried(s, n) ==
  /\ side' = s /\ open' = TRUE /\ armed' = n
  /\ UNCHANGED <<firing, served, wrong>>

\* The leg a command is to buy on
Meant(s) == IF s = "long" THEN "left" ELSE "right"

Sent(pair, s, n, leg) ==
  /\ firing' = pair
  /\ served' = IF pair = <<>> THEN served ELSE served \cup {n}
  /\ wrong' = (wrong \/ (pair # <<>> /\ leg # Meant(s)))

\* send_orders: all the checks first.
Pair == IF \A leg \in Legs : up[leg] THEN <<"buy", "sell">> ELSE <<>>

\* Mutants: the retry goes on after a pair; each leg is checked by itself.
BuildOrdersAgain(s, n, leg) ==
  \/ Retried(s, n)
  \/ /\ ~liq
     /\ side' = s /\ open' = TRUE /\ armed' = n
     /\ Sent(Pair, s, n, leg)

BuildOrdersEach(s, n, leg) ==
  \/ Retried(s, n)
  \/ /\ ~liq /\ StopRetry
     /\ Sent(SelectSeq(<<"buy", "sell">>,
                       LAMBDA o : up[IF o = "buy" THEN leg ELSE Other(leg)]),
             s, n, leg)

\* _build_orders for the side s of command n when the config buys on leg: the
\* spread is too small (or, with liq, the attempt raises), and it is retried; or
\* the command is done with, sent or, with an exchange down, not.
BuildOrders(s, n, leg) ==
  \/ Retried(s, n)
  \/ /\ ~liq /\ StopRetry
     /\ Sent(Pair, s, n, leg)

\* on_trigger_event: what the base class does with the config and stop_server,
\* then the command.  A start is a config here, and stop and cancel_all change
\* nothing that is kept: neither ends the retries.  The seconds are those of the
\* config that came last, so one that is pushed may end or reopen them.
OnTriggerEvent ==
  /\ trigger = "up" /\ firing = <<>> /\ orders # <<>>
  /\ LET m == Head(orders)
     IN /\ buys' = IF m.buys = NoLeg THEN buys ELSE m.buys
        /\ pushed' = ( /\ m.action \notin {"long", "short"}
                         /\ (pushed \/ (m.action = "config" /\ side # "none")) )
        /\ orders' = IF m.action = "stop_server" THEN <<>> ELSE Tail(orders)
        /\ trigger' = IF m.action = "stop_server" THEN "down" ELSE "up"
        /\ \/ /\ m.action \in {"long", "short"}
              /\ BuildOrders(m.action, m.n, m.buys)
              /\ over' = m.n - 1
           \/ /\ m.action = "cancel"
              /\ StopRetry
              /\ over' = m.n
              /\ UNCHANGED <<firing, served, wrong>>
           \/ /\ m.action = "config"
              /\ open' \in IF side = "none" THEN {open} ELSE BOOLEAN
              /\ UNCHANGED <<side, armed, over, firing, served, wrong>>
           \/ /\ m.action = "stop_server"
              /\ UNCHANGED <<arm, over, firing, served, wrong>>
  /\ UNCHANGED <<liq, client, up, fired, crashes, broken>>

\* on_order_book_event within the seconds of a command.
OnOrderBookEvent ==
  /\ trigger = "up" /\ firing = <<>>
  /\ side # "none" /\ open
  /\ BuildOrders(side, armed, buys)
  /\ UNCHANGED <<liq, client, orders, trigger, buys, up, fired, crashes, over,
                 pushed, broken>>

\* retry_seconds are over.
Expire ==
  /\ open
  /\ open' = FALSE
  /\ UNCHANGED <<liq, client, orders, trigger, buys, side, armed, firing, up, fired,
                 crashes, history>>

\* send_orders fires one order after the other.
FireOrder ==
  /\ trigger = "up" /\ firing # <<>>
  /\ fired' = [fired EXCEPT ![Head(firing)] = @ + 1]
  /\ firing' = Tail(firing)
  /\ UNCHANGED <<liq, client, orders, trigger, buys, arm, up, crashes, history>>

Crash ==
  /\ trigger = "up" /\ crashes < MaxCrashes
  /\ crashes' = crashes + 1
  /\ trigger' = "down" /\ orders' = <<>> /\ firing' = <<>>
  /\ broken' = (broken \/ Len(firing) = 1)
  /\ UNCHANGED <<liq, client, buys, arm, up, fired, over, served, pushed, wrong>>

\* __init__
Restart ==
  /\ trigger = "down"
  /\ trigger' = "up" /\ buys' = NoLeg /\ StopRetry /\ pushed' = FALSE
  /\ over' = asked
  /\ UNCHANGED <<liq, client, orders, firing, up, fired, crashes, served, wrong,
                 broken>>

StatusChanges(leg) ==
  /\ up' = [up EXCEPT ![leg] = ~@]
  /\ UNCHANGED <<liq, client, orders, trigger, buys, arm, firing, fired, crashes, history>>

Next ==
  \/ DoLong \/ DoShort \/ DoPushConfig \/ DoCancelOrStop
  \/ OnTriggerEvent \/ OnOrderBookEvent \/ Expire \/ FireOrder \/ Crash \/ Restart
  \/ \E leg \in Legs : StatusChanges(leg)

Spec == Init /\ [][Next]_vars

-----------------------------------------------------------------------------
\* A pair is of a command that had none, and that was neither cancelled nor
\* replaced by a later command, nor forgotten by a restart.
PairOfItsCommand ==
  firing = <<>> /\ firing' # <<>> =>
    \E n \in (over' + 1)..asked : n \notin served /\ served' = served \cup {n}

PairsWhole == firing = <<>> /\ ~broken => fired["buy"] = fired["sell"]

\* However often a command is retried (_check_spreads), it brings one pair at most, and
\* none after it was cancelled or another command came.  The two legs are sent together or
\* not at all: only a crash in send_orders, between the two, leaves one of them alone.  And
\* a pair is sent the way it was commanded, unless a config was pushed in between.
PairsAsCommanded ==
  [][/\ PairOfItsCommand /\ PairsWhole'
     /\ wrong' /\ ~wrong => pushed]_vars

\* The comment of do_short: the legs are inverted to short.  A config pushed
\* while the short is retried has the client's legs, and the short buys where
\* it was to sell.
SentAsCommanded == ~wrong
=============================================================================
