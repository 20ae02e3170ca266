------------------------------- MODULE MMTrigger -------------------------------
(***************************************************************************)
(* The market making trigger (mm_trigger.py) on one of its instruments,    *)
(* with the client that commands it and the exchange API that works for    *)
(* it.  Every update asks the exchange to cancel everything, sleeps a      *)
(* second, and sends the orders it had computed before the sleep; nothing  *)
(* waits for the cancel.  The trigger handles one event at a time, so what *)
(* comes while it sleeps waits.  The API starts one task for each event it *)
(* reads, and the tasks reach the exchange in any order.                   *)
(*                                                                         *)
(* Prices, balances and depth decide only which sides are quoted: a choice *)
(* of the update.  The time of the next update is a choice too.  `refresh' *)
(* and `reset' change nothing that is kept here.                           *)
(***************************************************************************)
EXTENDS Integers, Sequences, FiniteSets, SequencesExt

CONSTANTS
  Sides,          \* the sides of the book that may be quoted
  MaxUpdates,     \* bound: updates that sleep
  MaxCommands,    \* bound: commands of the client
  MaxCrashes      \* bound: crashes of the trigger

MMTriggerAssumption ==
  /\ IsFiniteSet(Sides)
  /\ MaxUpdates \in Nat /\ MaxCommands \in Nat /\ MaxCrashes \in Nat

VARIABLES
  pc,           \* the trigger: "down", "idle" or "sleeping"
  configured,   \* whether a command brought it a config
  may_i_run, cancel_all,
  pending,      \* the orders of the update that sleeps
  commands,     \* commands on the way to the trigger
  toApi,        \* orders and cancels on the way to the API
  creating,     \* orders the API is sending
  cancelling,   \* the cancels it is sending, each the number of updates before it
  live,         \* the orders the exchange works
  updates, sent, crashes,
  current,      \* history: the orders of the last update, unless cancelled since
  escaped,      \* history: orders that were on their way when a cancel published
                \* after them took effect, or whose cancel failed
  stopped       \* history: the last of stop and start was a stop

trigger == <<pc, configured, may_i_run, cancel_all, pending, updates, current, stopped>>
exchange == <<creating, cancelling, live, escaped>>
bounds == <<sent, crashes>>
vars == <<trigger, commands, toApi, exchange, bounds>>

MMOrder == [upd: 1..MaxUpdates, side: Sides]
Command == {"start", "stop", "cancel", "cancel_all", "config", "stop_server"}
Request == [kind: {"create"}, order: MMOrder] \cup [kind: {"cancel"}, upd: 0..MaxUpdates]

TypeOK ==
  /\ pc \in {"down", "idle", "sleeping"}
  /\ configured \in BOOLEAN /\ may_i_run \in BOOLEAN /\ cancel_all \in BOOLEAN
  /\ pending \subseteq MMOrder
  /\ commands \in Seq(Command)
  /\ toApi \in Seq(Request)
  /\ creating \subseteq MMOrder /\ live \subseteq MMOrder
  /\ cancelling \in Seq(0..MaxUpdates)
  /\ updates \in 0..MaxUpdates /\ sent \in 0..MaxCommands /\ crashes \in 0..MaxCrashes
  /\ current \subseteq MMOrder /\ escaped \subseteq MMOrder
  /\ stopped \in BOOLEAN

Init ==
  /\ pc = "idle" /\ configured = FALSE
  /\ may_i_run = FALSE /\ cancel_all = FALSE
  /\ pending = {} /\ commands = <<>> /\ toApi = <<>>
  /\ creating = {} /\ cancelling = <<>> /\ live = {}
  /\ updates = 0 /\ sent = 0 /\ crashes = 0
  /\ current = {} /\ escaped = {} /\ stopped = FALSE

-----------------------------------------------------------------------------
(* The client                                                                *)

SendTrigger(action) ==
  /\ sent < MaxCommands
  /\ sent' = sent + 1
  /\ commands' = IF pc = "down" THEN commands ELSE Append(commands, action)
  /\ UNCHANGED <<trigger, toApi, exchange, crashes>>

-----------------------------------------------------------------------------
(* The trigger                                                               *)

\* cancel_all_pendings: the flag and the request.
CancelAllPendings ==
  /\ cancel_all' = FALSE
  /\ toApi' = Append(toApi, [kind |-> "cancel", upd |-> updates])
  /\ current' = {}

\* Mutant: a stop only stops the updates.
OnStopKeeps ==
  /\ may_i_run' = FALSE
  /\ stopped' = TRUE
  /\ UNCHANGED <<cancel_all, toApi, current>>

OnStop ==
  /\ may_i_run' = FALSE /\ cancel_all' = TRUE
  /\ stopped' = TRUE
  /\ UNCHANGED <<toApi, current>>

OnStart ==
  /\ may_i_run' = TRUE
  /\ stopped' = FALSE
  /\ UNCHANGED <<cancel_all, toApi, current>>

\* on_trigger_event: a start and a config bring the client's config; only
\* stop_server ends the process.
OnTriggerEvent ==
  /\ pc = "idle" /\ commands # <<>>
  /\ LET action == Head(commands)
     IN /\ configured' = (configured \/ action \in {"start", "config"})
        /\ \/ action = "start" /\ OnStart
           \/ action = "stop" /\ OnStop
           \/ action \in {"cancel", "cancel_all", "stop_server"} /\ CancelAllPendings
              /\ UNCHANGED <<may_i_run, stopped>>
           \/ action = "config" /\ UNCHANGED <<may_i_run, stopped, cancel_all, toApi, current>>
        /\ pc' = IF action = "stop_server" THEN "down" ELSE "idle"
        /\ commands' = IF action = "stop_server" THEN <<>> ELSE Tail(commands)
  /\ UNCHANGED <<pending, updates, exchange, bounds>>

\* Mutant: the cancel belongs to the update, which a stopped trigger skips.
BookCancelsWhileRunning ==
  /\ pc = "idle" /\ configured /\ cancel_all /\ may_i_run
  /\ CancelAllPendings
  /\ UNCHANGED <<pc, configured, may_i_run, pending, updates, stopped, commands,
                 exchange, bounds>>

\* on_order_book_event when no update is due, when the trigger may not run, or
\* when the checks of the update fail: a cancel that was asked for is sent.
BookCancels ==
  /\ pc = "idle" /\ configured /\ cancel_all
  /\ CancelAllPendings
  /\ UNCHANGED <<pc, configured, may_i_run, pending, updates, stopped, commands,
                 exchange, bounds>>

\* Mutant: the old orders are not cancelled.
UpdateOrdersAdds ==
  /\ pc = "idle" /\ configured /\ may_i_run /\ updates < MaxUpdates
  /\ updates' = updates + 1
  /\ \E sides \in SUBSET Sides : pending' = [upd: {updates + 1}, side: sides]
  /\ pc' = "sleeping" /\ current' = {}
  /\ UNCHANGED <<configured, may_i_run, cancel_all, stopped, commands, toApi,
                 exchange, bounds>>

\* update_orders up to its sleep.
UpdateOrders ==
  /\ pc = "idle" /\ configured /\ may_i_run /\ updates < MaxUpdates
  /\ CancelAllPendings
  /\ updates' = updates + 1
  /\ \E sides \in SUBSET Sides : pending' = [upd: {updates + 1}, side: sides]
  /\ pc' = "sleeping"
  /\ UNCHANGED <<configured, may_i_run, stopped, commands, exchange, bounds>>

\* The orders are fired in turn, all of them or, when the spread is not positive
\* or unknown or the exchange is not up, none.
Wake ==
  /\ pc = "sleeping"
  /\ pc' = "idle" /\ pending' = {}
  /\ \/ UNCHANGED <<toApi, current>>
     \/ /\ toApi' = toApi \o SetToSeq({[kind |-> "create", order |-> o] : o \in pending})
        /\ current' = pending
  /\ UNCHANGED <<configured, may_i_run, cancel_all, updates, stopped, commands,
                 exchange, bounds>>

\* The process dies, in its sleep or not, and nobody cancels its orders.
Crash ==
  /\ pc # "down" /\ crashes < MaxCrashes
  /\ crashes' = crashes + 1
  /\ pc' = "down" /\ pending' = {} /\ commands' = <<>>
  /\ UNCHANGED <<configured, may_i_run, cancel_all, updates, current, stopped, toApi,
                 exchange, sent>>

\* __init__: neither running nor configured, whatever works at the exchange.
Restart ==
  /\ pc = "down"
  /\ pc' = "idle" /\ configured' = FALSE
  /\ may_i_run' = FALSE /\ cancel_all' = FALSE /\ stopped' = FALSE
  /\ UNCHANGED <<pending, updates, current, commands, toApi, exchange, bounds>>

-----------------------------------------------------------------------------
(* The exchange API and the exchange                                         *)

\* on_order_exchange_event and on_cancel_all_orders_instr_event are unsync: the
\* loop goes on with the next event.
ApiTakes ==
  /\ toApi # <<>>
  /\ toApi' = Tail(toApi)
  /\ LET request == Head(toApi)
     IN \/ /\ request.kind = "create"
           /\ creating' = creating \cup {request.order}
           /\ UNCHANGED cancelling
        \/ /\ request.kind = "cancel"
           /\ cancelling' = Append(cancelling, request.upd)
           /\ UNCHANGED creating
  /\ UNCHANGED <<trigger, commands, live, escaped, bounds>>

\* create_order takes effect, or raises.
Create(o) ==
  /\ o \in creating
  /\ creating' = creating \ {o}
  /\ live' = live \cup {o} \/ UNCHANGED live
  /\ UNCHANGED <<trigger, commands, toApi, cancelling, escaped, bounds>>

\* cancel_all_orders cancels what the exchange works, ...
CancelAllOrders(i) ==
  /\ cancelling' = RemoveAt(cancelling, i)
  /\ live' = {}
  /\ escaped' = escaped \cup {o \in creating : o.upd <= cancelling[i]}
  /\ UNCHANGED <<trigger, commands, toApi, creating, bounds>>

\* ... or raises, which is logged.
CancelRaises(i) ==
  /\ cancelling' = RemoveAt(cancelling, i)
  /\ escaped' = escaped \cup {o \in creating \cup live : o.upd <= cancelling[i]}
  /\ UNCHANGED <<trigger, commands, toApi, creating, live, bounds>>

\* The exchange fills an order.
Fill(o) ==
  /\ o \in live
  /\ live' = live \ {o}
  /\ UNCHANGED <<trigger, commands, toApi, creating, cancelling, escaped, bounds>>

-----------------------------------------------------------------------------
Next ==
  \/ \E action \in Command : SendTrigger(action)
  \/ OnTriggerEvent \/ BookCancels \/ UpdateOrders \/ Wake \/ Crash \/ Restart
  \/ ApiTakes
  \/ \E o \in MMOrder : Create(o) \/ Fill(o)
  \/ \E i \in DOMAIN cancelling : CancelAllOrders(i) \/ CancelRaises(i)

\* The loop of the trigger goes on while it is up, and the feed's books never
\* stop: every book event of a trigger asked to cancel sees the flag.
Fairness == WF_vars(OnTriggerEvent) /\ WF_vars(Wake) /\ WF_vars(BookCancels)

Spec == Init /\ [][Next]_vars /\ Fairness

-----------------------------------------------------------------------------
Quiet == pc # "sleeping" /\ toApi = <<>> /\ creating = {} /\ cancelling = <<>>

\* Of the orders of earlier updates, only those on their way to the exchange
\* when a cancel took effect there, or whose cancel failed, still work: however
\* the tasks of the API are scheduled and wherever the trigger died.
OneBatchLive == Quiet => live \subseteq current \cup escaped

\* Once a stop was carried out, nothing but such orders works, even when it came
\* while an update slept with the next orders.
StoppedIsFlat == stopped /\ ~cancel_all /\ Quiet => live \subseteq escaped

\* Both: what works at the exchange is of the last update, or nothing after a stop.
OnlyThisBatch == OneBatchLive /\ StoppedIsFlat

\* A stop is carried out, provided the trigger has a config, is not started
\* again and does not go down: the cancel waits for a book.
StopCancels ==
  (cancel_all /\ configured)
     ~> (~cancel_all \/ may_i_run \/ pc = "down")
=============================================================================
