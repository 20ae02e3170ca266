---------------------------- MODULE TriggerSession ----------------------------
(***************************************************************************)
(* A trigger server and the command line that drives it (trigger_base and  *)
(* the clients of the triggers).  A server registers its id in redis, up,  *)
(* when it is built, and unavailable when it leaves; two that have one id  *)
(* both run, on the same commands.  The client keeps a config of its own,  *)
(* changed by some commands and sent whole with others; a server takes the *)
(* config that comes with a command and keeps the one it has otherwise.    *)
(*                                                                         *)
(* `spread' is the family of the spread triggers, `mm' that of the market  *)
(* maker.  A config is its legs, in order, and two fields: bp and sp for   *)
(* `mm', and two of the others for `spread'.                               *)
(***************************************************************************)
EXTENDS Integers, Sequences

CONSTANTS
  Servers,      \* processes of one id
  Values,       \* of a field
  None,
  MaxCommands, MaxStarts, MaxQueue   \* bounds

VARIABLES
  family,
  registered,  \* what redis has at the id
  server,      \* server[s]: "off", "built", "up", or "leaving" when it still has to disconnect
  config,      \* config[s], None until a command brings one
  doing,       \* doing[s]: "run" or "none"; "long", "short" or "none"
  queue,       \* queue[s]: the commands on their way
  client,      \* the config of the client
  commands, starts,
  heard,       \* history: the last command with a config that was sent to s, or None
  dirty,       \* history: the client changed its config since it sent it
  left,        \* history: a server disconnected while s ran
  killed       \* history: a server was killed, since one left properly

vars == <<family, registered, server, config, doing, queue, client, commands, starts, heard, dirty,
          left, killed>>
serving == <<registered, server, config, doing, starts, left, killed>>

Legs == {<<"a", "b">>, <<"b", "a">>}
Config == [legs : Legs, bp : Values, sp : Values]
Inverted(c) == [c EXCEPT !.legs = <<c.legs[2], c.legs[1]>>]
Actions == {"start", "stop", "long", "short", "cancel", "config", "stop_server", "cancel_all",
            "send_orders", "reset"}
Command == [action : Actions, config : Config \cup {None}]

TriggerSessionAssumption ==
  /\ None \notin Values \cup Config \cup Command
  /\ MaxCommands \in Nat /\ MaxStarts \in Nat /\ MaxQueue \in Nat

TypeOK ==
  /\ family \in {"spread", "mm"}
  /\ registered \in {"none", "UP", "UNAVAILABLE"}
  /\ server \in [Servers -> {"off", "built", "up", "leaving"}]
  /\ config \in [Servers -> Config \cup {None}]
  /\ heard \in [Servers -> Command \cup {None}]
  /\ doing \in [Servers -> {"none", "run", "long", "short"}]
  /\ queue \in [Servers -> Seq(Command)]
  /\ \A s \in Servers : Len(queue[s]) <= MaxQueue
  /\ client \in Config
  /\ commands \in 0..MaxCommands /\ starts \in 0..MaxStarts
  /\ dirty \in BOOLEAN /\ left \subseteq Servers /\ killed \in BOOLEAN

Init ==
  /\ family \in {"spread", "mm"}
  /\ registered = "none" /\ server = [s \in Servers |-> "off"]
  /\ config = [s \in Servers |-> None] /\ doing = [s \in Servers |-> "none"]
  /\ queue = [s \in Servers |-> <<>>]
  /\ \E v \in Values : client = [legs |-> <<"a", "b">>, bp |-> v, sp |-> v]
  /\ commands = 0 /\ starts = 0
  /\ heard = [s \in Servers |-> None] /\ dirty = FALSE /\ left = {} /\ killed = FALSE

-----------------------------------------------------------------------------
(* The client                                                                *)

Message(action, conf) == [action |-> action, config |-> conf]

\* send_trigger, of one command or more
SendTrigger(messages) ==
  LET brings == {k \in DOMAIN messages : messages[k].config # None}
      to == {s \in Servers : server[s] = "up"}
  IN  /\ commands < MaxCommands /\ commands' = commands + 1
      /\ \A s \in to : Len(queue[s]) + Len(messages) <= MaxQueue
      /\ queue' = [s \in Servers |-> IF s \in to THEN queue[s] \o messages ELSE queue[s]]
      /\ heard' = IF brings = {} THEN heard
                  ELSE [s \in Servers |-> IF s \in to THEN messages[Len(messages)] ELSE heard[s]]
      /\ UNCHANGED <<family, serving>>

Sends(action) == SendTrigger(<<Message(action, None)>>) /\ UNCHANGED <<client, dirty>>
SendsConfig(action, conf) == SendTrigger(<<Message(action, conf)>>)

\* do_set, which sends nothing
DoSet(field, v) ==
  /\ commands < MaxCommands /\ commands' = commands + 1
  /\ client[field] # v /\ client' = [client EXCEPT ![field] = v]
  /\ dirty' = TRUE
  /\ UNCHANGED <<family, serving, queue, heard>>

\* do_revert
DoRevert ==
  /\ commands < MaxCommands /\ commands' = commands + 1
  /\ client' = Inverted(client) /\ dirty' = TRUE
  /\ UNCHANGED <<family, serving, queue, heard>>

\* do_push_config, do_start, do_long
DoPushConfig == SendsConfig("config", client) /\ dirty' = FALSE /\ UNCHANGED client
DoStart == family = "mm" /\ SendsConfig("start", client) /\ dirty' = FALSE /\ UNCHANGED client
DoLong == family = "spread" /\ SendsConfig("long", client) /\ dirty' = FALSE /\ UNCHANGED client

\* Mutant: the config of the client is inverted, and not a copy.
DoShortInPlace ==
  /\ family = "spread" /\ SendsConfig("short", Inverted(client))
  /\ dirty' = FALSE /\ client' = Inverted(client)

\* do_short
DoShort ==
  /\ family = "spread" /\ SendsConfig("short", Inverted(client))
  /\ dirty' = FALSE /\ UNCHANGED client

\* _set_conf with a restart, and _order_percent of one side.  The method do_s that the class
\* defines last is the one of the sell side: nothing is bound to stop by a letter.
SetConf(field, v) ==
  /\ family = "mm" /\ client' = [client EXCEPT ![field] = v]
  /\ SendsConfig("start", client') /\ dirty' = FALSE

\* do_f: a start for each side, the first with half of the change
DoF(v) ==
  LET half == [client EXCEPT !.bp = v]
      full == [half EXCEPT !.sp = v]
  IN  /\ family = "mm" /\ client' = full
      /\ SendTrigger(<<Message("start", half), Message("start", full)>>) /\ dirty' = FALSE

DoStop == Sends("stop")
DoReset == family = "mm" /\ Sends("reset")
DoCancel == Sends("cancel")
DoCancelAll == Sends("cancel_all")
DoStopServer == Sends("stop_server")
DoShowOrders == Sends("send_orders")

-----------------------------------------------------------------------------
(* The server                                                                *)

\* _register_trigger: a warning, and no exit, when another one is up.
Register(s) ==
  /\ server[s] = "off" /\ starts < MaxStarts /\ starts' = starts + 1
  /\ server' = [server EXCEPT ![s] = "built"]
  /\ registered' = "UP"
  /\ config' = [config EXCEPT ![s] = None] /\ doing' = [doing EXCEPT ![s] = "none"]
  /\ left' = left \ {s}
  /\ UNCHANGED <<family, queue, client, commands, heard, dirty, killed>>

\* subscribe_to_events
SubscribeToEvents(s) ==
  /\ server[s] = "built" /\ server' = [server EXCEPT ![s] = "up"]
  /\ queue' = [queue EXCEPT ![s] = <<>>] /\ heard' = [heard EXCEPT ![s] = None]
  /\ UNCHANGED <<family, registered, config, doing, client, commands, starts, dirty, left, killed>>

\* What the trigger makes of a command: the market maker runs or not, a spread trigger
\* retries a side until it is sent or cancelled.
Doing(s, action) ==
  CASE family = "mm" /\ action = "start" -> "run"
    [] family = "mm" /\ action = "stop" -> "none"
    [] family = "spread" /\ action \in {"long", "short"} -> action
    [] family = "spread" /\ action = "cancel" -> "none"
    [] OTHER -> doing[s]

Leaves(s) ==
  /\ registered' = "UNAVAILABLE"
  /\ left' = left \cup {t \in Servers \ {s} : server[t] \in {"built", "up"}}
  /\ killed' = FALSE

\* on_trigger_event: exit() leaves the disconnect of atexit to be done.  send_orders raises:
\* there is no client_id.
OnTriggerEvent(s) ==
  LET m == Head(queue[s])
      stops == m.action = "stop_server"
  IN  /\ server[s] = "up" /\ queue[s] # <<>>
      /\ config' = IF m.config = None THEN config ELSE [config EXCEPT ![s] = m.config]
      /\ doing' = [doing EXCEPT ![s] = Doing(s, m.action)]
      /\ queue' = [queue EXCEPT ![s] = IF stops THEN <<>> ELSE Tail(@)]
      /\ IF stops THEN server' = [server EXCEPT ![s] = "leaving"] /\ Leaves(s)
         ELSE UNCHANGED <<server, registered, left, killed>>
      /\ UNCHANGED <<family, client, commands, starts, heard, dirty>>

\* Ctrl-C
Interrupt(s) ==
  /\ server[s] \in {"built", "up"} /\ server' = [server EXCEPT ![s] = "leaving"]
  /\ queue' = [queue EXCEPT ![s] = <<>>]
  /\ UNCHANGED <<family, registered, config, doing, client, commands, starts, heard, dirty, left,
                 killed>>

\* clean_exit, disconnect
CleanExit(s) ==
  /\ server[s] = "leaving" /\ server' = [server EXCEPT ![s] = "off"]
  /\ Leaves(s)
  /\ UNCHANGED <<family, config, doing, queue, client, commands, starts, heard, dirty>>

\* SIGTERM, or a crash of the machine: no handler runs.
Kill(s) ==
  /\ server[s] # "off" /\ server' = [server EXCEPT ![s] = "off"]
  /\ queue' = [queue EXCEPT ![s] = <<>>] /\ killed' = TRUE
  /\ UNCHANGED <<family, registered, config, doing, client, commands, starts, heard, dirty, left>>

Next ==
  \/ \E field \in {"bp", "sp"}, v \in Values : DoSet(field, v) \/ SetConf(field, v)
  \/ \E v \in Values : DoF(v)
  \/ DoRevert \/ DoPushConfig \/ DoStart \/ DoLong \/ DoShort
  \/ DoStop \/ DoReset \/ DoCancel \/ DoCancelAll \/ DoStopServer \/ DoShowOrders
  \/ \E s \in Servers : \/ Register(s) \/ SubscribeToEvents(s) \/ OnTriggerEvent(s)
                        \/ Interrupt(s) \/ CleanExit(s) \/ Kill(s)

Spec == Init /\ [][Next]_vars

-----------------------------------------------------------------------------
\* Once a server has read its commands, it has the config the client shows, with the legs
\* inverted if the last command that brought one was a short, unless the client changed its
\* config since and did not send it; and none if it listens since the last one.  A server that runs is
\* registered as up, unless another one that had its id has left since; and the id of one that
\* has left is not up, unless it was killed.
SessionAgrees ==
  /\ \A s \in Servers :
       server[s] = "up" /\ queue[s] = <<>> =>
         /\ config[s] = None <=> heard[s] = None
         /\ config[s] # None /\ ~dirty =>
              config[s] = IF heard[s].action = "short" THEN Inverted(client) ELSE client
         /\ doing[s] = "run" => config[s] # None
  /\ \A s \in Servers : server[s] \in {"built", "up"} /\ s \notin left => registered = "UP"
  /\ registered = "UP" =>
       killed \/ \E s \in Servers : server[s] \in {"built", "up", "leaving"}
=============================================================================
