-------------------------------- MODULE MMGrid --------------------------------
(***************************************************************************)
(* The config of a trigger and of its clients (mm_grid.py, trigger_base.py)*)
(* The trigger takes the config of whatever command brings one.  A ping    *)
(* brings the config of the client that asks, so the pong, which is to     *)
(* tell the clients the trigger's config, tells them that client's; it     *)
(* goes to the one id all clients have, and each adopts it, asked or not.  *)
(* A client waits a second for its pong and gives up; the pong may still   *)
(* come, from a thread that listens while the user types.                  *)
(*                                                                         *)
(* update_state of this trigger returns at once: no order is sent.         *)
(***************************************************************************)
EXTENDS Integers, Sequences

CONSTANTS
  Clients,
  MaxEdits,         \* bound: values the users set
  MaxGridCommands,  \* bound: commands of the clients
  MaxGridRestarts   \* bound: restarts of the trigger

GridAssumption ==
  MaxEdits \in Nat /\ MaxGridCommands \in Nat /\ MaxGridRestarts \in Nat

NoConfig == -1
Config == -1..MaxEdits     \* a value for each edit; every client starts with 0

VARIABLES
  config, running,   \* the trigger
  toServer,                    \* commands on their way to it
  toClients,                   \* toClients[c]: pongs on their way to c
  clientConfig, is_ready,      \* each client's
  waiting,                     \* the clients in do_ping's loop
  edits, commandsSent, restarts,
  edited,     \* history: clients whose config the user changed after the last pong
  silent      \* history: the trigger's config changed after its last pong

bounds == <<edits, commandsSent, restarts>>
vars == <<config, running, toServer, toClients, clientConfig, is_ready,
          waiting, bounds, edited, silent>>

GridMessage == [action: {"ping", "start", "update", "stop"}, config: Config]

TypeOK ==
  /\ config \in Config /\ running \in BOOLEAN
  /\ toServer \in Seq(GridMessage)
  /\ toClients \in [Clients -> Seq(Config)]
  /\ clientConfig \in [Clients -> Config \ {NoConfig}]
  /\ is_ready \in [Clients -> BOOLEAN]
  /\ waiting \subseteq Clients /\ edited \subseteq Clients
  /\ edits \in 0..MaxEdits /\ commandsSent \in 0..MaxGridCommands
  /\ restarts \in 0..MaxGridRestarts /\ silent \in BOOLEAN

Init ==
  /\ config = NoConfig /\ running = FALSE
  /\ toServer = <<>> /\ toClients = [c \in Clients |-> <<>>]
  /\ clientConfig = [c \in Clients |-> 0]
  /\ is_ready = [c \in Clients |-> FALSE]
  /\ waiting = {} /\ edits = 0 /\ commandsSent = 0 /\ restarts = 0
  /\ edited = {} /\ silent = FALSE

-----------------------------------------------------------------------------
(* A client                                                                  *)

SendTrigger(action, conf) ==
  /\ commandsSent < MaxGridCommands
  /\ commandsSent' = commandsSent + 1
  /\ toServer' = Append(toServer, [action |-> action, config |-> conf])

\* do_set: its own config only.
DoSet(c) ==
  /\ c \notin waiting /\ edits < MaxEdits
  /\ edits' = edits + 1
  /\ clientConfig' = [clientConfig EXCEPT ![c] = edits']
  /\ edited' = edited \cup {c}
  /\ UNCHANGED <<config, running, toServer, toClients, is_ready, waiting,
                 commandsSent, restarts, silent>>

DoCommand(c) ==
  /\ c \notin waiting
  /\ \/ \E action \in {"start", "update"} : SendTrigger(action, clientConfig[c])
     \/ SendTrigger("stop", NoConfig)
  /\ UNCHANGED <<config, running, toClients, clientConfig, is_ready, waiting,
                 edits, restarts, edited, silent>>

DoPing(c) ==
  /\ c \notin waiting
  /\ SendTrigger("ping", clientConfig[c])
  /\ is_ready' = [is_ready EXCEPT ![c] = FALSE]
  /\ waiting' = waiting \cup {c}
  /\ UNCHANGED <<config, running, toClients, clientConfig, edits, restarts,
                 edited, silent>>

\* The loop ends with the answer, or after a hundred looks.
DoPingEnds(c) ==
  /\ c \in waiting
  /\ waiting' = waiting \ {c}
  /\ UNCHANGED <<config, running, toServer, toClients, clientConfig, is_ready,
                 bounds, edited, silent>>

\* Mutant: only a client that waits adopts the config.
OnPongWaiting(c) ==
  /\ toClients[c] # <<>>
  /\ is_ready' = [is_ready EXCEPT ![c] = TRUE]
  /\ clientConfig' = [clientConfig EXCEPT ![c] = IF c \in waiting THEN Head(toClients[c]) ELSE @]
  /\ edited' = edited \ {c}
  /\ toClients' = [toClients EXCEPT ![c] = Tail(@)]
  /\ UNCHANGED <<config, running, toServer, waiting, bounds, silent>>

\* on_trigger_event of the client
OnPong(c) ==
  /\ toClients[c] # <<>>
  /\ is_ready' = [is_ready EXCEPT ![c] = TRUE]
  /\ clientConfig' = [clientConfig EXCEPT ![c] = Head(toClients[c])]
  /\ edited' = edited \ {c}
  /\ toClients' = [toClients EXCEPT ![c] = Tail(@)]
  /\ UNCHANGED <<config, running, toServer, waiting, bounds, silent>>

-----------------------------------------------------------------------------
(* The trigger                                                               *)

OnTriggerEvent ==
  /\ toServer # <<>>
  /\ toServer' = Tail(toServer)
  /\ LET m == Head(toServer)
     IN /\ config' = IF m.config = NoConfig THEN config ELSE m.config
        /\ running' = CASE m.action = "start" -> TRUE
                        [] m.action = "stop" -> FALSE
                        [] OTHER -> running
        /\ toClients' = IF m.action = "ping"
                        THEN [c \in Clients |-> Append(toClients[c], config')]
                        ELSE toClients
        /\ silent' = (m.action # "ping" /\ (silent \/ config' # config))
  /\ UNCHANGED <<clientConfig, is_ready, waiting, bounds, edited>>

ServerRestarts ==
  /\ restarts < MaxGridRestarts
  /\ restarts' = restarts + 1
  /\ config' = NoConfig /\ running' = FALSE /\ toServer' = <<>> /\ silent' = TRUE
  /\ UNCHANGED <<toClients, clientConfig, is_ready, waiting, edits,
                 commandsSent, edited>>

Next ==
  \/ \E c \in Clients : DoSet(c) \/ DoCommand(c) \/ DoPing(c) \/ DoPingEnds(c) \/ OnPong(c)
  \/ OnTriggerEvent \/ ServerRestarts

Spec == Init /\ [][Next]_vars

-----------------------------------------------------------------------------
\* With every message delivered, a client that says it is ready has the config
\* the trigger has, whoever's ping brought it and whenever the pong came, unless
\* its user or a command of another client changed one of them after the pong.
ReadyAgrees ==
  \A c \in Clients :
    /\ is_ready[c] /\ c \notin edited /\ ~silent
    /\ toServer = <<>> /\ toClients[c] = <<>>
    => clientConfig[c] = config
=============================================================================
