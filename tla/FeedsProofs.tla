----------------------------- MODULE FeedsProofs ------------------------------
(***************************************************************************)
(* What the modules of MCFeeds keep, in the composition, for any number of *)
(* clients, servers, commands, edits, crashes and restarts: the grid of    *)
(* MMGrid, the session of a trigger's client with its servers, the pairs,  *)
(* the routing of events, the public feeds, the reports of an order and   *)
(* the numbers made of trades.                                             *)
(***************************************************************************)
EXTENDS MCFeeds, SequenceTheorems, FiniteSetTheorems, TLAPS

\* The pong a client will hear last, or else what it shows, is the trigger's config, unless
\* that changed after the trigger's last pong, or the client's after its own.
LastPongIsConfig ==
  ~silent => \A c \in Clients :
    IF toClients[c] # <<>> THEN toClients[c][Len(toClients[c])] = config
    ELSE is_ready[c] /\ c \notin edited => clientConfig[c] = config

\* A ping brings a config: the pong that answers it does too.
PingBringsConfig ==
  /\ \A k \in DOMAIN toServer : toServer[k].action = "ping" => toServer[k].config # NoConfig
  /\ \A c \in Clients : \A k \in DOMAIN toClients[c] : toClients[c][k] # NoConfig

IInv == TypeOK /\ LastPongIsConfig /\ PingBringsConfig

-----------------------------------------------------------------------------
LEMMA NoConfigTyped ==
  ASSUME GridAssumption
  PROVE  NoConfig \in Config /\ 0 \in Config \ {NoConfig}
  BY DEF GridAssumption, Config, NoConfig

LEMMA GridInit ==
  ASSUME GridAssumption, Init
  PROVE  IInv
<1>1. TypeOK
  <2>1. <<>> \in Seq(GridMessage) /\ <<>> \in Seq(Config)
    BY EmptySeq
  <2>2. NoConfig \in Config /\ 0 \in Config \ {NoConfig}
    BY NoConfigTyped
  <2>3. /\ toClients \in [Clients -> Seq(Config)] /\ toServer \in Seq(GridMessage)
        /\ clientConfig \in [Clients -> Config \ {NoConfig}]
        /\ is_ready \in [Clients -> BOOLEAN]
    BY <2>1, <2>2 DEF Init
  <2>4. edits \in 0..MaxEdits /\ commandsSent \in 0..MaxGridCommands /\ restarts \in 0..MaxGridRestarts
    BY DEF GridAssumption, Init
  <2>5. QED
    BY <2>2, <2>3, <2>4 DEF Init, TypeOK
<1>2. LastPongIsConfig /\ PingBringsConfig
  BY DEF Init, LastPongIsConfig, PingBringsConfig
<1>3. QED
  BY <1>1, <1>2 DEF IInv

\* A command changes what is on its way to the trigger, and nothing else but, for a ping, the
\* client that waits for its pong.
LEMMA Commanded ==
  ASSUME GridAssumption, IInv, NEW action \in {"ping", "start", "update", "stop"},
         NEW conf \in Config, SendTrigger(action, conf),
         action = "ping" => conf # NoConfig
  PROVE  /\ commandsSent' \in 0..MaxGridCommands
         /\ toServer' \in Seq(GridMessage)
         /\ \A k \in DOMAIN toServer' : toServer'[k].action = "ping" => toServer'[k].config # NoConfig
<1> DEFINE m == [action |-> action, config |-> conf]
<1>1. m \in GridMessage /\ toServer \in Seq(GridMessage) /\ toServer' = Append(toServer, m)
  BY DEF GridMessage, IInv, TypeOK, SendTrigger
<1>2. /\ toServer' \in Seq(GridMessage) /\ Len(toServer') = Len(toServer) + 1
      /\ \A k \in 1..Len(toServer) : toServer'[k] = toServer[k]
      /\ toServer'[Len(toServer) + 1] = m
  BY <1>1, AppendProperties
<1>3. commandsSent' \in 0..MaxGridCommands
  BY DEF GridAssumption, IInv, TypeOK, SendTrigger
<1>4. QED
  BY <1>1, <1>2, <1>3 DEF IInv, PingBringsConfig

\* Handling a command: the one it takes is gone, and a pong is the last one of every client.
LEMMA Handled ==
  ASSUME GridAssumption, IInv, OnTriggerEvent
  PROVE  IInv'
<1> DEFINE m == Head(toServer)
<1>1. /\ toServer \in Seq(GridMessage) /\ toServer # <<>>
      /\ m \in GridMessage /\ m = toServer[1] /\ 1 \in DOMAIN toServer
      /\ Tail(toServer) \in Seq(GridMessage)
      /\ Len(Tail(toServer)) = Len(toServer) - 1
      /\ \A k \in 1..Len(Tail(toServer)) : Tail(toServer)[k] = toServer[k + 1]
  BY HeadTailProperties DEF IInv, TypeOK, OnTriggerEvent
<1>2. config' \in Config /\ running' \in BOOLEAN /\ silent' \in BOOLEAN
  BY <1>1 DEF IInv, TypeOK, OnTriggerEvent, GridMessage
<1>3. m.action = "ping" => config' # NoConfig
  BY <1>1 DEF IInv, PingBringsConfig, OnTriggerEvent
<1>4. \A k \in DOMAIN toServer' : toServer'[k].action = "ping" => toServer'[k].config # NoConfig
  BY <1>1 DEF IInv, PingBringsConfig, OnTriggerEvent
<1>5. CASE m.action = "ping"
  <2>1. ASSUME NEW c \in Clients
        PROVE  /\ toClients'[c] \in Seq(Config) /\ toClients'[c] # <<>>
               /\ toClients'[c][Len(toClients'[c])] = config'
               /\ \A k \in DOMAIN toClients'[c] : toClients'[c][k] # NoConfig
    <3>1. toClients[c] \in Seq(Config) /\ toClients'[c] = Append(toClients[c], config')
      BY <1>5 DEF IInv, TypeOK, OnTriggerEvent
    <3>2. QED
      BY <3>1, <1>2, <1>3, <1>5, AppendProperties DEF IInv, PingBringsConfig
  <2>2. toClients' \in [Clients -> Seq(Config)]
    BY <1>5, <2>1 DEF OnTriggerEvent
  <2>3. TypeOK'
    BY <1>1, <1>2, <2>2 DEF IInv, TypeOK, OnTriggerEvent, bounds
  <2>4. QED
    BY <2>1, <2>3, <1>4 DEF IInv, LastPongIsConfig, PingBringsConfig
<1>6. CASE m.action # "ping"
  <2>1. TypeOK'
    BY <1>1, <1>2, <1>6 DEF IInv, TypeOK, OnTriggerEvent, bounds
  <2>2. toClients' = toClients /\ (~silent' => ~silent /\ config' = config)
    BY <1>6 DEF OnTriggerEvent
  <2>3. LastPongIsConfig'
    BY <2>2 DEF IInv, LastPongIsConfig, OnTriggerEvent
  <2>4. QED
    BY <2>1, <2>2, <2>3, <1>4 DEF IInv, PingBringsConfig
<1>7. QED
  BY <1>5, <1>6

\* Hearing a pong: the last one leaves the client with the trigger's config.
LEMMA Heard ==
  ASSUME IInv, NEW c \in Clients, OnPong(c)
  PROVE  IInv'
<1>1. /\ toClients[c] \in Seq(Config) /\ toClients[c] # <<>> /\ 1 \in DOMAIN toClients[c]
      /\ Head(toClients[c]) \in Config /\ Head(toClients[c]) = toClients[c][1]
      /\ Tail(toClients[c]) \in Seq(Config)
      /\ Len(Tail(toClients[c])) = Len(toClients[c]) - 1
      /\ \A k \in 1..Len(Tail(toClients[c])) : Tail(toClients[c])[k] = toClients[c][k + 1]
  BY HeadTailProperties DEF IInv, TypeOK, OnPong
<1>2. Head(toClients[c]) # NoConfig
  BY <1>1 DEF IInv, PingBringsConfig
<1>3. TypeOK'
  BY <1>1, <1>2 DEF IInv, TypeOK, OnPong, bounds
<1>4. PingBringsConfig'
  BY <1>1 DEF IInv, TypeOK, PingBringsConfig, OnPong
<1>5. ASSUME ~silent, NEW d \in Clients
      PROVE  IF toClients'[d] # <<>> THEN toClients'[d][Len(toClients'[d])] = config
             ELSE is_ready'[d] /\ d \notin edited' => clientConfig'[d] = config
  <2>1. CASE d # c
    BY <1>5, <2>1 DEF IInv, TypeOK, LastPongIsConfig, OnPong
  <2>2. CASE d = c
    <3>1. toClients'[c] = Tail(toClients[c]) /\ clientConfig'[c] = Head(toClients[c])
      BY DEF IInv, TypeOK, OnPong
    <3>2. toClients[c][Len(toClients[c])] = config
      BY <1>1, <1>5 DEF IInv, LastPongIsConfig
    <3>3. CASE Tail(toClients[c]) # <<>>
      <4>1. Len(Tail(toClients[c])) \in 1..Len(Tail(toClients[c]))
        BY <1>1, <3>3, LenProperties, EmptySeq
      <4>2. Tail(toClients[c])[Len(Tail(toClients[c]))] = config
        BY <1>1, <3>2, <4>1
      <4>3. QED
        BY <2>2, <3>1, <3>3, <4>2
    <3>4. CASE Tail(toClients[c]) = <<>>
      <4>1. Len(toClients[c]) = 1
        <5>1. Len(Tail(toClients[c])) = 0
          BY <3>4, EmptySeq
        <5>2. Len(toClients[c]) \in Nat
          BY <1>1, LenProperties
        <5>3. QED
          BY <1>1, <5>1, <5>2
      <4>2. QED
        BY <1>1, <2>2, <3>1, <3>2, <3>4, <4>1
    <3>5. QED
      BY <3>3, <3>4
  <2>3. QED
    BY <2>1, <2>2
<1>6. LastPongIsConfig'
  BY <1>5 DEF LastPongIsConfig, OnPong
<1>7. QED
  BY <1>3, <1>4, <1>6 DEF IInv

LEMMA GridNext ==
  ASSUME GridAssumption, IInv, [Next]_vars
  PROVE  IInv'
<1>1. ASSUME NEW c \in Clients, DoSet(c) PROVE IInv'
  <2>1. edits' \in 0..MaxEdits /\ edits' \in Config \ {NoConfig}
    BY <1>1 DEF GridAssumption, IInv, TypeOK, DoSet, Config, NoConfig
  <2>2. TypeOK'
    BY <1>1, <2>1 DEF IInv, TypeOK, DoSet
  <2>3. LastPongIsConfig' /\ PingBringsConfig'
    BY <1>1 DEF IInv, TypeOK, LastPongIsConfig, PingBringsConfig, DoSet
  <2>4. QED
    BY <2>2, <2>3 DEF IInv
<1>2. ASSUME NEW c \in Clients, DoCommand(c) PROVE IInv'
  <2>1. PICK action \in {"start", "update", "stop"}, conf \in Config : SendTrigger(action, conf)
    BY <1>2 DEF DoCommand, IInv, TypeOK, NoConfig, Config, GridAssumption
  <2>2. /\ commandsSent' \in 0..MaxGridCommands
        /\ toServer' \in Seq(GridMessage)
        /\ \A k \in DOMAIN toServer' :
             toServer'[k].action = "ping" => toServer'[k].config # NoConfig
    BY <2>1, Commanded
  <2>3. QED
    BY <1>2, <2>2 DEF IInv, TypeOK, LastPongIsConfig, PingBringsConfig, DoCommand
<1>3. ASSUME NEW c \in Clients, DoPing(c) PROVE IInv'
  <2>1. clientConfig[c] \in Config /\ clientConfig[c] # NoConfig
    BY DEF IInv, TypeOK
  <2>2. /\ commandsSent' \in 0..MaxGridCommands
        /\ toServer' \in Seq(GridMessage)
        /\ \A k \in DOMAIN toServer' :
             toServer'[k].action = "ping" => toServer'[k].config # NoConfig
    BY <1>3, <2>1, Commanded DEF DoPing
  <2>3. TypeOK'
    BY <1>3, <2>2 DEF IInv, TypeOK, DoPing
  <2>4. LastPongIsConfig'
    BY <1>3 DEF IInv, TypeOK, LastPongIsConfig, DoPing
  <2>5. QED
    BY <1>3, <2>2, <2>3, <2>4 DEF IInv, PingBringsConfig, DoPing
<1>4. ASSUME NEW c \in Clients, DoPingEnds(c) PROVE IInv'
  BY <1>4 DEF IInv, TypeOK, LastPongIsConfig, PingBringsConfig, DoPingEnds, bounds
<1>5. ASSUME NEW c \in Clients, OnPong(c) PROVE IInv'
  BY <1>5, Heard
<1>6. CASE OnTriggerEvent
  BY <1>6, Handled
<1>7. CASE ServerRestarts
  <2>1. TypeOK'
    <3>1. <<>> \in Seq(GridMessage)
      BY EmptySeq
    <3>2. restarts' \in 0..MaxGridRestarts
      BY <1>7 DEF GridAssumption, IInv, TypeOK, ServerRestarts
    <3>3. QED
      BY <1>7, <3>1, <3>2, NoConfigTyped DEF IInv, TypeOK, ServerRestarts
  <2>2. LastPongIsConfig' /\ PingBringsConfig'
    BY <1>7 DEF IInv, LastPongIsConfig, PingBringsConfig, ServerRestarts
  <2>3. QED
    BY <2>1, <2>2 DEF IInv
<1>8. CASE UNCHANGED vars
  BY <1>8 DEF IInv, TypeOK, LastPongIsConfig, PingBringsConfig, vars, bounds
<1>9. QED
  BY <1>1, <1>2, <1>3, <1>4, <1>5, <1>6, <1>7, <1>8 DEF Next

-----------------------------------------------------------------------------
\* Configs, commands and pongs are well typed: no client ever shows the trigger's
\* missing config.
THEOREM GridTyped == ASSUME GridAssumption PROVE Spec => []TypeOK
<1>1. Init => IInv
  BY GridInit
<1>2. IInv /\ [Next]_vars => IInv'
  BY GridNext
<1>3. IInv => TypeOK
  BY DEF IInv
<1>4. QED
  BY <1>1, <1>2, <1>3, PTL DEF Spec

\* A client that says it is ready has the trigger's config, whoever's ping
\* brought it and however late the pong came.
THEOREM ReadyIsRight == ASSUME GridAssumption PROVE Spec => []ReadyAgrees
<1>1. Init => IInv
  BY GridInit
<1>2. IInv /\ [Next]_vars => IInv'
  BY GridNext
<1>3. IInv => ReadyAgrees
  BY DEF IInv, LastPongIsConfig, ReadyAgrees
<1>4. QED
  BY <1>1, <1>2, <1>3, PTL DEF Spec

-----------------------------------------------------------------------------
(* The sessions: a server, its config and what its client shows               *)
Brings(m) == m.config # None

\* The last command with a config is on its way to a server, or else the server has its config.
LastConfigKept ==
  \A s \in Servers : server[s] = "up" =>
    IF heard[s] = None
    THEN serverConfig[s] = None /\ \A k \in DOMAIN arriving[s] : ~Brings(arriving[s][k])
    ELSE /\ Brings(heard[s])
         /\ \/ /\ serverConfig[s] = heard[s].config
               /\ \A k \in DOMAIN arriving[s] : ~Brings(arriving[s][k])
            \/ \E k \in DOMAIN arriving[s] :
                 /\ arriving[s][k] = heard[s]
                 /\ \A j \in DOMAIN arriving[s] : j > k => ~Brings(arriving[s][j])

Shown(m) == IF m.action = "short" THEN Session!Inverted(client) ELSE client

\* What the client sent last is what it shows, to all servers that listened.
LastConfigShown ==
  \A s \in Servers : server[s] = "up" /\ heard[s] # None /\ ~dirty =>
    heard[s].config = Shown(heard[s])

\* A start brings a config, so nothing runs without one.
StartsBring ==
  /\ \A s \in Servers : \A k \in DOMAIN arriving[s] :
       arriving[s][k].action = "start" => Brings(arriving[s][k])
  /\ \A s \in Servers : doing[s] = "run" => serverConfig[s] # None

UpWhileRunning ==
  /\ \A s \in Servers : server[s] \in {"built", "up"} /\ s \notin left => registered = "UP"
  /\ registered = "UP" =>
       killed \/ \E s \in Servers : server[s] \in {"built", "up", "leaving"}

\* Nothing reached a server that does not listen yet.
BuiltIsBare == \A s \in Servers : server[s] = "built" => serverConfig[s] = None

SessionInv == Session!TypeOK /\ BuiltIsBare /\ LastConfigKept /\ LastConfigShown /\ StartsBring /\ UpWhileRunning

LEMMA SessionInit ==
  ASSUME Session!TriggerSessionAssumption, Session!Init
  PROVE  SessionInv
<1>1. Session!TypeOK
  <2>1. <<>> \in Seq(Session!Command) /\ Len(<<>>) = 0
    BY EmptySeq
  <2>2. client \in Session!Config
    BY DEF Session!Init, Session!Config, Session!Legs
  <2>3. arriving \in [Servers -> Seq(Session!Command)] /\ \A s \in Servers : Len(arriving[s]) <= MaxQueue
    BY <2>1 DEF Session!Init, Session!TriggerSessionAssumption
  <2>4. commands \in 0..MaxCommands /\ starts \in 0..MaxServerStarts
    BY DEF Session!Init, Session!TriggerSessionAssumption
  <2>5. /\ server \in [Servers -> {"off", "built", "up", "leaving"}]
        /\ doing \in [Servers -> {"none", "run", "long", "short"}]
        /\ serverConfig \in [Servers -> Session!Config \cup {None}] /\ heard \in [Servers -> Session!Command \cup {None}]
    BY DEF Session!Init
  <2>6. QED
    BY <2>2, <2>3, <2>4, <2>5 DEF Session!Init, Session!TypeOK
<1>2. LastConfigKept /\ LastConfigShown /\ StartsBring /\ UpWhileRunning /\ BuiltIsBare
  BY DEF Session!Init, BuiltIsBare, LastConfigKept, LastConfigShown, StartsBring, UpWhileRunning
<1>3. QED
  BY <1>1, <1>2 DEF SessionInv

\* What send_trigger does to what is on its way: the last command with a config is the last one.
LEMMA SessionSends ==
  ASSUME Session!TriggerSessionAssumption, SessionInv,
         NEW messages \in Seq(Session!Command), Session!SendTrigger(messages),
         \A k \in DOMAIN messages : messages[k].action = "start" => Brings(messages[k]),
         (\A k \in DOMAIN messages : ~Brings(messages[k]))
           \/ (messages # <<>> /\ Brings(messages[Len(messages)]))
  PROVE  /\ heard' \in [Servers -> Session!Command \cup {None}]
         /\ arriving' \in [Servers -> Seq(Session!Command)]
         /\ \A s \in Servers : Len(arriving'[s]) <= MaxQueue \/ arriving'[s] = arriving[s]
         /\ commands' \in 0..MaxCommands
         /\ LastConfigKept'
         /\ \A s \in Servers : \A k \in DOMAIN arriving'[s] :
              arriving'[s][k].action = "start" => Brings(arriving'[s][k])
         /\ (\A k \in DOMAIN messages : ~Brings(messages[k])) => heard' = heard
         /\ (\E k \in DOMAIN messages : Brings(messages[k])) =>
              \A s \in Servers : server[s] = "up" => heard'[s] = messages[Len(messages)]
<1> DEFINE brings == {k \in DOMAIN messages : messages[k].config # None}
           to == {s \in Servers : server[s] = "up"}
<1>1. /\ commands < MaxCommands /\ commands' = commands + 1
      /\ \A s \in to : Len(arriving[s]) + Len(messages) <= MaxQueue
      /\ arriving' = [s \in Servers |-> IF s \in to THEN arriving[s] \o messages ELSE arriving[s]]
      /\ heard' = IF brings = {} THEN heard
                  ELSE [s \in Servers |-> IF s \in to THEN messages[Len(messages)] ELSE heard[s]]
      /\ UNCHANGED <<registered, server, serverConfig, doing, starts, left, killed>>
  BY DEF Session!SendTrigger, Session!serving
<1>2. /\ heard \in [Servers -> Session!Command \cup {None}] /\ arriving \in [Servers -> Seq(Session!Command)]
      /\ commands \in 0..MaxCommands
      /\ None \notin Session!Config /\ None \notin Session!Command
  BY DEF SessionInv, Session!TypeOK, Session!TriggerSessionAssumption
<1>3. \A k \in DOMAIN messages : messages[k] \in Session!Command
  BY LenProperties, ElementOfSeq
<1>4. ASSUME brings # {}
      PROVE  messages[Len(messages)] \in Session!Command /\ Brings(messages[Len(messages)])
             /\ Len(messages) \in DOMAIN messages
  <2>1. messages # <<>> /\ Brings(messages[Len(messages)])
    BY <1>4 DEF Brings
  <2>2. Len(messages) \in DOMAIN messages
    BY <2>1, LenProperties, EmptySeq
  <2>3. QED
    BY <2>1, <2>2, <1>3
<1>5. heard' \in [Servers -> Session!Command \cup {None}] /\ commands' \in 0..MaxCommands
  BY <1>1, <1>2, <1>4 DEF Session!TriggerSessionAssumption
<1>6. ASSUME NEW s \in Servers
      PROVE  /\ arriving'[s] \in Seq(Session!Command)
             /\ s \notin to => arriving'[s] = arriving[s]
             /\ s \in to =>
                  /\ Len(arriving'[s]) <= MaxQueue
                  /\ arriving'[s] = arriving[s] \o messages
                  /\ Len(arriving'[s]) = Len(arriving[s]) + Len(messages)
                  /\ \A k \in DOMAIN arriving[s] : k \in DOMAIN arriving'[s] /\ arriving'[s][k] = arriving[s][k]
                  /\ \A k \in DOMAIN messages : k + Len(arriving[s]) \in DOMAIN arriving'[s]
                                                /\ arriving'[s][k + Len(arriving[s])] = messages[k]
                  /\ \A k \in DOMAIN arriving'[s] :
                       k \in DOMAIN arriving[s]
                         \/ (k - Len(arriving[s]) \in DOMAIN messages /\ k > Len(arriving[s]))
  <2>1. arriving[s] \in Seq(Session!Command) /\ arriving'[s] = IF s \in to THEN arriving[s] \o messages ELSE arriving[s]
    BY <1>1, <1>2
  <2>2. CASE s \notin to
    BY <2>1, <2>2
  <2>3. CASE s \in to
    <3>1. /\ arriving'[s] \in Seq(Session!Command) /\ Len(arriving'[s]) = Len(arriving[s]) + Len(messages)
          /\ \A i \in 1 .. Len(arriving[s]) + Len(messages) :
               arriving'[s][i] = IF i <= Len(arriving[s]) THEN arriving[s][i] ELSE messages[i - Len(arriving[s])]
      BY <2>1, <2>3, ConcatProperties
    <3>2. /\ DOMAIN arriving'[s] = 1..(Len(arriving[s]) + Len(messages))
          /\ DOMAIN arriving[s] = 1..Len(arriving[s]) /\ DOMAIN messages = 1..Len(messages)
          /\ Len(arriving[s]) \in Nat /\ Len(messages) \in Nat
      BY <2>1, <3>1, LenProperties
    <3>3. Len(arriving'[s]) <= MaxQueue
      BY <1>1, <2>3, <3>1
    <3>4. \A k \in DOMAIN arriving[s] : k \in DOMAIN arriving'[s] /\ arriving'[s][k] = arriving[s][k]
      BY <3>1, <3>2
    <3>5. \A k \in DOMAIN messages : k + Len(arriving[s]) \in DOMAIN arriving'[s]
                                     /\ arriving'[s][k + Len(arriving[s])] = messages[k]
      <4> SUFFICES ASSUME NEW k \in DOMAIN messages
                   PROVE  k + Len(arriving[s]) \in DOMAIN arriving'[s]
                          /\ arriving'[s][k + Len(arriving[s])] = messages[k]
        OBVIOUS
      <4>1. /\ k + Len(arriving[s]) \in 1..(Len(arriving[s]) + Len(messages))
            /\ ~(k + Len(arriving[s]) <= Len(arriving[s]))
            /\ (k + Len(arriving[s])) - Len(arriving[s]) = k
        BY <3>2
      <4>2. arriving'[s][k + Len(arriving[s])] = messages[(k + Len(arriving[s])) - Len(arriving[s])]
        BY <3>1, <4>1
      <4>3. QED
        BY <3>2, <4>1, <4>2
    <3>6. \A k \in DOMAIN arriving'[s] :
            k \in DOMAIN arriving[s] \/ (k - Len(arriving[s]) \in DOMAIN messages /\ k > Len(arriving[s]))
      BY <3>2
    <3>7. QED
      BY <2>1, <2>3, <3>1, <3>3, <3>4, <3>5, <3>6
  <2>4. QED
    BY <2>2, <2>3
<1>7. arriving' \in [Servers -> Seq(Session!Command)]
  BY <1>1, <1>6
<1>8. LastConfigKept'
  <2> SUFFICES ASSUME NEW s \in Servers, server[s] = "up"
               PROVE  IF heard'[s] = None
                      THEN serverConfig[s] = None /\ \A k \in DOMAIN arriving'[s] : ~Brings(arriving'[s][k])
                      ELSE /\ Brings(heard'[s])
                           /\ \/ /\ serverConfig[s] = heard'[s].config
                                 /\ \A k \in DOMAIN arriving'[s] : ~Brings(arriving'[s][k])
                              \/ \E k \in DOMAIN arriving'[s] :
                                   /\ arriving'[s][k] = heard'[s]
                                   /\ \A j \in DOMAIN arriving'[s] : j > k => ~Brings(arriving'[s][j])
    BY <1>1 DEF LastConfigKept, Brings
  <2>1. s \in to /\ arriving[s] \in Seq(Session!Command)
    BY <1>2
  <2>2. DOMAIN arriving[s] = 1..Len(arriving[s]) /\ Len(arriving[s]) \in Nat
        /\ DOMAIN messages = 1..Len(messages) /\ Len(messages) \in Nat
        /\ DOMAIN arriving'[s] = 1..Len(arriving'[s])
    BY <2>1, <1>6, LenProperties
  <2>3. CASE brings = {}
    <3>1. heard' = heard /\ \A k \in DOMAIN messages : ~Brings(messages[k])
      BY <1>1, <2>3 DEF Brings
    <3>2. \A k \in DOMAIN arriving'[s] :
            (k \in DOMAIN arriving[s] /\ arriving'[s][k] = arriving[s][k]) \/ ~Brings(arriving'[s][k])
      <4> SUFFICES ASSUME NEW k \in DOMAIN arriving'[s], k \notin DOMAIN arriving[s]
                   PROVE  ~Brings(arriving'[s][k])
        BY <1>6, <2>1
      <4>1. k - Len(arriving[s]) \in DOMAIN messages
        BY <1>6, <2>1
      <4>2. arriving'[s][(k - Len(arriving[s])) + Len(arriving[s])] = messages[k - Len(arriving[s])]
        BY <1>6, <2>1, <4>1
      <4>3. (k - Len(arriving[s])) + Len(arriving[s]) = k
        BY <2>2
      <4>4. QED
        BY <3>1, <4>1, <4>2, <4>3 DEF Brings
    <3>3. IF heard[s] = None
          THEN serverConfig[s] = None /\ \A k \in DOMAIN arriving[s] : ~Brings(arriving[s][k])
          ELSE /\ Brings(heard[s])
               /\ \/ /\ serverConfig[s] = heard[s].config
                     /\ \A k \in DOMAIN arriving[s] : ~Brings(arriving[s][k])
                  \/ \E k \in DOMAIN arriving[s] :
                       /\ arriving[s][k] = heard[s]
                       /\ \A j \in DOMAIN arriving[s] : j > k => ~Brings(arriving[s][j])
      BY DEF SessionInv, LastConfigKept
    <3>4. CASE heard[s] = None
      BY <3>1, <3>2, <3>3, <3>4 DEF Brings
    <3>5. CASE heard[s] # None /\ serverConfig[s] = heard[s].config
                 /\ \A k \in DOMAIN arriving[s] : ~Brings(arriving[s][k])
      BY <3>1, <3>2, <3>3, <3>5 DEF Brings
    <3>6. ASSUME heard[s] # None, NEW k \in DOMAIN arriving[s], arriving[s][k] = heard[s],
                 \A j \in DOMAIN arriving[s] : j > k => ~Brings(arriving[s][j])
          PROVE  /\ k \in DOMAIN arriving'[s] /\ arriving'[s][k] = heard'[s]
                 /\ \A j \in DOMAIN arriving'[s] : j > k => ~Brings(arriving'[s][j])
      BY <3>1, <3>2, <3>6, <1>6, <2>1 DEF Brings
    <3>7. QED
      BY <3>1, <3>3, <3>4, <3>5, <3>6
  <2>4. CASE brings # {}
    <3>1. heard'[s] = messages[Len(messages)] /\ heard'[s] # None /\ Brings(heard'[s])
      BY <1>1, <1>2, <1>4, <2>1, <2>4
    <3> DEFINE k == Len(messages) + Len(arriving[s])
    <3>2. k \in DOMAIN arriving'[s] /\ arriving'[s][k] = heard'[s]
      BY <3>1, <1>4, <1>6, <2>1, <2>4
    <3>3. \A j \in DOMAIN arriving'[s] : ~(j > k)
      BY <1>6, <2>1, <2>2
    <3>4. QED
      BY <3>1, <3>2, <3>3
  <2>5. QED
    BY <2>3, <2>4
<1>9. ASSUME NEW s \in Servers, NEW k \in DOMAIN arriving'[s], arriving'[s][k].action = "start"
      PROVE  Brings(arriving'[s][k])
  <2>1. \A n \in DOMAIN arriving[s] : arriving[s][n].action = "start" => Brings(arriving[s][n])
    BY DEF SessionInv, StartsBring
  <2>2. CASE s \notin to
    BY <1>6, <1>9, <2>1, <2>2
  <2>3. CASE s \in to /\ k \in DOMAIN arriving[s]
    BY <1>6, <1>9, <2>1, <2>3
  <2>4. CASE s \in to /\ k \notin DOMAIN arriving[s]
    <3>1. k - Len(arriving[s]) \in DOMAIN messages
      BY <1>6, <2>4
    <3>2. arriving'[s][(k - Len(arriving[s])) + Len(arriving[s])] = messages[k - Len(arriving[s])]
      BY <1>6, <2>4, <3>1
    <3>3. (k - Len(arriving[s])) + Len(arriving[s]) = k
      BY <1>2, <1>6, <2>4, LenProperties
    <3>4. QED
      BY <3>1, <3>2, <3>3, <1>9
  <2>5. QED
    BY <2>2, <2>3, <2>4
<1>10. (\A k \in DOMAIN messages : ~Brings(messages[k])) => heard' = heard
  BY <1>1 DEF Brings
<1>11. (\E k \in DOMAIN messages : Brings(messages[k])) =>
         \A s \in Servers : server[s] = "up" => heard'[s] = messages[Len(messages)]
  BY <1>1 DEF Brings
<1>12. \A s \in Servers : Len(arriving'[s]) <= MaxQueue \/ arriving'[s] = arriving[s]
  BY <1>6
<1>13. QED
  BY <1>5, <1>7, <1>8, <1>9, <1>10, <1>11, <1>12

\* A command of the client keeps all that is said of the servers, and what it sent last is what
\* it shows then.
LEMMA ClientSends ==
  ASSUME Session!TriggerSessionAssumption, SessionInv,
         NEW messages \in Seq(Session!Command), Session!SendTrigger(messages),
         \A k \in DOMAIN messages : messages[k].action = "start" => Brings(messages[k]),
         \/ (\A k \in DOMAIN messages : ~Brings(messages[k])) /\ UNCHANGED <<client, dirty>>
         \/ /\ messages # <<>> /\ Brings(messages[Len(messages)])
            /\ client' \in Session!Config /\ dirty' = FALSE
            /\ messages[Len(messages)].config = Shown(messages[Len(messages)])'
  PROVE  SessionInv'
<1>1. /\ heard' \in [Servers -> Session!Command \cup {None}]
      /\ arriving' \in [Servers -> Seq(Session!Command)]
      /\ \A s \in Servers : Len(arriving'[s]) <= MaxQueue \/ arriving'[s] = arriving[s]
      /\ commands' \in 0..MaxCommands
      /\ LastConfigKept'
      /\ \A s \in Servers : \A k \in DOMAIN arriving'[s] :
           arriving'[s][k].action = "start" => Brings(arriving'[s][k])
      /\ (\A k \in DOMAIN messages : ~Brings(messages[k])) => heard' = heard
      /\ (\E k \in DOMAIN messages : Brings(messages[k])) =>
           \A s \in Servers : server[s] = "up" => heard'[s] = messages[Len(messages)]
  BY SessionSends
<1>2. UNCHANGED <<family, registered, server, serverConfig, doing, starts, left, killed>>
  BY DEF Session!SendTrigger, Session!serving
<1>3. Session!TypeOK'
  BY <1>1, <1>2 DEF SessionInv, Session!TypeOK
<1>4. LastConfigShown'
  <2>1. CASE (\A k \in DOMAIN messages : ~Brings(messages[k])) /\ UNCHANGED <<client, dirty>>
    BY <1>1, <1>2, <2>1 DEF SessionInv, LastConfigShown, Shown, Session!Inverted
  <2>2. CASE /\ messages # <<>> /\ Brings(messages[Len(messages)])
             /\ messages[Len(messages)].config = Shown(messages[Len(messages)])'
    <3>1. Len(messages) \in DOMAIN messages
      BY <2>2, LenProperties, EmptySeq
    <3>2. \A s \in Servers : server[s] = "up" => heard'[s] = messages[Len(messages)]
      BY <1>1, <2>2, <3>1
    <3>3. QED
      BY <1>2, <2>2, <3>2 DEF LastConfigShown, Shown
  <2>3. QED
    BY <2>1, <2>2
<1>5. StartsBring' /\ UpWhileRunning' /\ BuiltIsBare'
  BY <1>1, <1>2 DEF SessionInv, StartsBring, UpWhileRunning, BuiltIsBare, Brings
<1>6. QED
  BY <1>1, <1>3, <1>4, <1>5 DEF SessionInv

LEMMA OneCommand ==
  ASSUME Session!TriggerSessionAssumption, NEW action \in Session!Actions, NEW conf \in Session!Config \cup {None}
  PROVE  /\ <<Session!Message(action, conf)>> \in Seq(Session!Command)
         /\ DOMAIN <<Session!Message(action, conf)>> = {1} /\ Len(<<Session!Message(action, conf)>>) = 1
         /\ <<Session!Message(action, conf)>>[1].action = action
         /\ <<Session!Message(action, conf)>>[1].config = conf
         /\ <<Session!Message(action, conf)>> # <<>>
<1>1. Session!Message(action, conf) \in Session!Command /\ Session!Message(action, conf).action = action
      /\ Session!Message(action, conf).config = conf
  BY DEF Session!Message, Session!Command
<1> HIDE DEF Session!Message
<1>2. QED
  BY <1>1

LEMMA ClientStep ==
  ASSUME Session!TriggerSessionAssumption, SessionInv,
         \/ \E field \in {"bp", "sp"}, v \in Values : Session!DoSet(field, v) \/ Session!SetConf(field, v)
         \/ \E v \in Values : Session!DoF(v)
         \/ Session!DoRevert \/ Session!DoPushConfig \/ Session!DoStart \/ Session!DoLong \/ Session!DoShort
         \/ Session!DoStop \/ Session!DoReset \/ Session!DoCancel \/ Session!DoCancelAll \/ Session!DoStopServer \/ Session!DoShowOrders
  PROVE  SessionInv'
<1>0. /\ client \in Session!Config /\ Session!Inverted(client) \in Session!Config /\ None \notin Session!Config
      /\ \A v \in Values : [client EXCEPT !.bp = v] \in Session!Config /\ [client EXCEPT !.sp = v] \in Session!Config
      /\ {"start", "stop", "long", "short", "cancel", "config", "stop_server", "cancel_all",
            "send_orders", "reset"} = Session!Actions
  <2>1. client \in Session!Config /\ None \notin Session!Config
    BY DEF SessionInv, Session!TypeOK, Session!TriggerSessionAssumption
  <2>2. client.legs \in Session!Legs /\ <<client.legs[2], client.legs[1]>> \in Session!Legs
    BY <2>1 DEF Session!Config, Session!Legs
  <2>3. Session!Inverted(client) \in Session!Config
    BY <2>1, <2>2 DEF Session!Config, Session!Inverted
  <2>4. \A v \in Values : [client EXCEPT !.bp = v] \in Session!Config /\ [client EXCEPT !.sp = v] \in Session!Config
    BY <2>1 DEF Session!Config
  <2>5. QED
    BY <2>1, <2>3, <2>4 DEF Session!Actions
<1>1. ASSUME NEW action \in Session!Actions \ {"start"}, Session!Sends(action)
      PROVE  SessionInv'
  <2> DEFINE messages == <<Session!Message(action, None)>>
  <2>1. /\ messages \in Seq(Session!Command) /\ DOMAIN messages = {1} /\ Len(messages) = 1
        /\ messages[1].action = action /\ messages[1].config = None
    BY OneCommand
  <2>2. Session!SendTrigger(messages) /\ UNCHANGED <<client, dirty>>
    BY <1>1 DEF Session!Sends
  <2> HIDE DEF messages
  <2>3. \A k \in DOMAIN messages : ~Brings(messages[k]) /\ messages[k].action # "start"
    BY <1>1, <2>1 DEF Brings
  <2>4. QED
    BY <2>1, <2>2, <2>3, ClientSends
<1>2. ASSUME NEW action \in Session!Actions, NEW conf \in Session!Config, Session!SendsConfig(action, conf),
             client' \in Session!Config, dirty' = FALSE,
             conf = IF action = "short" THEN Session!Inverted(client') ELSE client'
      PROVE  SessionInv'
  <2> DEFINE messages == <<Session!Message(action, conf)>>
  <2>1. /\ messages \in Seq(Session!Command) /\ DOMAIN messages = {1} /\ Len(messages) = 1
        /\ messages[1].action = action /\ messages[1].config = conf /\ messages # <<>>
    BY OneCommand
  <2>2. Session!SendTrigger(messages)
    BY <1>2 DEF Session!SendsConfig
  <2> HIDE DEF messages
  <2>3. Brings(messages[1])
    BY <2>1, <1>0 DEF Brings
  <2>4. messages[Len(messages)].config = Shown(messages[Len(messages)])'
    BY <2>1, <1>2 DEF Shown, Session!Inverted
  <2>5. QED
    BY <2>1, <2>2, <2>3, <2>4, <1>2, ClientSends
<1>3. ASSUME NEW field \in {"bp", "sp"}, NEW v \in Values, Session!DoSet(field, v)
      PROVE  SessionInv'
  <2>0. client' \in Session!Config
    BY <1>0, <1>3 DEF Session!DoSet
  <2>1. Session!TypeOK'
    BY <2>0, <1>3 DEF Session!DoSet, SessionInv, Session!TypeOK, Session!serving,
       Session!TriggerSessionAssumption
  <2>2. LastConfigKept' /\ LastConfigShown'
    BY <1>0, <1>3 DEF Session!DoSet, SessionInv, Session!serving, LastConfigKept,
       LastConfigShown, Brings
  <2>3. StartsBring' /\ UpWhileRunning' /\ BuiltIsBare'
    BY <1>0, <1>3 DEF Session!DoSet, SessionInv, Session!serving, StartsBring, UpWhileRunning,
       BuiltIsBare, Brings
  <2>4. QED
    BY <2>1, <2>2, <2>3 DEF SessionInv
<1>4. ASSUME NEW field \in {"bp", "sp"}, NEW v \in Values, Session!SetConf(field, v)
      PROVE  SessionInv'
  <2>1. client' \in Session!Config
    BY <1>0, <1>4 DEF Session!SetConf
  <2>2. QED
    BY <2>1, <1>0, <1>2, <1>4 DEF Session!SetConf
<1>5. ASSUME NEW half \in Session!Config, NEW full \in Session!Config,
             Session!SendTrigger(<<Session!Message("start", half), Session!Message("start", full)>>),
             client' = full, dirty' = FALSE
      PROVE  SessionInv'
  <2> DEFINE first == Session!Message("start", half)
             second == Session!Message("start", full)
  <2>1. /\ first \in Session!Command /\ second \in Session!Command
        /\ first.action = "start" /\ second.action = "start"
        /\ first.config # None /\ second.config = full /\ full # None
    BY <1>0 DEF Session!Message, Session!Command
  <2>2. Session!SendTrigger(<<first, second>>)
    BY <1>5
  <2> HIDE DEF first, second
  <2> DEFINE messages == <<first, second>>
  <2>3. /\ messages \in Seq(Session!Command) /\ DOMAIN messages = {1, 2} /\ Len(messages) = 2
        /\ messages[1] = first /\ messages[2] = second /\ messages # <<>>
    BY <2>1
  <2>4. Session!SendTrigger(messages)
    BY <2>2
  <2> HIDE DEF messages
  <2>5. \A k \in DOMAIN messages : Brings(messages[k])
    BY <2>1, <2>3 DEF Brings
  <2>6. messages[Len(messages)].config = Shown(messages[Len(messages)])'
    BY <2>1, <2>3, <1>5 DEF Shown
  <2>7. Brings(messages[Len(messages)])
    BY <2>3, <2>5
  <2>8. QED
    BY <1>5, <2>3, <2>4, <2>5, <2>6, <2>7, ClientSends
<1>5a. ASSUME NEW v \in Values, Session!DoF(v)
       PROVE  SessionInv'
  <2> DEFINE half == [client EXCEPT !.bp = v]
             full == [half EXCEPT !.sp = v]
  <2>1. half \in Session!Config /\ full \in Session!Config
    BY <1>0 DEF Session!Config
  <2>2. /\ Session!SendTrigger(<<Session!Message("start", half), Session!Message("start", full)>>)
        /\ client' = full /\ dirty' = FALSE
    BY <1>5a DEF Session!DoF
  <2> HIDE DEF half, full
  <2>3. QED
    BY <1>5, <2>1, <2>2
<1>6. ASSUME Session!DoRevert
      PROVE  SessionInv'
  <2>1. Session!TypeOK'
    <3>1. client' \in Session!Config
      BY <1>0, <1>6 DEF Session!DoRevert
    <3>2. QED
      BY <3>1, <1>6 DEF Session!DoRevert, SessionInv, Session!TypeOK, Session!serving,
         Session!TriggerSessionAssumption
  <2>2. LastConfigKept' /\ LastConfigShown'
    BY <1>0, <1>6 DEF Session!DoRevert, SessionInv, Session!serving, LastConfigKept,
       LastConfigShown, Brings
  <2>3. StartsBring' /\ UpWhileRunning' /\ BuiltIsBare'
    BY <1>0, <1>6 DEF Session!DoRevert, SessionInv, Session!serving, StartsBring,
       UpWhileRunning, BuiltIsBare, Brings
  <2>4. QED
    BY <2>1, <2>2, <2>3 DEF SessionInv
<1>7. CASE Session!DoPushConfig \/ Session!DoStart \/ Session!DoLong
  BY <1>0, <1>2, <1>7 DEF Session!DoPushConfig, Session!DoStart, Session!DoLong
<1>8. CASE Session!DoShort
  BY <1>0, <1>2, <1>8 DEF Session!DoShort
<1>9. CASE Session!DoStop \/ Session!DoReset \/ Session!DoCancel \/ Session!DoCancelAll \/ Session!DoStopServer \/ Session!DoShowOrders
  BY <1>0, <1>1, <1>9 DEF Session!DoStop, Session!DoReset, Session!DoCancel,
     Session!DoCancelAll, Session!DoStopServer, Session!DoShowOrders
<1>10. QED
  BY <1>3, <1>4, <1>5a, <1>6, <1>7, <1>8, <1>9

LEMMA SessionReads ==
  ASSUME Session!TriggerSessionAssumption, SessionInv, NEW s \in Servers, Session!OnTriggerEvent(s)
  PROVE  SessionInv'
<1> DEFINE m == Head(arriving[s])
           q == arriving[s]
<1>1. /\ server[s] = "up" /\ q # <<>> /\ q \in Seq(Session!Command) /\ arriving \in [Servers -> Seq(Session!Command)]
      /\ serverConfig \in [Servers -> Session!Config \cup {None}] /\ server \in [Servers -> {"off", "built", "up", "leaving"}]
      /\ doing \in [Servers -> {"none", "run", "long", "short"}]
      /\ None \notin Session!Config /\ MaxQueue \in Nat
      /\ \A t \in Servers : Len(arriving[t]) <= MaxQueue
  BY DEF Session!OnTriggerEvent, SessionInv, Session!TypeOK, Session!TriggerSessionAssumption
<1>2. /\ m \in Session!Command /\ m = q[1] /\ 1 \in DOMAIN q /\ Tail(q) \in Seq(Session!Command)
      /\ Len(Tail(q)) = Len(q) - 1 /\ DOMAIN q = 1..Len(q) /\ Len(q) \in Nat
      /\ DOMAIN Tail(q) = 1..(Len(q) - 1)
      /\ \A i \in DOMAIN Tail(q) : Tail(q)[i] = q[i + 1]
  BY <1>1, HeadTailProperties, LenProperties, EmptySeq
<1>3. m.action \in Session!Actions /\ m.config \in Session!Config \cup {None}
  BY <1>2 DEF Session!Command
<1>4. /\ serverConfig' = IF m.config = None THEN serverConfig ELSE [serverConfig EXCEPT ![s] = m.config]
      /\ doing' = [doing EXCEPT ![s] = Session!Doing(s, m.action)]
      /\ arriving' = [arriving EXCEPT ![s] = IF m.action = "stop_server" THEN <<>> ELSE Tail(q)]
      /\ UNCHANGED <<family, client, commands, starts, heard, dirty>>
  BY DEF Session!OnTriggerEvent
<1>5. /\ m.action = "stop_server" => server' = [server EXCEPT ![s] = "leaving"] /\ Session!Leaves(s)
      /\ m.action # "stop_server" => UNCHANGED <<server, registered, left, killed>>
  BY DEF Session!OnTriggerEvent
<1> HIDE DEF m, q
<1>6. Session!TypeOK'
  <2>1. Session!Doing(s, m.action) \in {"none", "run", "long", "short"}
    BY <1>1 DEF Session!Doing
  <2>2. serverConfig' \in [Servers -> Session!Config \cup {None}] /\ doing' \in [Servers -> {"none", "run", "long", "short"}]
    BY <1>1, <1>3, <1>4, <2>1
  <2>3. arriving' \in [Servers -> Seq(Session!Command)] /\ \A t \in Servers : Len(arriving'[t]) <= MaxQueue
    <3>1. <<>> \in Seq(Session!Command) /\ Len(<<>>) = 0
      BY EmptySeq
    <3>2. Len(Tail(q)) <= MaxQueue
      BY <1>1, <1>2 DEF q
    <3>3. QED
      BY <1>1, <1>2, <1>4, <3>1, <3>2
  <2>4. /\ server' \in [Servers -> {"off", "built", "up", "leaving"}]
        /\ registered' \in {"none", "UP", "UNAVAILABLE"}
        /\ left' \subseteq Servers /\ killed' \in BOOLEAN
    BY <1>1, <1>5 DEF Session!Leaves, SessionInv, Session!TypeOK
  <2>5. QED
    BY <1>4, <2>2, <2>3, <2>4 DEF SessionInv, Session!TypeOK
<1>7. \A t \in Servers : server'[t] = "up" => server[t] = "up"
  BY <1>1, <1>5
<1>8. LastConfigKept'
  <2> SUFFICES ASSUME NEW t \in Servers, server'[t] = "up"
               PROVE  IF heard[t] = None
                      THEN serverConfig'[t] = None /\ \A k \in DOMAIN arriving'[t] : ~Brings(arriving'[t][k])
                      ELSE /\ Brings(heard[t])
                           /\ \/ /\ serverConfig'[t] = heard[t].config
                                 /\ \A k \in DOMAIN arriving'[t] : ~Brings(arriving'[t][k])
                              \/ \E k \in DOMAIN arriving'[t] :
                                   /\ arriving'[t][k] = heard[t]
                                   /\ \A j \in DOMAIN arriving'[t] : j > k => ~Brings(arriving'[t][j])
    BY <1>4 DEF LastConfigKept, Brings
  <2>1. IF heard[t] = None
        THEN serverConfig[t] = None /\ \A k \in DOMAIN arriving[t] : ~Brings(arriving[t][k])
        ELSE /\ Brings(heard[t])
             /\ \/ /\ serverConfig[t] = heard[t].config
                   /\ \A k \in DOMAIN arriving[t] : ~Brings(arriving[t][k])
                \/ \E k \in DOMAIN arriving[t] :
                     /\ arriving[t][k] = heard[t]
                     /\ \A j \in DOMAIN arriving[t] : j > k => ~Brings(arriving[t][j])
    BY <1>7 DEF SessionInv, LastConfigKept
  <2>2. CASE t # s
    <3>1. serverConfig'[t] = serverConfig[t] /\ arriving'[t] = arriving[t]
      BY <1>1, <1>4, <2>2
    <3>2. QED
      BY <2>1, <3>1
  <2>3. CASE t = s
    <3>1. m.action # "stop_server" /\ arriving'[t] = Tail(q)
      BY <1>1, <1>4, <1>5, <2>3
    <3>2. \A k \in DOMAIN arriving'[t] :
            k \in Nat /\ k + 1 \in DOMAIN q /\ arriving'[t][k] = q[k + 1]
      BY <1>2, <3>1
    <3>3. serverConfig'[t] = IF Brings(m) THEN m.config ELSE serverConfig[t]
      BY <1>1, <1>4, <2>3 DEF Brings
    <3>4. arriving[t] = q
      BY <2>3 DEF q
    <3>5. CASE heard[t] = None
      BY <2>1, <3>2, <3>3, <3>4, <3>5, <1>2
    <3>6. CASE heard[t] # None /\ \A k \in DOMAIN q : ~Brings(q[k])
      <4>1. ~Brings(m) /\ \A k \in DOMAIN arriving'[t] : ~Brings(arriving'[t][k])
        BY <3>2, <3>6, <1>2
      <4>2. serverConfig[t] = heard[t].config /\ Brings(heard[t])
        BY <2>1, <3>4, <3>6
      <4>3. QED
        BY <3>3, <3>6, <4>1, <4>2
    <3>7. CASE heard[t] # None /\ \E k \in DOMAIN q : Brings(q[k])
      <4>1. PICK k \in DOMAIN q : q[k] = heard[t] /\ \A j \in DOMAIN q : j > k => ~Brings(q[j])
        BY <2>1, <3>4, <3>7
      <4>2. Brings(heard[t])
        BY <2>1, <3>7
      <4>3. CASE k = 1
        <5>1. serverConfig'[t] = heard[t].config
          BY <1>2, <3>3, <4>1, <4>2, <4>3
        <5>2. \A j \in DOMAIN arriving'[t] : ~Brings(arriving'[t][j])
          <6> SUFFICES ASSUME NEW j \in DOMAIN arriving'[t] PROVE ~Brings(arriving'[t][j])
            OBVIOUS
          <6>1. j \in Nat /\ j + 1 \in DOMAIN q /\ arriving'[t][j] = q[j + 1] /\ j # 0
            BY <3>1, <3>2, <1>2
          <6>2. j + 1 > k
            BY <6>1, <4>3
          <6>3. QED
            BY <6>1, <6>2, <4>1
        <5>3. QED
          BY <3>7, <4>2, <5>1, <5>2
      <4>4. CASE k # 1
        <5>1. k - 1 \in DOMAIN arriving'[t] /\ arriving'[t][k - 1] = q[k]
          BY <1>2, <3>1, <4>4
        <5>2. \A j \in DOMAIN arriving'[t] : j > k - 1 => ~Brings(arriving'[t][j])
          <6> SUFFICES ASSUME NEW j \in DOMAIN arriving'[t], j > k - 1 PROVE ~Brings(arriving'[t][j])
            OBVIOUS
          <6>1. j + 1 \in DOMAIN q /\ arriving'[t][j] = q[j + 1] /\ j + 1 > k
            BY <3>2, <1>2
          <6>2. QED
            BY <6>1, <4>1
        <5>3. QED
          BY <3>7, <4>1, <4>2, <5>1, <5>2
      <4>5. QED
        BY <4>3, <4>4
    <3>8. QED
      BY <3>5, <3>6, <3>7
  <2>4. QED
    BY <2>2, <2>3
<1>9. LastConfigShown'
  BY <1>4, <1>7 DEF SessionInv, LastConfigShown, Shown, Session!Inverted
<1>10. StartsBring'
  <2>1. ASSUME NEW t \in Servers, NEW k \in DOMAIN arriving'[t], arriving'[t][k].action = "start"
        PROVE  Brings(arriving'[t][k])
    <3>1. \A j \in DOMAIN arriving[t] : arriving[t][j].action = "start" => Brings(arriving[t][j])
      BY DEF SessionInv, StartsBring
    <3>2. CASE t # s
      BY <1>1, <1>4, <2>1, <3>1, <3>2
    <3>3. CASE t = s
      <4>1. arriving'[t] = <<>> \/ arriving'[t] = Tail(q)
        BY <1>1, <1>4, <3>3
      <4>2. arriving'[t] = Tail(q)
        BY <4>1, <2>1
      <4>3. k + 1 \in DOMAIN q /\ arriving'[t][k] = q[k + 1] /\ q = arriving[t]
        BY <4>2, <1>2, <3>3 DEF q
      <4>4. QED
        BY <3>1, <4>3, <2>1
    <3>4. QED
      BY <3>2, <3>3
  <2>2. ASSUME NEW t \in Servers, doing'[t] = "run"
        PROVE  serverConfig'[t] # None
    <3>1. doing[t] = "run" => serverConfig[t] # None
      BY DEF SessionInv, StartsBring
    <3>2. m.action = "start" => m.config # None
      BY <1>1, <1>2 DEF SessionInv, StartsBring, Brings, q
    <3>3. CASE t # s
      BY <1>1, <1>4, <2>2, <3>1, <3>3
    <3>4. CASE t = s /\ doing[t] = "run"
      BY <1>1, <1>4, <3>1, <3>4
    <3>5. CASE t = s /\ doing[t] # "run"
      <4>1. m.action = "start"
        BY <1>1, <1>4, <2>2, <3>5 DEF Session!Doing
      <4>2. QED
        BY <1>1, <1>4, <3>2, <3>5, <4>1
    <3>6. QED
      BY <3>3, <3>4, <3>5
  <2>3. QED
    BY <2>1, <2>2 DEF StartsBring, Brings
<1>11. UpWhileRunning' /\ BuiltIsBare'
  <2>0. BuiltIsBare'
    BY <1>1, <1>4, <1>5 DEF SessionInv, BuiltIsBare
  <2>1. CASE m.action # "stop_server"
    BY <2>0, <1>5, <2>1 DEF SessionInv, UpWhileRunning
  <2>2. CASE m.action = "stop_server"
    BY <2>0, <1>1, <1>5, <2>2 DEF Session!Leaves, SessionInv, UpWhileRunning
  <2>3. QED
    BY <2>0, <2>1, <2>2
<1>12. QED
  BY <1>6, <1>8, <1>9, <1>10, <1>11 DEF SessionInv

LEMMA ServerStep ==
  ASSUME Session!TriggerSessionAssumption, SessionInv, NEW s \in Servers,
         Session!Register(s) \/ Session!SubscribeToEvents(s) \/ Session!Interrupt(s) \/ Session!CleanExit(s) \/ Session!Kill(s)
  PROVE  SessionInv'
<1>0. <<>> \in Seq(Session!Command) /\ Len(<<>>) = 0 /\ DOMAIN <<>> = {}
  BY EmptySeq
<1>1. CASE Session!Register(s)
  <2>1. Session!TypeOK'
    BY <1>1 DEF Session!Register, SessionInv, Session!TypeOK, Session!TriggerSessionAssumption
  <2>2. LastConfigKept' /\ LastConfigShown'
    BY <1>1 DEF Session!Register, SessionInv, Session!TypeOK, LastConfigKept, LastConfigShown,
       Brings, Shown,
              Session!Inverted
  <2>3. StartsBring'
    BY <1>1 DEF Session!Register, SessionInv, Session!TypeOK, StartsBring, Brings
  <2>4. UpWhileRunning' /\ BuiltIsBare'
    BY <1>1 DEF Session!Register, SessionInv, Session!TypeOK, UpWhileRunning, BuiltIsBare
  <2>5. QED
    BY <2>1, <2>2, <2>3, <2>4 DEF SessionInv
<1>2. CASE Session!SubscribeToEvents(s)
  <2>1. Session!TypeOK'
    BY <1>0, <1>2 DEF Session!SubscribeToEvents, SessionInv, Session!TypeOK,
       Session!TriggerSessionAssumption
  <2>2. LastConfigKept' /\ LastConfigShown'
    <3>1. \A t \in Servers \ {s} :
            /\ server'[t] = server[t] /\ arriving'[t] = arriving[t] /\ serverConfig'[t] = serverConfig[t]
            /\ heard'[t] = heard[t]
      BY <1>2 DEF Session!SubscribeToEvents, SessionInv, Session!TypeOK
    <3>2. heard'[s] = None /\ arriving'[s] = <<>> /\ serverConfig'[s] = serverConfig[s] /\ server[s] = "built"
      BY <1>2 DEF Session!SubscribeToEvents, SessionInv, Session!TypeOK
    <3>3. serverConfig[s] = None
      BY <3>2 DEF SessionInv, BuiltIsBare
    <3>4. UNCHANGED <<client, dirty>>
      BY <1>2 DEF Session!SubscribeToEvents
    <3>5. QED
      BY <3>1, <3>2, <3>3, <3>4, <1>0 DEF SessionInv, LastConfigKept, LastConfigShown, Brings,
         Shown,
                                          Session!Inverted
  <2>3. StartsBring'
    BY <1>0, <1>2 DEF Session!SubscribeToEvents, SessionInv, Session!TypeOK, StartsBring, Brings
  <2>4. UpWhileRunning' /\ BuiltIsBare'
    BY <1>2 DEF Session!SubscribeToEvents, SessionInv, Session!TypeOK, UpWhileRunning,
       BuiltIsBare
  <2>5. QED
    BY <2>1, <2>2, <2>3, <2>4 DEF SessionInv
<1>3. CASE Session!Interrupt(s)
  <2>1. Session!TypeOK'
    BY <1>0, <1>3 DEF Session!Interrupt, SessionInv, Session!TypeOK,
       Session!TriggerSessionAssumption
  <2>2. LastConfigKept' /\ LastConfigShown'
    <3>1. \A t \in Servers \ {s} :
            /\ server'[t] = server[t] /\ arriving'[t] = arriving[t] /\ serverConfig'[t] = serverConfig[t]
            /\ heard'[t] = heard[t]
      BY <1>3 DEF Session!Interrupt, SessionInv, Session!TypeOK
    <3>2. server'[s] # "up" /\ UNCHANGED <<client, dirty>>
      BY <1>3 DEF Session!Interrupt, SessionInv, Session!TypeOK
    <3>3. QED
      BY <3>1, <3>2 DEF SessionInv, LastConfigKept, LastConfigShown, Brings, Shown,
         Session!Inverted
  <2>3. StartsBring'
    BY <1>0, <1>3 DEF Session!Interrupt, SessionInv, Session!TypeOK, StartsBring, Brings
  <2>4. UpWhileRunning' /\ BuiltIsBare'
    BY <1>3 DEF Session!Interrupt, SessionInv, Session!TypeOK, UpWhileRunning, BuiltIsBare
  <2>5. QED
    BY <2>1, <2>2, <2>3, <2>4 DEF SessionInv
<1>4. CASE Session!CleanExit(s)
  <2>1. Session!TypeOK' /\ BuiltIsBare'
    BY <1>4 DEF Session!CleanExit, Session!Leaves, SessionInv, Session!TypeOK, BuiltIsBare
  <2>2. LastConfigKept' /\ LastConfigShown'
    BY <1>4 DEF Session!CleanExit, SessionInv, Session!TypeOK, LastConfigKept, LastConfigShown,
       Brings, Shown, Session!Inverted
  <2>3. StartsBring' /\ UpWhileRunning'
    BY <1>4 DEF Session!CleanExit, Session!Leaves, SessionInv, Session!TypeOK, StartsBring,
       UpWhileRunning, Brings
  <2>4. QED
    BY <2>1, <2>2, <2>3 DEF SessionInv
<1>5. CASE Session!Kill(s)
  <2>1. Session!TypeOK'
    BY <1>0, <1>5 DEF Session!Kill, SessionInv, Session!TypeOK, Session!TriggerSessionAssumption
  <2>2. LastConfigKept' /\ LastConfigShown'
    <3>1. \A t \in Servers \ {s} :
            /\ server'[t] = server[t] /\ arriving'[t] = arriving[t] /\ serverConfig'[t] = serverConfig[t]
            /\ heard'[t] = heard[t]
      BY <1>5 DEF Session!Kill, SessionInv, Session!TypeOK
    <3>2. server'[s] # "up" /\ UNCHANGED <<client, dirty>>
      BY <1>5 DEF Session!Kill, SessionInv, Session!TypeOK
    <3>3. QED
      BY <3>1, <3>2 DEF SessionInv, LastConfigKept, LastConfigShown, Brings, Shown,
         Session!Inverted
  <2>3. StartsBring'
    BY <1>0, <1>5 DEF Session!Kill, SessionInv, Session!TypeOK, StartsBring, Brings
  <2>4. UpWhileRunning' /\ BuiltIsBare'
    BY <1>5 DEF Session!Kill, SessionInv, Session!TypeOK, UpWhileRunning, BuiltIsBare
  <2>5. QED
    BY <2>1, <2>2, <2>3, <2>4 DEF SessionInv
<1>6. QED
  BY <1>1, <1>2, <1>3, <1>4, <1>5

LEMMA SessionStep ==
  ASSUME Session!TriggerSessionAssumption, SessionInv, [Session!Next]_(Session!vars)
  PROVE  SessionInv'
<1>1. CASE UNCHANGED Session!vars
  <2>1. Session!TypeOK' /\ BuiltIsBare' /\ StartsBring' /\ UpWhileRunning'
    BY <1>1 DEF Session!vars, SessionInv, Session!TypeOK, BuiltIsBare, StartsBring,
       UpWhileRunning, Brings
  <2>2. LastConfigKept' /\ LastConfigShown'
    BY <1>1 DEF Session!vars, SessionInv, LastConfigKept, LastConfigShown, Brings, Shown,
       Session!Inverted
  <2>3. QED
    BY <2>1, <2>2 DEF SessionInv
<1>2. CASE Session!Next
  BY <1>2, ClientStep, ServerStep, SessionReads DEF Session!Next
<1>3. QED
  BY <1>1, <1>2

LEMMA SessionSafe ==
  ASSUME Session!TriggerSessionAssumption, SessionInv
  PROVE  Session!SessionAgrees
<1>1. ASSUME NEW s \in Servers, server[s] = "up", arriving[s] = <<>>
      PROVE  /\ serverConfig[s] = None <=> heard[s] = None
             /\ serverConfig[s] # None /\ ~dirty =>
                  serverConfig[s] = IF heard[s].action = "short" THEN Session!Inverted(client) ELSE client
             /\ doing[s] = "run" => serverConfig[s] # None
  BY <1>1 DEF SessionInv, LastConfigKept, LastConfigShown, StartsBring, Brings, Shown
<1>2. QED
  BY <1>1 DEF Session!SessionAgrees, SessionInv, UpWhileRunning

\* The session of the composition is one of its own, and rests while another runs.
LEMMA FeedsKeepSessions ==
  ASSUME FeedsAssumption, SessionInv, [FeedsNext]_feeds
  PROVE  SessionInv'
<1>1. Session!TriggerSessionAssumption
  BY DEF FeedsAssumption
<1>2. Session!Next \/ UNCHANGED sessions
  BY DEF FeedsNext, feeds
<1>3. [Session!Next]_(Session!vars)
  BY <1>2 DEF sessions, Session!vars
<1>4. QED
  BY <1>1, <1>3, SessionStep

\* A server that has read its commands has the config its client shows, inverted after a
\* short, unless the client changed it since; and it is registered while it runs: however
\* commands, edits, starts and kills interleave (trigger_base.py, of all the triggers).
THEOREM SessionsAgree == ASSUME FeedsAssumption PROVE FeedsSpec => []SessionAgrees
<1>1. FeedsInit => SessionInv
  BY SessionInit DEF FeedsInit, FeedsAssumption
<1>2. SessionInv /\ [FeedsNext]_feeds => SessionInv'
  BY FeedsKeepSessions
<1>3. SessionInv => SessionAgrees
  BY SessionSafe DEF FeedsAssumption, SessionAgrees
<1>4. QED
  BY <1>1, <1>2, <1>3, PTL DEF FeedsSpec

-----------------------------------------------------------------------------
(* The pairs: z-scores on their way to the seeker, and the orders it sends    *)
Leg == [leg : Pair!Instr, side : {-1, 1}, period : 1..MaxPeriod]
Scores == [kind : {"update", "snapshot"}, values : Seq(Pair!Score)]

PairsTyped ==
  /\ Pair!TypeOK /\ dear \in Dears
  /\ candles \in [Pair!Orders -> [Pair!Instr -> Nat]]
  /\ values \in [Pair!Orders -> Seq(Pair!Score)]
  /\ inbox \in Seq(Scores) /\ sent \in Seq(Leg) /\ firing \in Seq(Leg)

\* The z-score of its period, for a sentinel that was given the pair in order o
IsScore(v, o) == v.z = IF dear[v.period] = "none" THEN 0
                       ELSE IF dear[v.period] = Pair!First(o) THEN 1 ELSE -1

ScoresOfPeriods ==
  \A o \in Pair!Orders : \A k \in DOMAIN values[o] :
    /\ IsScore(values[o][k], o)
    /\ o \in sentinels => values[o][k].period <= candles[o]["a"] /\ values[o][k].period <= candles[o]["b"]
    /\ o \notin late => values[o][k].period = k

\* A seeker that no sentinel of the other order ran with has heard scores of its own order only.
ScoresHeard ==
  ~mixed /\ seeker # "off" =>
    /\ sentinels \subseteq {seeker}
    /\ \A k \in DOMAIN inbox : \A j \in DOMAIN inbox[k].values : IsScore(inbox[k].values[j], seeker)
    /\ \A k \in DOMAIN scores : IsScore(scores[k], seeker)

Against(l) == l.side = IF l.leg = dear[l.period] THEN -1 ELSE 1
Opposite(l, m) == l.leg # m.leg /\ l.side # m.side

LegsAgainst ==
  ~mixed => /\ \A k \in DOMAIN sent : Against(sent[k])
            /\ \A k \in DOMAIN firing : Against(firing[k])

\* Both legs are to be sent, or the first was, or both were.
LegsInPairs ==
  /\ seeker = "off" => firing = <<>>
  /\ broken => seeker = "off" /\ Len(sent) <= 1
  /\ \/ firing = <<>> /\ (~broken => Len(sent) \in {0, 2})
     \/ Len(firing) = 2 /\ Len(sent) = 0 /\ Opposite(firing[1], firing[2])
     \/ Len(firing) = 1 /\ Len(sent) = 1 /\ Opposite(sent[1], firing[1])
  /\ Len(sent) = 2 => Opposite(sent[1], sent[2])

PairInv == PairsTyped /\ ScoresOfPeriods /\ ScoresHeard /\ LegsAgainst /\ LegsInPairs

LEMMA PairInit == ASSUME Pair!PairTradingAssumption, Pair!Init PROVE PairInv
<1>1. <<>> \in Seq(Pair!Score) /\ <<>> \in Seq(Leg) /\ <<>> \in Seq(Scores) /\ Len(<<>>) = 0
  BY EmptySeq
<1>2. PairsTyped
  <2>1. candles \in [Pair!Orders -> [Pair!Instr -> Nat]] /\ values \in [Pair!Orders -> Seq(Pair!Score)]
    BY <1>1 DEF Pair!Init
  <2>2. \A o \in Pair!Orders : \A i \in Pair!Instr : candles[o][i] \in 0..period
    BY DEF Pair!Init
  <2>3. \A o \in Pair!Orders : values[o] \in Seq(Pair!Score)
    BY <2>1
  <2>4. /\ period \in 0..MaxPeriod /\ begun \in 0..MaxPairStarts /\ pairs \in 0..MaxPairs
        /\ mixed \in BOOLEAN /\ broken \in BOOLEAN /\ late \subseteq Pair!Orders
    <3>1. period = 0 /\ begun = 0 /\ pairs = 0 /\ mixed = FALSE /\ broken = FALSE /\ late = {}
      BY DEF Pair!Init
    <3>2. MaxPeriod \in Nat /\ MaxPairStarts \in Nat /\ MaxPairs \in Nat
      BY DEF Pair!PairTradingAssumption
    <3>3. mixed \in BOOLEAN /\ broken \in BOOLEAN /\ late \subseteq Pair!Orders
      BY <3>1, Zenon
    <3>4. period \in 0..MaxPeriod /\ begun \in 0..MaxPairStarts /\ pairs \in 0..MaxPairs
      BY <3>1, <3>2
    <3>5. QED
      BY <3>3, <3>4
  <2>5. Pair!TypeOK
    BY <1>1, <2>2, <2>3, <2>4 DEF Pair!Init, Pair!TypeOK, Leg
  <2>6. QED
    BY <1>1, <2>1, <2>5 DEF Pair!Init, PairsTyped
<1>3. ScoresOfPeriods /\ ScoresHeard /\ LegsAgainst /\ LegsInPairs
  BY <1>1 DEF Pair!Init, ScoresOfPeriods, ScoresHeard, LegsAgainst, LegsInPairs
<1>4. QED
  BY <1>2, <1>3 DEF PairInv

\* What does not touch the legs
LEMMA LegsRest ==
  ASSUME PairInv, UNCHANGED <<dear, firing, sent, seeker, broken>>, mixed => mixed'
  PROVE  LegsAgainst' /\ LegsInPairs'
<1>1. LegsAgainst'
  BY DEF PairInv, LegsAgainst, Against
<1>2. LegsInPairs'
  BY DEF PairInv, LegsInPairs, Opposite
<1>3. QED
  BY <1>1, <1>2

LEMMA ClockTicks == ASSUME Pair!PairTradingAssumption, PairInv, Pair!Tick PROVE PairInv'
<1>1. period \in 0..MaxPeriod /\ period' = period + 1 /\ period' \in 0..MaxPeriod
  BY DEF Pair!Tick, PairInv, PairsTyped, Pair!TypeOK, Pair!PairTradingAssumption
<1>2. \A o \in Pair!Orders : \A i \in Pair!Instr : candles[o][i] \in 0..period'
  BY <1>1 DEF PairInv, PairsTyped, Pair!TypeOK
<1>3. PairsTyped'
  BY <1>1, <1>2 DEF Pair!Tick, PairInv, PairsTyped, Pair!TypeOK
<1>4. ScoresOfPeriods' /\ ScoresHeard'
  BY DEF Pair!Tick, PairInv, ScoresOfPeriods, ScoresHeard, IsScore
<1>5. QED
  BY <1>3, <1>4, LegsRest DEF Pair!Tick, PairInv

LEMMA CandleHeard ==
  ASSUME Pair!PairTradingAssumption, PairInv, NEW o \in Pair!Orders, NEW i \in Pair!Instr, Pair!HearCandle(o, i)
  PROVE  PairInv'
<1>1. /\ candles' = [candles EXCEPT ![o][i] = candles[o][i] + 1]
      /\ candles[o][i] < period /\ period \in Nat
  BY DEF Pair!HearCandle, PairInv, PairsTyped, Pair!TypeOK
<1>2. candles' \in [Pair!Orders -> [Pair!Instr -> Nat]]
  BY <1>1 DEF PairInv, PairsTyped
<1>3. \A p \in Pair!Orders : \A j \in Pair!Instr : candles'[p][j] \in 0..period /\ candles'[p][j] >= candles[p][j]
  BY <1>1 DEF PairInv, PairsTyped, Pair!TypeOK
<1>4. PairsTyped'
  BY <1>2, <1>3 DEF Pair!HearCandle, PairInv, PairsTyped, Pair!TypeOK
<1>5. ScoresOfPeriods'
  <2>1. "a" \in Pair!Instr /\ "b" \in Pair!Instr
    BY DEF Pair!Instr
  <2>2. SUFFICES ASSUME NEW p \in Pair!Orders, NEW k \in DOMAIN values[p], p \in sentinels
                 PROVE  values[p][k].period <= candles'[p]["a"] /\ values[p][k].period <= candles'[p]["b"]
    BY DEF Pair!HearCandle, PairInv, ScoresOfPeriods, IsScore
  <2>3. values[p][k].period <= candles[p]["a"] /\ values[p][k].period <= candles[p]["b"]
    BY <2>2 DEF PairInv, ScoresOfPeriods
  <2>4. values[p][k].period \in Nat
    <3>1. values[p] \in Seq(Pair!Score)
      BY DEF PairInv, PairsTyped
    <3>2. values[p][k] \in Pair!Score
      BY <3>1, LenProperties, ElementOfSeq
    <3>3. QED
      BY <3>2 DEF Pair!Score
  <2>5. candles[p] \in [Pair!Instr -> Nat] /\ candles'[p] \in [Pair!Instr -> Nat]
    BY <1>2 DEF PairInv, PairsTyped
  <2>6. QED
    BY <1>3, <2>1, <2>3, <2>4, <2>5
<1>6. ScoresHeard'
  BY DEF Pair!HearCandle, PairInv, ScoresHeard, IsScore
<1>7. QED
  BY <1>4, <1>5, <1>6, LegsRest DEF Pair!HearCandle, PairInv

LEMMA SentinelsChange ==
  ASSUME Pair!PairTradingAssumption, PairInv, NEW o \in Pair!Orders,
         Pair!StartSentinel(o) \/ Pair!KillSentinel(o)
  PROVE  PairInv'
<1>1. CASE Pair!StartSentinel(o)
  <2>1. /\ values' = [values EXCEPT ![o] = <<>>] /\ candles' = [candles EXCEPT ![o] = [i \in Pair!Instr |-> period]]
        /\ sentinels' = sentinels \cup {o} /\ begun' = begun + 1 /\ begun < MaxPairStarts
    BY <1>1 DEF Pair!StartSentinel
  <2>2. <<>> \in Seq(Pair!Score) /\ DOMAIN <<>> = {}
    BY EmptySeq
  <2>3. PairsTyped'
    <3>1. values' \in [Pair!Orders -> Seq(Pair!Score)] /\ \A p \in Pair!Orders : values'[p] \in Seq(Pair!Score)
      BY <2>1, <2>2 DEF PairInv, PairsTyped
    <3>2. candles' \in [Pair!Orders -> [Pair!Instr -> Nat]]
          /\ \A p \in Pair!Orders : \A i \in Pair!Instr : candles'[p][i] \in 0..period
      BY <2>1 DEF PairInv, PairsTyped, Pair!TypeOK
    <3>3. begun' \in 0..MaxPairStarts /\ mixed' \in BOOLEAN
      BY <1>1, <2>1 DEF PairInv, PairsTyped, Pair!TypeOK, Pair!PairTradingAssumption, Pair!StartSentinel, Pair!Mixes
    <3>4. QED
      BY <1>1, <3>1, <3>2, <3>3 DEF Pair!StartSentinel, PairInv, PairsTyped, Pair!TypeOK
  <2>4. ScoresOfPeriods'
    <3>1. ASSUME NEW p \in Pair!Orders \ {o}
          PROVE  values'[p] = values[p] /\ candles'[p] = candles[p] /\ (p \in sentinels' <=> p \in sentinels)
                 /\ (p \in late' <=> p \in late)
      BY <1>1, <2>1 DEF PairInv, PairsTyped, Pair!StartSentinel
    <3>2. values'[o] = <<>> /\ UNCHANGED dear
      BY <1>1, <2>1 DEF PairInv, PairsTyped, Pair!StartSentinel
    <3>3. QED
      BY <2>2, <3>1, <3>2 DEF PairInv, ScoresOfPeriods, IsScore
  <2>5. ScoresHeard'
    BY <1>1 DEF Pair!StartSentinel, PairInv, ScoresHeard, IsScore, Pair!Mixes
  <2>6. QED
    BY <1>1, <2>3, <2>4, <2>5, LegsRest DEF Pair!StartSentinel, PairInv
<1>2. CASE Pair!KillSentinel(o)
  <2>1. PairsTyped'
    BY <1>2 DEF Pair!KillSentinel, PairInv, PairsTyped, Pair!TypeOK
  <2>2. ScoresOfPeriods' /\ ScoresHeard'
    BY <1>2 DEF Pair!KillSentinel, PairInv, ScoresOfPeriods, ScoresHeard, IsScore
  <2>3. QED
    BY <1>2, <2>1, <2>2, LegsRest DEF Pair!KillSentinel, PairInv
<1>3. QED
  BY <1>1, <1>2

\* A message of a sentinel leaves the seeker with scores of its own order, if only such run.
LEMMA ScoresSent ==
  ASSUME PairInv, NEW o \in sentinels, NEW m \in Scores, Pair!Send(m),
         \A j \in DOMAIN m.values : IsScore(m.values[j], o),
         UNCHANGED <<dear, sentinels, seeker, scores, mixed>>
  PROVE  inbox' \in Seq(Scores) /\ ScoresHeard'
<1>1. inbox \in Seq(Scores) /\ inbox' = IF seeker = "off" THEN inbox ELSE Append(inbox, m)
  BY DEF Pair!Send, PairInv, PairsTyped
<1>2. /\ Append(inbox, m) \in Seq(Scores)
      /\ \A k \in DOMAIN Append(inbox, m) : (k \in DOMAIN inbox /\ Append(inbox, m)[k] = inbox[k])
                                            \/ Append(inbox, m)[k] = m
  BY <1>1, AppendProperties, LenProperties
<1>3. inbox' \in Seq(Scores)
  BY <1>1, <1>2
<1>4. ASSUME ~mixed, seeker # "off"
      PROVE  \A k \in DOMAIN inbox' : \A j \in DOMAIN inbox'[k].values : IsScore(inbox'[k].values[j], seeker)
  <2>1. o = seeker /\ \A k \in DOMAIN inbox : \A j \in DOMAIN inbox[k].values : IsScore(inbox[k].values[j], seeker)
    BY <1>4 DEF PairInv, ScoresHeard
  <2>2. QED
    BY <1>1, <1>2, <1>4, <2>1
<1>5. ScoresHeard'
  BY <1>4 DEF PairInv, ScoresHeard, IsScore
<1>6. QED
  BY <1>3, <1>5

LEMMA SentinelUpdates ==
  ASSUME Pair!PairTradingAssumption, PairInv, NEW o \in Pair!Orders, Pair!Update(o)
  PROVE  PairInv'
<1> DEFINE joined == Pair!Joined(o)
           next == IF values[o] = <<>> THEN [k \in 1..joined |-> Pair!ZScore(o, k)]
                   ELSE Append(values[o], Pair!ZScore(o, joined))
           m == [kind |-> "update", values |-> <<Pair!Last(next)>>]
<1>1. /\ o \in sentinels /\ joined > 0 /\ Len(values[o]) < MaxPeriod
      /\ values' = [values EXCEPT ![o] = next]
      /\ late' = IF values[o] # <<>> /\ Pair!Last(values[o]).period + 1 # joined THEN late \cup {o} ELSE late
      /\ Pair!Send(m)
      /\ UNCHANGED <<period, dear, sentinels, candles, seeker, wants, scores, firing, sent, begun,
                     pairs, mixed, broken>>
  BY DEF Pair!Update
<1>2. /\ joined \in Nat /\ joined \in 1..MaxPeriod
      /\ joined <= candles[o]["a"] /\ joined <= candles[o]["b"]
  <2>1. candles[o]["a"] \in 0..period /\ candles[o]["b"] \in 0..period /\ period \in 0..MaxPeriod
    BY DEF PairInv, PairsTyped, Pair!TypeOK, Pair!Instr
  <2>2. QED
    BY <1>1, <2>1 DEF Pair!Joined, Pair!PairTradingAssumption
<1> HIDE DEF joined
<1>3. ASSUME NEW k \in 1..MaxPeriod
      PROVE  Pair!ZScore(o, k) \in Pair!Score /\ IsScore(Pair!ZScore(o, k), o) /\ Pair!ZScore(o, k).period = k
  BY DEF Pair!ZScore, Pair!Score, IsScore
<1>4. values[o] \in Seq(Pair!Score) /\ Len(values[o]) \in Nat /\ DOMAIN values[o] = 1..Len(values[o])
  BY LenProperties DEF PairInv, PairsTyped
<1>5. /\ next \in Seq(Pair!Score) /\ Len(next) \in Nat /\ Len(next) > 0 /\ DOMAIN next = 1..Len(next)
      /\ next[Len(next)] = Pair!ZScore(o, joined)
      /\ \A k \in DOMAIN next : IsScore(next[k], o) /\ next[k].period <= candles[o]["a"]
                                /\ next[k].period <= candles[o]["b"]
      /\ o \notin late' => \A k \in DOMAIN next : next[k].period = k
  <2>1. CASE values[o] = <<>>
    <3>1. next = [k \in 1..joined |-> Pair!ZScore(o, k)]
      BY <2>1
    <3>2. MaxPeriod \in Nat /\ \A k \in 1..joined : k \in 1..MaxPeriod
      BY <1>2 DEF Pair!PairTradingAssumption
    <3>3. next \in Seq(Pair!Score) /\ Len(next) = joined
      <4>1. \A k \in 1..joined : Pair!ZScore(o, k) \in Pair!Score
        BY <1>3, <3>2
      <4>2. [k \in 1..joined |-> Pair!ZScore(o, k)] \in Seq(Pair!Score)
        BY <1>2, <4>1, IsASeq
      <4>3. next \in Seq(Pair!Score) /\ DOMAIN next = 1..joined
        BY <3>1, <4>2
      <4>4. QED
        BY <1>2, <4>3, LenProperties
    <3>4. \A k \in 1..joined : next[k] = Pair!ZScore(o, k)
      BY <3>1
    <3>5. candles[o]["a"] \in Nat /\ candles[o]["b"] \in Nat
      BY DEF PairInv, PairsTyped, Pair!Instr
    <3>6. \A k \in 1..joined : k <= candles[o]["a"] /\ k <= candles[o]["b"]
      BY <1>2, <3>5
    <3>7. DOMAIN next = 1..joined
      BY <3>1
    <3> HIDE DEF next
    <3>8. QED
      BY <1>2, <1>3, <3>2, <3>3, <3>4, <3>6, <3>7
  <2>2. CASE values[o] # <<>>
    <3>1. next = Append(values[o], Pair!ZScore(o, joined)) /\ Pair!ZScore(o, joined) \in Pair!Score
      BY <1>2, <1>3, <2>2
    <3> HIDE DEF next
    <3>2. /\ next \in Seq(Pair!Score) /\ Len(next) = Len(values[o]) + 1
          /\ \A k \in 1..Len(values[o]) : next[k] = values[o][k]
          /\ next[Len(values[o]) + 1] = Pair!ZScore(o, joined)
      BY <1>4, <3>1, AppendProperties
    <3>3. DOMAIN next = 1..(Len(values[o]) + 1)
      BY <3>2, LenProperties
    <3>4. \A k \in DOMAIN values[o] : IsScore(values[o][k], o) /\ values[o][k].period <= candles[o]["a"]
                                /\ values[o][k].period <= candles[o]["b"]
      BY <1>1 DEF PairInv, ScoresOfPeriods
    <3>5. Len(values[o]) # 0
      BY <1>4, <2>2, EmptySeq
    <3>6. ASSUME o \notin late' PROVE joined = Len(values[o]) + 1 /\ \A k \in DOMAIN values[o] : values[o][k].period = k
      <4>1. o \notin late /\ Pair!Last(values[o]).period + 1 = joined
        BY <1>1, <2>2, <3>6
      <4>2. \A k \in DOMAIN values[o] : values[o][k].period = k
        BY <4>1 DEF PairInv, ScoresOfPeriods
      <4>3. QED
        BY <1>4, <3>5, <4>1, <4>2 DEF Pair!Last
    <3>7. ASSUME NEW k \in DOMAIN next, k \notin DOMAIN values[o]
          PROVE  k = Len(values[o]) + 1 /\ next[k] = Pair!ZScore(o, joined)
      BY <1>4, <3>2, <3>3, <3>7
    <3>8. joined \in 1..MaxPeriod /\ IsScore(Pair!ZScore(o, joined), o) /\ Pair!ZScore(o, joined).period = joined
      BY <1>2, <1>3
    <3>9. \A k \in DOMAIN next : IsScore(next[k], o) /\ next[k].period <= candles[o]["a"]
                                /\ next[k].period <= candles[o]["b"]
      BY <1>2, <1>4, <3>2, <3>4, <3>7, <3>8
    <3>10. o \notin late' => \A k \in DOMAIN next : next[k].period = k
      BY <1>4, <3>2, <3>6, <3>7, <3>8
    <3>11. QED
      BY <1>4, <3>2, <3>3, <3>9, <3>10
  <2> HIDE DEF next
  <2>3. QED
    BY <2>1, <2>2
<1>6. m \in Scores /\ \A j \in DOMAIN m.values : IsScore(m.values[j], o)
  <2> HIDE DEF next
  <2>1. Pair!Last(next) = Pair!ZScore(o, joined)
    BY <1>5 DEF Pair!Last
  <2>2. QED
    BY <1>2, <1>3, <2>1 DEF Scores
<1> HIDE DEF next, m
<1>7. inbox' \in Seq(Scores) /\ ScoresHeard'
  BY <1>1, <1>6, ScoresSent
<1>8. PairsTyped'
  <2>1. values' \in [Pair!Orders -> Seq(Pair!Score)]
    BY <1>1, <1>5 DEF PairInv, PairsTyped
  <2>2. \A p \in Pair!Orders : values'[p] \in Seq(Pair!Score)
    BY <2>1
  <2>3. late' \subseteq Pair!Orders
    BY <1>1 DEF PairInv, PairsTyped, Pair!TypeOK
  <2>4. Pair!TypeOK'
    BY <1>1, <2>2, <2>3 DEF PairInv, PairsTyped, Pair!TypeOK
  <2>5. QED
    BY <1>1, <1>7, <2>1, <2>4 DEF PairInv, PairsTyped
<1>9. ScoresOfPeriods'
  <2>1. values'[o] = next /\ \A p \in Pair!Orders \ {o} : values'[p] = values[p] /\ (p \in late' <=> p \in late)
    BY <1>1 DEF PairInv, PairsTyped
  <2>2. ASSUME NEW k \in DOMAIN values'[o]
        PROVE  /\ IsScore(values'[o][k], o)
               /\ values'[o][k].period <= candles[o]["a"] /\ values'[o][k].period <= candles[o]["b"]
               /\ o \notin late' => values'[o][k].period = k
    BY <1>1, <1>5, <2>1
  <2>3. ASSUME NEW p \in Pair!Orders \ {o}, NEW k \in DOMAIN values[p]
        PROVE  /\ values'[p] = values[p]
               /\ IsScore(values[p][k], p)
               /\ p \in sentinels => values[p][k].period <= candles[p]["a"] /\ values[p][k].period <= candles[p]["b"]
               /\ p \notin late' => values[p][k].period = k
    BY <1>1, <2>1 DEF PairInv, ScoresOfPeriods
  <2>4. QED
    BY <1>1, <2>1, <2>2, <2>3 DEF ScoresOfPeriods, IsScore
<1>10. QED
  BY <1>1, <1>7, <1>8, <1>9, LegsRest DEF PairInv

LEMMA SentinelAnswers ==
  ASSUME Pair!PairTradingAssumption, PairInv, NEW o \in Pair!Orders, Pair!AnswerSnapshot(o)
  PROVE  PairInv'
<1> DEFINE m == [kind |-> "snapshot", values |-> values[o]]
<1>1. /\ o \in sentinels /\ Pair!Send(m) /\ wants' = wants \ {o}
      /\ UNCHANGED <<period, dear, sentinels, candles, values, seeker, scores, firing, sent, begun, pairs,
                     mixed, late, broken>>
  BY DEF Pair!AnswerSnapshot
<1>2. m \in Scores /\ \A j \in DOMAIN m.values : IsScore(m.values[j], o)
  BY DEF PairInv, PairsTyped, ScoresOfPeriods, Scores
<1> HIDE DEF m
<1>3. inbox' \in Seq(Scores) /\ ScoresHeard'
  BY <1>1, <1>2, ScoresSent
<1>4. PairsTyped'
  BY <1>1, <1>3 DEF PairInv, PairsTyped, Pair!TypeOK
<1>5. ScoresOfPeriods'
  BY <1>1 DEF PairInv, ScoresOfPeriods, IsScore
<1>6. QED
  BY <1>1, <1>3, <1>4, <1>5, LegsRest DEF PairInv

LEMMA SeekerComesAndGoes ==
  ASSUME Pair!PairTradingAssumption, PairInv,
         Pair!KillSeeker \/ \E o \in Pair!Orders : Pair!StartSeeker(o)
  PROVE  PairInv'
<1>0. <<>> \in Seq(Leg) /\ <<>> \in Seq(Scores) /\ <<>> \in Seq(Pair!Score) /\ DOMAIN <<>> = {} /\ Len(<<>>) = 0
  BY EmptySeq
<1>1. CASE Pair!KillSeeker
  <2>1. PairsTyped'
    BY <1>0, <1>1 DEF Pair!KillSeeker, PairInv, PairsTyped, Pair!TypeOK, Leg
  <2>2. ScoresOfPeriods' /\ ScoresHeard' /\ LegsAgainst'
    BY <1>0, <1>1 DEF Pair!KillSeeker, PairInv, ScoresOfPeriods, ScoresHeard, LegsAgainst, IsScore, Against
  <2>3. LegsInPairs'
    <3>1. /\ seeker # "off" /\ seeker' = "off" /\ firing' = <<>> /\ broken' = (firing # <<>>) /\ sent' = sent
      BY <1>1 DEF Pair!KillSeeker
    <3>2. firing = <<>> => ~broken' /\ Len(sent) \in {0, 2}
      BY <1>0, <3>1 DEF PairInv, LegsInPairs
    <3>3. firing # <<>> => broken'
      BY <3>1, Zenon
    <3>4. firing # <<>> => Len(sent) <= 1 /\ Len(sent) # 2
      <4>1. firing # <<>> => Len(sent) = 0 \/ Len(sent) = 1
        BY DEF PairInv, LegsInPairs
      <4>2. QED
        BY <4>1
    <3>5. QED
      BY <3>1, <3>2, <3>3, <3>4 DEF PairInv, LegsInPairs, Opposite
  <2>4. QED
    BY <2>1, <2>2, <2>3 DEF PairInv
<1>2. ASSUME NEW o \in Pair!Orders, Pair!StartSeeker(o) PROVE PairInv'
  <2>1. PairsTyped'
    <3>1. begun' \in 0..MaxPairStarts /\ mixed' \in BOOLEAN /\ wants' \subseteq Pair!Orders
      BY <1>2 DEF Pair!StartSeeker, PairInv, PairsTyped, Pair!TypeOK, Pair!Mixes, Pair!PairTradingAssumption
    <3>2. QED
      BY <1>0, <1>2, <3>1 DEF Pair!StartSeeker, PairInv, PairsTyped, Pair!TypeOK, Leg
  <2>2. ScoresOfPeriods' /\ LegsAgainst'
    BY <1>0, <1>2 DEF Pair!StartSeeker, PairInv, ScoresOfPeriods, LegsAgainst, IsScore, Against
  <2>3. ScoresHeard'
    BY <1>0, <1>2 DEF Pair!StartSeeker, PairInv, ScoresHeard, Pair!Mixes, Pair!Orders
  <2>4. LegsInPairs'
    BY <1>0, <1>2 DEF Pair!StartSeeker, PairInv, LegsInPairs, Opposite, Pair!Orders
  <2>5. QED
    BY <2>1, <2>2, <2>3, <2>4 DEF PairInv
<1>3. QED
  BY <1>1, <1>2

LEMMA SeekerHears ==
  ASSUME Pair!PairTradingAssumption, PairInv, Pair!OnSentinelEvent
  PROVE  PairInv'
<1> DEFINE m == Head(inbox)
<1>1. /\ inbox \in Seq(Scores) /\ inbox # <<>> /\ m \in Scores /\ m = inbox[1] /\ 1 \in DOMAIN inbox
      /\ Tail(inbox) \in Seq(Scores) /\ Len(Tail(inbox)) = Len(inbox) - 1
      /\ \A k \in 1..Len(Tail(inbox)) : Tail(inbox)[k] = inbox[k + 1]
  BY HeadTailProperties DEF Pair!OnSentinelEvent, PairInv, PairsTyped
<1>2. /\ inbox' = Tail(inbox)
      /\ scores' \in {scores, m.values, scores \o m.values}
      /\ UNCHANGED <<period, dear, sentinels, candles, values, seeker, wants, firing, sent, begun,
                     pairs, mixed, late, broken>>
  BY DEF Pair!OnSentinelEvent
<1>3. m.values \in Seq(Pair!Score) /\ scores \in Seq(Pair!Score)
  BY <1>1 DEF Scores, PairInv, PairsTyped, Pair!TypeOK
<1>4. /\ scores \o m.values \in Seq(Pair!Score)
      /\ \A k \in DOMAIN (scores \o m.values) :
           \/ k \in DOMAIN scores /\ (scores \o m.values)[k] = scores[k]
           \/ \E j \in DOMAIN m.values : (scores \o m.values)[k] = m.values[j]
  <2>1. /\ scores \o m.values \in Seq(Pair!Score) /\ Len(scores \o m.values) = Len(scores) + Len(m.values)
        /\ \A i \in 1..Len(scores) + Len(m.values) :
             (scores \o m.values)[i] = IF i <= Len(scores) THEN scores[i] ELSE m.values[i - Len(scores)]
    BY <1>3, ConcatProperties
  <2>2. /\ DOMAIN scores = 1..Len(scores) /\ DOMAIN m.values = 1..Len(m.values)
        /\ DOMAIN (scores \o m.values) = 1..Len(scores) + Len(m.values)
        /\ Len(scores) \in Nat /\ Len(m.values) \in Nat
    BY <1>3, <2>1, LenProperties
  <2> HIDE DEF m
  <2>3. ASSUME NEW k \in DOMAIN (scores \o m.values), k \notin DOMAIN scores
        PROVE  \E j \in DOMAIN m.values : (scores \o m.values)[k] = m.values[j]
    <3>1. k - Len(scores) \in DOMAIN m.values /\ ~(k <= Len(scores)) /\ k \in 1..Len(scores) + Len(m.values)
      BY <2>2, <2>3
    <3>2. (scores \o m.values)[k] = m.values[k - Len(scores)]
      BY <2>1, <3>1
    <3>3. QED
      BY <3>1, <3>2
  <2>4. ASSUME NEW k \in DOMAIN scores PROVE (scores \o m.values)[k] = scores[k]
    BY <2>1, <2>2
  <2>5. QED
    BY <2>1, <2>3, <2>4
<1> HIDE DEF m
<1>5. PairsTyped'
  BY <1>1, <1>2, <1>3, <1>4 DEF PairInv, PairsTyped, Pair!TypeOK
<1>6. ScoresOfPeriods'
  BY <1>2 DEF PairInv, ScoresOfPeriods, IsScore
<1>7. ScoresHeard'
  <2>1. SUFFICES ASSUME ~mixed, seeker # "off"
                 PROVE  /\ sentinels \subseteq {seeker}
                        /\ \A k \in DOMAIN inbox' : \A j \in DOMAIN inbox'[k].values : IsScore(inbox'[k].values[j], seeker)
                        /\ \A k \in DOMAIN scores' : IsScore(scores'[k], seeker)
    BY <1>2 DEF ScoresHeard, IsScore
  <2>2. /\ sentinels \subseteq {seeker}
        /\ \A k \in DOMAIN inbox : \A j \in DOMAIN inbox[k].values : IsScore(inbox[k].values[j], seeker)
        /\ \A k \in DOMAIN scores : IsScore(scores[k], seeker)
    BY <2>1 DEF PairInv, ScoresHeard
  <2>3. \A k \in DOMAIN inbox' : k + 1 \in DOMAIN inbox /\ inbox'[k] = inbox[k + 1]
    BY <1>1, <1>2, LenProperties
  <2>4. \A j \in DOMAIN m.values : IsScore(m.values[j], seeker)
    BY <1>1, <2>2
  <2>5. \A k \in DOMAIN scores' : IsScore(scores'[k], seeker)
    BY <1>2, <1>4, <2>2, <2>4
  <2>6. QED
    BY <2>2, <2>3, <2>5
<1>8. QED
  BY <1>2, <1>5, <1>6, <1>7, LegsRest DEF PairInv

LEMMA SeekerBuilds ==
  ASSUME Pair!PairTradingAssumption, PairInv, Pair!BuildOrders
  PROVE  PairInv'
<1> DEFINE score == Pair!Last(scores)
           first == Pair!First(seeker)
           one == [leg |-> first, side |-> -score.z, period |-> score.period]
           two == [leg |-> Pair!Other(first), side |-> -(-score.z), period |-> score.period]
<1>1. /\ seeker # "off" /\ firing = <<>> /\ scores # <<>> /\ pairs < MaxPairs /\ pairs' = pairs + 1
      /\ score.z # 0 /\ firing' = <<one, two>> /\ sent' = <<>>
      /\ UNCHANGED <<period, dear, sentinels, candles, values, seeker, wants, inbox, scores, begun,
                     mixed, late, broken>>
  BY DEF Pair!BuildOrders
<1>2. score \in Pair!Score /\ score = scores[Len(scores)] /\ Len(scores) \in DOMAIN scores
  <2>1. scores \in Seq(Pair!Score)
    BY DEF PairInv, PairsTyped, Pair!TypeOK
  <2>2. Len(scores) \in DOMAIN scores
    BY <1>1, <2>1, LenProperties, EmptySeq
  <2>3. QED
    BY <2>1, <2>2, LenProperties, ElementOfSeq DEF Pair!Last
<1>3. first \in Pair!Instr /\ Pair!Other(first) \in Pair!Instr /\ first # Pair!Other(first)
  BY DEF Pair!First, Pair!Other, Pair!Instr
<1>4. score.z \in {-1, 1} /\ score.period \in 1..MaxPeriod
  BY <1>1, <1>2 DEF Pair!Score
<1> HIDE DEF score, first
<1>5. one \in Leg /\ two \in Leg /\ Opposite(one, two)
  BY <1>3, <1>4 DEF Leg, Opposite
<1>6. ASSUME ~mixed PROVE Against(one) /\ Against(two)
  <2>1. IsScore(score, seeker)
    BY <1>1, <1>2, <1>6 DEF PairInv, ScoresHeard
  <2>2. dear[score.period] \in {"a", "b", "none"}
    BY <1>4 DEF Pair!PairTradingAssumption, PairInv, PairsTyped
  <2>3. /\ one.leg = first /\ one.side = -score.z /\ one.period = score.period
        /\ two.leg = Pair!Other(first) /\ two.side = score.z /\ two.period = score.period
    BY <1>4
  <2>4. /\ score.z = 1 => dear[score.period] = first
        /\ score.z = -1 => dear[score.period] = Pair!Other(first)
    BY <1>4, <2>1, <2>2 DEF IsScore, first, Pair!First, Pair!Other
  <2>5. QED
    BY <1>3, <1>4, <2>3, <2>4 DEF Against
<1> HIDE DEF one, two
<1>7. PairsTyped'
  <2>1. firing' \in Seq(Leg) /\ sent' \in Seq(Leg)
    BY <1>1, <1>5, EmptySeq
  <2>2. pairs' \in 0..MaxPairs
    BY <1>1 DEF PairInv, PairsTyped, Pair!TypeOK, Pair!PairTradingAssumption
  <2>3. QED
    BY <1>1, <2>1, <2>2 DEF PairInv, PairsTyped, Pair!TypeOK, Leg
<1>8. ScoresOfPeriods' /\ ScoresHeard'
  BY <1>1 DEF PairInv, ScoresOfPeriods, ScoresHeard, IsScore
<1>9. LegsAgainst' /\ LegsInPairs'
  <2>1. DOMAIN firing' = {1, 2} /\ firing'[1] = one /\ firing'[2] = two /\ Len(firing') = 2 /\ Len(sent') = 0
        /\ DOMAIN sent' = {}
    BY <1>1, EmptySeq
  <2>2. LegsAgainst'
    BY <1>1, <1>6, <2>1 DEF LegsAgainst, Against
  <2>3. LegsInPairs'
    BY <1>1, <1>5, <2>1 DEF PairInv, LegsInPairs, Opposite
  <2>4. QED
    BY <2>2, <2>3
<1>10. QED
  BY <1>7, <1>8, <1>9 DEF PairInv

LEMMA SeekerSends ==
  ASSUME Pair!PairTradingAssumption, PairInv, Pair!SendOrder
  PROVE  PairInv'
<1>1. /\ firing \in Seq(Leg) /\ sent \in Seq(Leg) /\ firing # <<>>
      /\ firing' = Tail(firing) /\ sent' = Append(sent, Head(firing))
      /\ UNCHANGED <<period, dear, sentinels, candles, values, seeker, wants, inbox, scores, begun, pairs,
                     mixed, late, broken>>
  BY DEF Pair!SendOrder, PairInv, PairsTyped
<1>2. /\ Head(firing) \in Leg /\ Head(firing) = firing[1] /\ 1 \in DOMAIN firing
      /\ firing' \in Seq(Leg) /\ Len(firing') = Len(firing) - 1
      /\ \A k \in 1..Len(firing') : firing'[k] = firing[k + 1]
  BY <1>1, HeadTailProperties
<1>3. /\ sent' \in Seq(Leg) /\ Len(sent') = Len(sent) + 1
      /\ \A k \in 1..Len(sent) : sent'[k] = sent[k]
      /\ sent'[Len(sent) + 1] = firing[1]
  BY <1>1, <1>2, AppendProperties
<1>4. /\ DOMAIN sent = 1..Len(sent) /\ DOMAIN sent' = 1..Len(sent) + 1 /\ Len(sent) \in Nat
      /\ DOMAIN firing = 1..Len(firing) /\ DOMAIN firing' = 1..Len(firing) - 1 /\ Len(firing) \in Nat
  BY <1>1, <1>2, <1>3, LenProperties
<1>5. PairsTyped'
  BY <1>1, <1>2, <1>3 DEF PairInv, PairsTyped, Pair!TypeOK, Leg
<1>6. ScoresOfPeriods' /\ ScoresHeard'
  BY <1>1 DEF PairInv, ScoresOfPeriods, ScoresHeard, IsScore
<1>7. LegsAgainst'
  <2>1. ASSUME ~mixed
        PROVE  /\ \A k \in DOMAIN sent' : Against(sent'[k])
               /\ \A k \in DOMAIN firing' : Against(firing'[k])
    <3>1. /\ \A k \in DOMAIN sent : Against(sent[k])
          /\ \A k \in DOMAIN firing : Against(firing[k])
      BY <2>1 DEF PairInv, LegsAgainst
    <3>2. \A k \in DOMAIN sent' : k \in DOMAIN sent \/ k = Len(sent) + 1
      BY <1>4
    <3>3. \A k \in DOMAIN firing' : k + 1 \in DOMAIN firing /\ firing'[k] = firing[k + 1]
      BY <1>2, <1>4
    <3>4. \A k \in DOMAIN sent : sent'[k] = sent[k]
      BY <1>3, <1>4
    <3>5. QED
      BY <1>2, <1>3, <3>1, <3>2, <3>3, <3>4
  <2>2. QED
    BY <1>1, <2>1 DEF LegsAgainst, Against
<1>8. LegsInPairs'
  <2>1. seeker # "off" /\ ~broken /\ Len(firing) # 0
    BY <1>1, <1>4, EmptySeq DEF PairInv, LegsInPairs
  <2>2. CASE Len(firing) = 2 /\ Len(sent) = 0 /\ Opposite(firing[1], firing[2])
    BY <1>1, <1>2, <1>3, <1>4, <2>1, <2>2 DEF LegsInPairs, Opposite
  <2>3. CASE Len(firing) = 1 /\ Len(sent) = 1 /\ Opposite(sent[1], firing[1])
    <3>1. firing' = <<>>
      BY <1>2, <2>3, EmptySeq
    <3>2. QED
      BY <1>1, <1>2, <1>3, <1>4, <2>1, <2>3, <3>1 DEF LegsInPairs, Opposite
  <2>4. QED
    BY <1>1, <2>2, <2>3 DEF PairInv, LegsInPairs
<1>9. QED
  BY <1>5, <1>6, <1>7, <1>8 DEF PairInv

LEMMA PairStep ==
  ASSUME Pair!PairTradingAssumption, PairInv, [Pair!Next]_(Pair!vars)
  PROVE  PairInv'
<1>1. CASE UNCHANGED Pair!vars
  <2>1. PairsTyped' /\ ScoresOfPeriods' /\ ScoresHeard'
    BY <1>1 DEF Pair!vars, PairInv, PairsTyped, Pair!TypeOK, ScoresOfPeriods, ScoresHeard, IsScore
  <2>2. QED
    BY <1>1, <2>1, LegsRest DEF Pair!vars, PairInv
<1>2. CASE Pair!Next
  BY <1>2, ClockTicks, CandleHeard, SentinelsChange, SentinelUpdates, SentinelAnswers,
     SeekerComesAndGoes, SeekerHears, SeekerBuilds, SeekerSends DEF Pair!Next
<1>3. QED
  BY <1>1, <1>2

LEMMA PairsSafe == ASSUME PairInv PROVE Pair!TradesAgainstSpread
<1>1. sent \in Seq(Leg) /\ (firing = <<>> => Len(firing) = 0)
  BY EmptySeq DEF PairInv, PairsTyped
<1>2. /\ ~mixed => \A k \in DOMAIN sent : sent[k].side = (IF sent[k].leg = dear[sent[k].period] THEN -1 ELSE 1)
      /\ firing = <<>> /\ ~broken => Len(sent) \in {0, 2}
      /\ Len(sent) = 2 => sent[1].leg # sent[2].leg /\ sent[1].side # sent[2].side
  BY <1>1 DEF PairInv, LegsAgainst, LegsInPairs, Against, Opposite
<1>3. QED
  BY <1>2 DEF PairInv, ScoresOfPeriods, Pair!TradesAgainstSpread

LEMMA FeedsKeepPairs ==
  ASSUME FeedsAssumption, PairInv, [FeedsNext]_feeds
  PROVE  PairInv'
<1>1. Pair!PairTradingAssumption
  BY DEF FeedsAssumption
<1>2. Pair!Next \/ UNCHANGED trading
  BY DEF FeedsNext, feeds
<1>3. [Pair!Next]_(Pair!vars)
  BY <1>2 DEF trading, Pair!vars
<1>4. QED
  BY <1>1, <1>3, PairStep

\* A pair sells what was dear in its period and buys the other, both of them unless the seeker
\* was killed over them, and the z-scores are of periods both have: whatever the order of
\* candles, snapshots, restarts and kills (zscore_sentinel.py, seeker_pair_trading.py).
THEOREM PairsAgainstSpread ==
  ASSUME FeedsAssumption PROVE FeedsSpec => [](who = "pairs" => Pair!TradesAgainstSpread)
<1>1. FeedsInit => PairInv
  BY PairInit DEF FeedsInit, FeedsAssumption
<1>2. PairInv /\ [FeedsNext]_feeds => PairInv'
  BY FeedsKeepPairs
<1>3. PairInv => (who = "pairs" => Pair!TradesAgainstSpread)
  BY PairsSafe
<1>4. QED
  BY <1>1, <1>2, <1>3, PTL DEF FeedsSpec

-----------------------------------------------------------------------------
(* The channels: who hears what is published                                  *)
RolesTyped ==
  /\ role \in [Processes -> Route!Roles \cup {"off"}]
  /\ given \in [Processes -> SUBSET Ids] /\ added \in [Processes -> SUBSET Ids]
  /\ managed \in [Processes -> SUBSET Ids]
  /\ message.event \in Route!Events /\ message.heard \subseteq Processes
  /\ message.acted \subseteq message.heard

\* What runs has instruments, but for the database handler, and manages their orders.
GivenToRun ==
  \A p \in Processes :
    /\ given[p] = {} <=> role[p] \in {"off", "db"}
    /\ added[p] \cap given[p] = {} /\ (added[p] # {} => role[p] = "feed")
    /\ given[p] \subseteq managed[p] /\ managed[p] \subseteq given[p] \cup added[p]

RouteInv == RolesTyped /\ GivenToRun /\ Route!Routed

LEMMA RouteInit == ASSUME Route!RoutingAssumption, Route!Init PROVE RouteInv
  BY DEF Route!Init, RouteInv, RolesTyped, GivenToRun, Route!Routed, Route!Nothing, Route!Events,
     Route!Plain, Route!Roles

\* The channels of some events, which are those of the objects given, or of none
ChannelsFor(events, ids) == UNION {Route!GetChannels(event, ids) : event \in events}

LEMMA ChannelsOf ==
  ASSUME NEW events, NEW ids, ids # {}, NEW k, NEW n
  PROVE  <<k, n>> \in ChannelsFor(events, ids) <=> k \in events /\ n \in ids
<1>1. \A event : Route!GetChannels(event, ids) = {<<event, id>> : id \in ids}
  BY DEF Route!GetChannels
<1>2. ASSUME <<k, n>> \in ChannelsFor(events, ids)
      PROVE  k \in events /\ n \in ids
  <2>1. PICK event \in events : <<k, n>> \in Route!GetChannels(event, ids)
    BY <1>2 DEF ChannelsFor
  <2>2. PICK id \in ids : <<k, n>> = <<event, id>>
    BY <1>1, <2>1
  <2>3. QED
    BY <2>1, <2>2
<1>3. ASSUME k \in events, n \in ids
      PROVE  <<k, n>> \in ChannelsFor(events, ids)
  <2>1. <<k, n>> \in Route!GetChannels(k, ids)
    BY <1>1, <1>3
  <2>2. QED
    BY <1>3, <2>1 DEF ChannelsFor
<1>4. QED
  BY <1>2, <1>3

LEMMA ChannelsOfNone ==
  ASSUME NEW event, NEW k, NEW n
  PROVE  <<k, n>> \in ChannelsFor({event}, {}) <=> k = event /\ n = 0
<1>1. ChannelsFor({event}, {}) = {<<event, 0>>}
  BY DEF ChannelsFor, Route!GetChannels, Route!NoId
<1>2. QED
  BY <1>1

\* What a process hears, by its role
LEMMA HeardByRole ==
  ASSUME Route!RoutingAssumption, RolesTyped, GivenToRun, NEW p \in Processes, NEW k, NEW n,
         n = 0 => k # "funding_rate_update" /\ k # "cancel_all_orders"
  PROVE  LET exchs == Route!ExchangesOf(given[p]) IN
         /\ role[p] = "api" =>
              (<<k, n>> \in Route!Channels(p) <=>
                 \/ /\ k \in {"exchange_api", "balance_update", "order_exchange", "cancel_all_orders_echange",
                              "cancel_all_orders_instr", "cancel_order"}
                    /\ n \in exchs
                 \/ k = "position_update" /\ n \in given[p])
         /\ role[p] = "executor" =>
              (<<k, n>> \in Route!Channels(p) <=>
                 \/ k \in {"exchange_status", "balance_update"} /\ n \in exchs
                 \/ /\ k \in {"instr_status", "position_update", "order_update", "trade_exec",
                              "orderbook_update", "exchange_api"}
                    /\ n \in given[p]
                 \/ k = "funding_rate_update" /\ n \in given[p] \cap Funded)
         /\ role[p] = "feed" =>
              (<<k, n>> \in Route!Channels(p) <=>
                 \/ k = "balance_update" /\ n \in exchs
                 \/ k = "position_update" /\ n \in given[p])
         /\ role[p] \in {"off", "db"} => <<k, n>> \notin Route!Channels(p)
<1> DEFINE exchs == Route!ExchangesOf(given[p])
<1>1. role[p] \notin {"off", "db"} => given[p] # {} /\ exchs # {}
  BY DEF GivenToRun, Route!ExchangesOf
<1>2. CASE role[p] = "api"
  <2>1. Route!Channels(p) =
           ChannelsFor({"exchange_api", "balance_update", "order_exchange", "cancel_all_orders_echange",
                "cancel_all_orders_instr", "cancel_order"}, exchs)
              \cup ChannelsFor({"position_update"}, given[p]) \cup ChannelsFor({"cancel_all_orders"}, {})
    BY <1>2 DEF Route!Channels, ChannelsFor
  <2>2. <<k, n>> \in ChannelsFor({"exchange_api", "balance_update", "order_exchange", "cancel_all_orders_echange",
                "cancel_all_orders_instr", "cancel_order"}, exchs) <=>
          k \in {"exchange_api", "balance_update", "order_exchange", "cancel_all_orders_echange",
                "cancel_all_orders_instr", "cancel_order"} /\ n \in exchs
    BY <1>1, <1>2, ChannelsOf
  <2>3. <<k, n>> \in ChannelsFor({"position_update"}, given[p]) <=> k = "position_update" /\ n \in given[p]
    BY <1>1, <1>2, ChannelsOf
  <2>4. <<k, n>> \notin ChannelsFor({"cancel_all_orders"}, {})
    <3>1. <<k, n>> \in ChannelsFor({"cancel_all_orders"}, {}) <=> k = "cancel_all_orders" /\ n = 0
      BY ChannelsOfNone
    <3>2. QED
      BY <3>1
  <2> HIDE DEF exchs
  <2>5. QED
    BY <1>2, <2>1, <2>2, <2>3, <2>4 DEF exchs
<1>3. CASE role[p] = "executor"
  <2>1. Route!Channels(p) =
            ChannelsFor({"exchange_status", "balance_update"}, exchs)
              \cup ChannelsFor({"instr_status", "position_update", "order_update", "trade_exec",
                       "orderbook_update", "exchange_api"}, given[p])
              \cup ChannelsFor({"funding_rate_update"}, given[p] \cap Funded)
    BY <1>3 DEF Route!Channels, Route!FilterObjects, ChannelsFor
  <2>2. <<k, n>> \in ChannelsFor({"exchange_status", "balance_update"}, exchs) <=>
          k \in {"exchange_status", "balance_update"} /\ n \in exchs
    BY <1>1, <1>3, ChannelsOf
  <2>3. <<k, n>> \in ChannelsFor({"instr_status", "position_update", "order_update", "trade_exec",
                       "orderbook_update", "exchange_api"}, given[p]) <=>
          k \in {"instr_status", "position_update", "order_update", "trade_exec",
                       "orderbook_update", "exchange_api"} /\ n \in given[p]
    BY <1>1, <1>3, ChannelsOf
  <2>4. <<k, n>> \in ChannelsFor({"funding_rate_update"}, given[p] \cap Funded) <=>
          k = "funding_rate_update" /\ n \in given[p] \cap Funded
    <3>1. CASE given[p] \cap Funded = {}
      BY <3>1, ChannelsOfNone
    <3>2. CASE given[p] \cap Funded # {}
      BY <3>2, ChannelsOf
    <3>3. QED
      BY <3>1, <3>2
  <2> HIDE DEF exchs
  <2>5. QED
    BY <1>3, <2>1, <2>2, <2>3, <2>4 DEF exchs
<1>4. CASE role[p] = "feed"
  <2>1. Route!Channels(p) = ChannelsFor({"balance_update"}, exchs) \cup ChannelsFor({"position_update"}, given[p])
    BY <1>4 DEF Route!Channels, ChannelsFor
  <2>2. <<k, n>> \in ChannelsFor({"balance_update"}, exchs) <=> k = "balance_update" /\ n \in exchs
    BY <1>1, <1>4, ChannelsOf
  <2>3. <<k, n>> \in ChannelsFor({"position_update"}, given[p]) <=> k = "position_update" /\ n \in given[p]
    BY <1>1, <1>4, ChannelsOf
  <2> HIDE DEF exchs
  <2>4. QED
    BY <1>4, <2>1, <2>2, <2>3 DEF exchs
<1>5. CASE role[p] \in {"off", "db"}
  BY <1>5 DEF Route!Channels
<1>6. QED
  BY <1>2, <1>3, <1>4, <1>5

\* An event about an instrument is heard by whom it is meant for, who can act on it unless it
\* is an API that does not have the instrument.
LEMMA InstrumentPublished ==
  ASSUME Route!RoutingAssumption, RouteInv, NEW i \in Ids,
         NEW event \in {"order_exchange", "cancel_order", "cancel_all_orders_instr", "order_update", "trade_exec",
                        "position_update", "instr_status", "orderbook_update", "funding_rate_update",
                        "db_add_order"},
         event = "funding_rate_update" => i \in Funded,
         Route!Publish(event, i, ExchangeOf[i])
  PROVE  RouteInv'
<1> DEFINE e == ExchangeOf[i]
           channel == Route!PublishChannel(event, i, e)
           heard_ == {p \in Processes : Route!Hears(p, channel)}
<1>1. /\ i # 0 /\ e \in Nat /\ e # 0 /\ i \in Nat
  BY DEF Route!RoutingAssumption
<1>2. /\ message' = [event |-> event, instr |-> i, exch |-> e, heard |-> heard_,
                     acted |-> {p \in heard_ : Route!Acts(p, event, i)}]
      /\ UNCHANGED <<role, given, added, managed>>
  BY DEF Route!Publish
<1>3. /\ RolesTyped /\ GivenToRun
  BY DEF RouteInv
<1>4. channel = CASE event \in {"order_exchange", "cancel_order", "cancel_all_orders_instr"} -> <<event, e>>
                  [] event = "db_add_order" -> <<event, 0>>
                  [] OTHER -> <<event, i>>
  <2>1. CASE event \in {"order_exchange", "cancel_order", "cancel_all_orders_instr"}
    BY <2>1 DEF Route!PublishChannel, Route!PayloadKey
  <2>2. CASE event \in {"order_update", "trade_exec", "position_update", "instr_status", "orderbook_update",
                        "funding_rate_update"}
    <3>1. /\ event \notin {"order_exchange", "cancel_order", "cancel_all_orders_instr"} /\ event # "db_add_order"
          /\ event \in Route!HasInstrId /\ event \notin Route!HasExchangeId
      BY <2>2 DEF Route!HasInstrId, Route!HasExchangeId
    <3>2. Route!PayloadKey(event, i, e) = i
      BY <3>1 DEF Route!PayloadKey
    <3> HIDE DEF e
    <3>3. QED
      BY <3>1, <3>2 DEF Route!PublishChannel
  <2>3. CASE event = "db_add_order"
    BY <2>3 DEF Route!PublishChannel, Route!PayloadKey, Route!HasInstrId, Route!HasExchangeId, Route!NoId
  <2>4. QED
    BY <2>1, <2>2, <2>3
<1>5. ASSUME NEW p \in Processes
      PROVE  /\ Route!Hears(p, channel) <=> Route!Meant(p, event, i, e)
             /\ Route!Hears(p, channel) /\ ~Route!Acts(p, event, i) => role[p] = "api" /\ i \notin given[p]
  <2>1. role[p] \in {"off", "api", "executor", "feed", "db"} /\ given[p] \subseteq Ids /\ given[p] \subseteq managed[p]
        /\ (role[p] \in {"off", "db"} => given[p] = {})
    BY <1>3 DEF RolesTyped, GivenToRun, Route!Roles
  <2>2. i \in given[p] => e \in Route!ExchangesOf(given[p])
    BY DEF Route!ExchangesOf
  <2>3. CASE event \in {"order_exchange", "cancel_order", "cancel_all_orders_instr"}
    <3>1. channel = <<event, e>> /\ channel[1] = event
      BY <1>4, <2>3
    <3>2. channel \in Route!Channels(p) <=> role[p] = "api" /\ e \in Route!ExchangesOf(given[p])
      BY <1>1, <1>3, <2>1, <2>3, <3>1, HeardByRole
    <3>3. event \in Route!Patterns(p) <=> role[p] = "db" /\ event = "order_exchange"
      BY <2>3 DEF Route!Patterns
    <3> HIDE DEF channel, e
    <3>4. QED
      BY <2>1, <2>3, <3>1, <3>2, <3>3 DEF Route!Hears, Route!Meant, Route!Acts, Route!Serves
  <2>4. CASE event = "db_add_order"
    <3>1. channel = <<event, 0>> /\ channel[1] = event
      BY <1>4, <2>4
    <3>2. channel \notin Route!Channels(p)
      BY <1>1, <1>3, <2>1, <2>4, <3>1, HeardByRole
    <3>3. event \in Route!Patterns(p) <=> role[p] = "db"
      BY <2>4 DEF Route!Patterns
    <3> HIDE DEF channel, e
    <3>4. QED
      BY <2>1, <2>4, <3>1, <3>2, <3>3 DEF Route!Hears, Route!Meant, Route!Acts
  <2>5. CASE event \in {"order_update", "trade_exec", "position_update", "instr_status", "orderbook_update",
                        "funding_rate_update"}
    <3>1. channel = <<event, i>> /\ channel[1] = event
      BY <1>4, <2>5
    <3>2. /\ event = "position_update" => (channel \in Route!Channels(p) <=> role[p] # "off" /\ i \in given[p])
          /\ event # "position_update" => (channel \in Route!Channels(p) <=> role[p] = "executor" /\ i \in given[p])
      BY <1>1, <1>3, <2>1, <2>5, <3>1, HeardByRole
    <3>3. event \in Route!Patterns(p) <=> role[p] = "db" /\ event \in {"order_update", "trade_exec", "position_update"}
      BY <2>5 DEF Route!Patterns
    <3> HIDE DEF channel, e
    <3>4. QED
      BY <2>1, <2>5, <3>1, <3>2, <3>3 DEF Route!Hears, Route!Meant, Route!Acts, Route!Trades
  <2>6. QED
    BY <2>3, <2>4, <2>5
<1> HIDE DEF channel, e
<1>6. RolesTyped'
  BY <1>2, <1>3 DEF RolesTyped, Route!Events, Route!ExchangeDriven, Route!InstrumentDriven, Route!Plain
<1>7. GivenToRun'
  BY <1>2, <1>3 DEF GivenToRun
<1>8. Route!Routed'
  <2>1. /\ message'.event = event /\ message'.instr = i /\ message'.exch = e /\ message'.heard = heard_
        /\ message'.acted = {p \in heard_ : Route!Acts(p, event, i)}
    BY <1>2
  <2>2. heard_ = {p \in Processes : Route!Meant(p, event, i, e)}
    BY <1>5
  <2>3. \A p \in message'.heard \ message'.acted : role[p] = "api" /\ i \notin given[p]
    BY <1>5, <2>1
  <2>4. {p \in Processes : Route!Meant(p, event, i, e)'} = {p \in Processes : Route!Meant(p, event, i, e)}
    BY <1>2 DEF Route!Meant, Route!Serves, Route!Trades
  <2>5. event \notin {"exchange_api", "cancel_all_orders_echange"}
    OBVIOUS
  <2> HIDE DEF heard_
  <2>6. QED
    BY <1>2, <2>1, <2>2, <2>3, <2>4, <2>5 DEF Route!Routed, Route!Trades
<1>9. QED
  BY <1>6, <1>7, <1>8 DEF RouteInv

\* An event about an exchange is heard by whom it is meant for, but for the two that go astray.
LEMMA ExchangePublished ==
  ASSUME Route!RoutingAssumption, RouteInv, NEW e \in Exchanges,
         NEW event \in {"exchange_status", "balance_update", "exchange_api", "cancel_all_orders_echange"},
         Route!Publish(event, Route!NoId, e)
  PROVE  RouteInv'
<1> DEFINE channel == Route!PublishChannel(event, Route!NoId, e)
           heard_ == {p \in Processes : Route!Hears(p, channel)}
<1>1. e \in Nat /\ e # 0 /\ Route!NoId = 0 /\ 0 \notin Ids /\ 0 \notin Exchanges
      /\ \A p \in Processes : Route!ExchangesOf(given[p]) \subseteq Exchanges /\ given[p] \subseteq Ids
  BY DEF Route!RoutingAssumption, Route!NoId, Route!ExchangesOf, RouteInv, RolesTyped
<1>2. /\ message' = [event |-> event, instr |-> Route!NoId, exch |-> e, heard |-> heard_,
                     acted |-> {p \in heard_ : Route!Acts(p, event, Route!NoId)}]
      /\ UNCHANGED <<role, given, added, managed>>
  BY DEF Route!Publish
<1>3. /\ RolesTyped /\ GivenToRun
  BY DEF RouteInv
<1>4. channel = IF event = "cancel_all_orders_echange" THEN <<event, 0>> ELSE <<event, e>>
  BY <1>1 DEF Route!PublishChannel, Route!PayloadKey, Route!HasInstrId, Route!HasExchangeId
<1>5. ASSUME NEW p \in Processes
      PROVE  /\ event = "cancel_all_orders_echange" => ~Route!Hears(p, channel)
             /\ event = "exchange_api" =>
                  (Route!Hears(p, channel) <=> \/ role[p] = "api" /\ Route!Serves(p, e)
                                               \/ role[p] = "executor" /\ e \in given[p])
             /\ event \in {"exchange_status", "balance_update"} =>
                  /\ Route!Hears(p, channel) <=> Route!Meant(p, event, 0, e)
                  /\ Route!Acts(p, event, 0)
  <2>1. role[p] \in {"off", "api", "executor", "feed", "db"}
        /\ (role[p] \in {"off", "db"} => given[p] = {} /\ Route!ExchangesOf(given[p]) = {})
    BY <1>3 DEF RolesTyped, GivenToRun, Route!Roles, Route!ExchangesOf
  <2>2. channel[1] = event
    BY <1>4
  <2>3. event \in Route!Patterns(p) <=> role[p] = "db" /\ event = "balance_update"
    BY DEF Route!Patterns
  <2>4. CASE event = "cancel_all_orders_echange"
    <3>1. channel \notin Route!Channels(p)
      BY <1>1, <1>3, <1>4, <2>1, <2>4, HeardByRole
    <3> HIDE DEF channel
    <3>2. QED
      BY <2>2, <2>3, <2>4, <3>1 DEF Route!Hears
  <2>5. CASE event = "exchange_api"
    <3>1. channel \in Route!Channels(p) <=> \/ role[p] = "api" /\ e \in Route!ExchangesOf(given[p])
                                            \/ role[p] = "executor" /\ e \in given[p]
      BY <1>1, <1>3, <1>4, <2>1, <2>5, HeardByRole
    <3> HIDE DEF channel
    <3>2. QED
      BY <2>1, <2>2, <2>3, <2>5, <3>1 DEF Route!Hears, Route!Serves
  <2>6. CASE event \in {"exchange_status", "balance_update"}
    <3>1. channel \in Route!Channels(p) <=>
             e \in Route!ExchangesOf(given[p]) /\ (event = "exchange_status" => role[p] = "executor")
      BY <1>1, <1>3, <1>4, <2>1, <2>6, HeardByRole
    <3> HIDE DEF channel
    <3>2. QED
      BY <2>1, <2>2, <2>3, <2>6, <3>1 DEF Route!Hears, Route!Meant, Route!Acts, Route!Serves
  <2>7. QED
    BY <2>4, <2>5, <2>6
<1> HIDE DEF channel
<1>6. RolesTyped'
  BY <1>2, <1>3 DEF RolesTyped, Route!Events, Route!ExchangeDriven, Route!InstrumentDriven, Route!Plain
<1>7. GivenToRun'
  BY <1>2, <1>3 DEF GivenToRun
<1>8. Route!Routed'
  <2>1. /\ message'.event = event /\ message'.instr = 0 /\ message'.exch = e /\ message'.heard = heard_
        /\ message'.acted = {p \in heard_ : Route!Acts(p, event, 0)}
    BY <1>1, <1>2
  <2>2. {p \in Processes : Route!Meant(p, event, 0, e)'} = {p \in Processes : Route!Meant(p, event, 0, e)}
    BY <1>2 DEF Route!Meant, Route!Serves, Route!Trades
  <2>3. /\ event = "cancel_all_orders_echange" => heard_ = {}
        /\ event = "exchange_api" =>
             heard_ = {p \in Processes : \/ role[p] = "api" /\ Route!Serves(p, e)
                                         \/ role[p] = "executor" /\ e \in given[p]}
        /\ event \in {"exchange_status", "balance_update"} =>
             /\ heard_ = {p \in Processes : Route!Meant(p, event, 0, e)}
             /\ message'.heard \ message'.acted = {}
    BY <1>5, <2>1
  <2> HIDE DEF heard_
  <2>4. QED
    BY <1>2, <2>1, <2>2, <2>3 DEF Route!Routed, Route!Serves
<1>9. QED
  BY <1>6, <1>7, <1>8 DEF RouteInv

LEMMA RouteStep ==
  ASSUME Route!RoutingAssumption, RouteInv, [Route!Next]_(Route!vars)
  PROVE  RouteInv'
<1>0. Route!Nothing.event \in Route!Events /\ Route!Nothing.heard = {} /\ Route!Nothing.acted = {}
  BY DEF Route!Nothing, Route!Events, Route!Plain
<1>1. ASSUME NEW p \in Processes, NEW r \in Route!Roles, NEW instrs \in SUBSET Ids, Route!Start(p, r, instrs)
      PROVE  RouteInv'
  <2>1. RolesTyped' /\ Route!Routed'
    BY <1>0, <1>1 DEF Route!Start, RouteInv, RolesTyped, Route!Routed
  <2>2. GivenToRun'
    BY <1>1 DEF Route!Start, RouteInv, RolesTyped, GivenToRun, Route!Roles
  <2>3. QED
    BY <2>1, <2>2 DEF RouteInv
<1>2. ASSUME NEW p \in Processes, Route!Stop(p) \/ Route!CancelAllOrders(p)
      PROVE  RouteInv'
  BY <1>0, <1>2 DEF Route!Stop, Route!CancelAllOrders, RouteInv, RolesTyped, GivenToRun, Route!Routed
<1>3. ASSUME NEW p \in Processes, NEW i \in Ids, Route!AddInstrument(p, i)
      PROVE  RouteInv'
  <2>1. RolesTyped' /\ Route!Routed'
    BY <1>0, <1>3 DEF Route!AddInstrument, RouteInv, RolesTyped, Route!Routed
  <2>2. GivenToRun'
    BY <1>3 DEF Route!AddInstrument, RouteInv, RolesTyped, GivenToRun
  <2>3. QED
    BY <2>1, <2>2 DEF RouteInv
<1>4. ASSUME NEW p \in Processes, NEW i \in Ids, NEW event \in Route!Events,
             Route!SaveOrderDb(p, i) \/ Route!ExecutorPublishes(p, event, i) \/ Route!FeedPublishes(p, event, i)
      PROVE  RouteInv'
  BY <1>4, InstrumentPublished DEF Route!SaveOrderDb, Route!ExecutorPublishes, Route!FeedPublishes,
     Route!ByExecutor, Route!ByFeed
<1>5. ASSUME NEW p \in Processes, NEW e \in Exchanges, Route!CancelAllOrdersExchange(p, e)
      PROVE  RouteInv'
  BY <1>5, ExchangePublished DEF Route!CancelAllOrdersExchange
<1>6. ASSUME NEW p \in Processes, NEW event \in Route!Events, Route!ApiPublishes(p, event)
      PROVE  RouteInv'
  <2>1. Route!ExchangesOf(given[p]) \subseteq Exchanges
    BY DEF Route!RoutingAssumption, Route!ExchangesOf, RouteInv, RolesTyped
  <2>2. QED
    BY <1>6, <2>1, ExchangePublished DEF Route!ApiPublishes, Route!HasExchangeId
<1>7. CASE UNCHANGED Route!vars
  <2>1. RolesTyped' /\ GivenToRun'
    BY <1>7 DEF Route!vars, RouteInv, RolesTyped, GivenToRun
  <2>2. Route!Routed'
    BY <1>7 DEF Route!vars, RouteInv, Route!Routed, Route!Meant, Route!Serves, Route!Trades
  <2>3. QED
    BY <2>1, <2>2 DEF RouteInv
<1>8. QED
  <2>1. "db_add_order" \in Route!Events
    BY DEF Route!Events, Route!Plain
  <2>2. ASSUME NEW p \in Processes, NEW i \in Ids,
               \/ Route!AddInstrument(p, i) \/ Route!SaveOrderDb(p, i)
               \/ \E event \in Route!Events : Route!ExecutorPublishes(p, event, i) \/ Route!FeedPublishes(p, event, i)
        PROVE  RouteInv'
    BY <1>3, <1>4, <2>1, <2>2
  <2>3. CASE Route!Next
    BY <1>1, <1>2, <1>5, <1>6, <2>2, <2>3 DEF Route!Next
  <2>4. QED
    BY <1>7, <2>3

-----------------------------------------------------------------------------
(* The feed: what a sequence of messages says last                            *)

\* Some message of S is in q; the last one that is, if any, is in T.
Has(q, S) == \E n \in DOMAIN q : q[n] \in S
Final(q, S, T) == \A n \in DOMAIN q : q[n] \in S /\ (\A m \in DOMAIN q : m > n => q[m] \notin S) => q[n] \in T

\* A message that is appended is the last.
LEMMA LastAppended ==
  ASSUME NEW M, NEW q \in Seq(M), NEW e \in M, NEW S, NEW T
  PROVE  /\ Has(Append(q, e), S) <=> Has(q, S) \/ e \in S
         /\ e \in S \cap T => Final(Append(q, e), S, T)
         /\ e \notin S /\ Final(q, S, T) => Final(Append(q, e), S, T)
<1> DEFINE r == Append(q, e)
           N == Len(q)
<1>1. /\ N \in Nat /\ DOMAIN q = 1..N /\ DOMAIN r = 1..N + 1 /\ r[N + 1] = e
      /\ \A n \in 1..N : r[n] = q[n]
  BY AppendProperties, LenProperties
<1> HIDE DEF r, N
<1>2. Has(r, S) <=> Has(q, S) \/ e \in S
  <2>1. Has(r, S) => Has(q, S) \/ e \in S
    BY <1>1 DEF Has
  <2>2. Has(q, S) => Has(r, S)
    BY <1>1 DEF Has
  <2>3. N + 1 \in DOMAIN r
    BY <1>1
  <2>4. e \in S => Has(r, S)
    BY <1>1, <2>3 DEF Has
  <2>5. QED
    BY <2>1, <2>2, <2>4
<1>3. ASSUME e \in S \cap T
      PROVE  Final(r, S, T)
  BY <1>1, <1>3 DEF Final
<1>4. ASSUME e \notin S, Final(q, S, T)
      PROVE  Final(r, S, T)
  <2> SUFFICES ASSUME NEW n \in DOMAIN r, r[n] \in S, \A m \in DOMAIN r : m > n => r[m] \notin S
               PROVE  r[n] \in T
    BY DEF Final
  <2>1. n \in 1..N /\ r[n] = q[n]
    BY <1>1, <1>4
  <2>2. \A m \in DOMAIN q : m > n => q[m] \notin S
    BY <1>1
  <2>3. QED
    BY <1>1, <1>4, <2>1, <2>2 DEF Final
<1>5. QED
  BY <1>2, <1>3, <1>4 DEF r

\* What is left when the first message is taken; that one is the last if no other is left.
LEMMA LastLeft ==
  ASSUME NEW M, NEW q \in Seq(M), q # <<>>, NEW S, NEW T, Final(q, S, T)
  PROVE  /\ Final(Tail(q), S, T)
         /\ Has(q, S) <=> Has(Tail(q), S) \/ q[1] \in S
         /\ q[1] \in S /\ ~Has(Tail(q), S) => q[1] \in T
<1> DEFINE r == Tail(q)
           N == Len(q)
<1>1. /\ N \in Nat \ {0} /\ DOMAIN q = 1..N /\ DOMAIN r = 1..N - 1
      /\ \A n \in 1..N - 1 : r[n] = q[n + 1]
  BY HeadTailProperties, EmptySeq, LenProperties
<1> HIDE DEF r, N
<1>2. \A n \in DOMAIN r : n + 1 \in DOMAIN q /\ r[n] = q[n + 1]
  BY <1>1
<1>3. \A m \in DOMAIN q : m > 1 => m - 1 \in DOMAIN r /\ r[m - 1] = q[m]
  BY <1>1
<1>4. Final(r, S, T)
  <2> SUFFICES ASSUME NEW n \in DOMAIN r, r[n] \in S, \A m \in DOMAIN r : m > n => r[m] \notin S
               PROVE  r[n] \in T
    BY DEF Final
  <2>1. \A m \in DOMAIN q : m > n + 1 => q[m] \notin S
    <3> TAKE m \in DOMAIN q
    <3> HAVE m > n + 1
    <3>1. m > 1 /\ m - 1 > n
      BY <1>1
    <3>2. QED
      BY <1>3, <3>1
  <2>2. QED
    BY <1>2, <2>1 DEF Final
<1>5. Has(q, S) <=> Has(r, S) \/ q[1] \in S
  <2>1. 1 \in DOMAIN q /\ \A m \in DOMAIN q : m = 1 \/ m > 1
    BY <1>1
  <2>2. QED
    BY <1>2, <1>3, <2>1 DEF Has
<1>6. q[1] \in S /\ ~Has(r, S) => q[1] \in T
  <2> HAVE q[1] \in S /\ ~Has(r, S)
  <2>1. 1 \in DOMAIN q /\ \A m \in DOMAIN q : m > 1 => q[m] \notin S
    BY <1>1, <1>3 DEF Has
  <2>2. QED
    BY <2>1 DEF Final
<1>7. QED
  BY <1>4, <1>5, <1>6 DEF r

-----------------------------------------------------------------------------
(* The feed, its exchange and its reader                                      *)

\* The messages of a kind about an instrument, the fundings that tell its rate, that tell its
\* next time, and those that say v
Of(k, i) == {m \in Feed!Messages : m.kind = k /\ m.instr = i}
TellRate(i) == {m \in Of("funding", i) : m.val.rate \notin {None, 0}}
TellNext(i) == {m \in Of("funding", i) : m.val.next # None}
Say(v) == {m \in Feed!Messages : m.val = v}
SayRate(v) == {m \in Feed!Messages : m.val.rate = v}
SayNext(v) == {m \in Feed!Messages : m.val.next = v}
Known == {m \in Feed!Messages : m.instr \in Listed}
Storing(i) == storing # None /\ storing.instr = i
Paid(i) == [venue[i] EXCEPT !.rate = @ * Multiplier[i]]
Hearing == reader \in {"subscribed", "running"}

FeedTyped ==
  /\ pro \in BOOLEAN /\ feed \in {"off", "on"} /\ mapping \subseteq Listed
  /\ reader \in {"out", "built", "subscribed", "running"}
  /\ made \in 0..MaxChanges /\ errors \in 0..MaxErrors /\ kills \in 0..MaxKills /\ readers \in 0..MaxReaders
  /\ venue \in [Instruments -> [rate : Rates, next : Times]]
  /\ wire \in Seq(Feed!Messages) /\ queue \in Seq(Known)
  /\ storing = None \/ (storing \in Of("funding", storing.instr) /\ storing.instr \in Instruments /\ feed = "on")
  /\ fundings \in [Instruments -> Feed!Funding] /\ hash \in [Instruments -> Feed!Funding \cup {None}]
  /\ \A f \in {view, last, since} :
       /\ DOMAIN f = Feed!Kinds
       /\ f["funding"] \in [Instruments -> Feed!Funding \cup {None}]
       /\ f["book"] \in [Instruments -> Nat \cup {None}] /\ f["trade"] \in [Instruments -> Nat \cup {None}]

\* Redis has the funding published last, or is about to, but for one the feed was killed at.
StoresLast ==
  \A i \in Instruments :
    /\ Storing(i) => storing.val = last["funding"][i]
    /\ i \notin cut /\ ~Storing(i) => hash[i] = last["funding"][i]

\* The reader will hear last what was published last since it subscribed, of which it misses
\* nothing, and shows that once there is no more to hear.
HearsOf(k, i) ==
  /\ Final(queue, Of(k, i), Say(since[k][i]))
  /\ Has(queue, Of(k, i)) => since[k][i] = last[k][i]
  /\ reader = "subscribed" /\ since[k][i] # None => Has(queue, Of(k, i))
  /\ reader = "running" /\ ~Has(queue, Of(k, i)) /\ k # "funding" => view[k][i] = since[k][i]
  /\ reader = "running" /\ ~Has(queue, Of(k, i)) /\ k = "funding" =>
       i \in missed \/ (i \in cut /\ ~Storing(i)) \/ view[k][i] = last[k][i]
HearsLast == Hearing => \A k \in Feed!Kinds, i \in Instruments : HearsOf(k, i)

\* The exchange will say last what it has, and the feed published that once it has no more
\* to hear: the whole of it, or each part of it that is not zero.
TellsOf(i) ==
  /\ ~pro =>
       /\ Final(wire, Of("funding", i), Say(venue[i]))
       /\ ~Has(wire, Of("funding", i)) => last["funding"][i] = Paid(i)
  /\ pro =>
       /\ Final(wire, TellNext(i), SayNext(venue[i].next))
       /\ ~Has(wire, TellNext(i)) => fundings[i].next = venue[i].next
       /\ venue[i].rate # 0 =>
            /\ Final(wire, TellRate(i), SayRate(venue[i].rate))
            /\ ~Has(wire, TellRate(i)) => fundings[i].rate = venue[i].rate
TellsLast == feed = "on" => \A i \in Given : TellsOf(i)
Complete(f) == f.rate \notin {None, 0} /\ f.next # None
PublishesComplete ==
  pro => \A i \in Instruments : Complete(fundings[i]) => last["funding"][i] = fundings[i]

FeedInv == FeedTyped /\ StoresLast /\ HearsLast /\ TellsLast /\ PublishesComplete

\* Sizes are the same in an instance.
LEMMA SizeOfGiven == Feed!Cardinality(Given) = Cardinality(Given) /\ (Feed!IsFiniteSet(Given) <=> IsFiniteSet(Given))
<1>1. Feed!Cardinality(Given) = Cardinality(Given)
  BY DEF Cardinality, Feed!Cardinality, IsFiniteSet, Feed!IsFiniteSet
<1>2. Feed!IsFiniteSet(Given) <=> IsFiniteSet(Given)
  BY DEF IsFiniteSet, Feed!IsFiniteSet
<1>3. QED
  BY <1>1, <1>2

\* What the assumption says, part by part
LEMMA FeedConstants ==
  ASSUME Feed!PublicFeedAssumption
  PROVE  /\ MaxChanges \in Nat /\ MaxErrors \in Nat /\ MaxKills \in Nat /\ MaxReaders \in Nat
         /\ Given \subseteq Listed /\ Listed \subseteq Instruments /\ IsFiniteSet(Given)
         /\ Rates \subseteq Nat /\ Times \subseteq Nat \ {0} /\ Multiplier \in [Instruments -> Nat \ {0}]
         /\ None \notin Int /\ None \notin Feed!Messages
  BY SizeOfGiven DEF Feed!PublicFeedAssumption

LEMMA FeedTypes ==
  ASSUME Feed!PublicFeedAssumption, FeedInv
  PROVE  Feed!TypeOK
<1>1. \A n \in DOMAIN queue : queue[n] \in Known
  BY ElementOfSeq DEF FeedInv, FeedTyped
<1>2. \A n \in DOMAIN queue : queue[n].kind \in Feed!Kinds /\ queue[n].instr \in Listed
  BY <1>1 DEF Known, Feed!Messages, Feed!Kinds
<1>3. QED
  BY <1>2 DEF FeedInv, FeedTyped, Feed!TypeOK

LEMMA FeedInits ==
  ASSUME Feed!PublicFeedAssumption, Feed!Init PROVE FeedInv
<1>1. /\ (CHOOSE t \in Times : TRUE) \in Times /\ 1 \in Rates
      /\ <<>> \in Seq(Known) /\ <<>> \in Seq(Feed!Messages)
  BY EmptySeq DEF Feed!PublicFeedAssumption
<1>2. venue \in [Instruments -> [rate : Rates, next : Times]]
  BY <1>1 DEF Feed!Init
<1>3. pro \in BOOLEAN
  BY DEF Feed!Init
<1>4. FeedTyped
  BY <1>1, <1>2, <1>3, FeedConstants DEF Feed!Init, FeedTyped, Feed!Funding, Feed!Nothing, Feed!Blank, Feed!Kinds
<1>5. StoresLast
  BY DEF Feed!Init, StoresLast, Storing, Feed!Blank, Feed!Kinds
<1>6. HearsLast /\ TellsLast
  BY DEF Feed!Init, HearsLast, HearsOf, Hearing, TellsLast
<1>7. PublishesComplete
  BY DEF Feed!Init, PublishesComplete, Complete, Feed!Nothing
<1>8. QED
  BY <1>4, <1>5, <1>6, <1>7 DEF FeedInv

\* What the reader hears is not disturbed by what it does not hear of.
LEMMA HearsKept ==
  ASSUME FeedInv, UNCHANGED <<last, reader, queue, view, since, missed>>,
         \A i \in Instruments : i \in cut /\ ~Storing(i) => i \in cut' /\ ~Storing(i)'
  PROVE  HearsLast'
  BY DEF FeedInv, HearsLast, HearsOf, Hearing, Of, Say

\* A publication: the reader hears it, if it listens.
LEMMA PublishedTyped ==
  ASSUME Feed!PublicFeedAssumption, FeedInv, NEW k \in Feed!Kinds, NEW i \in Listed, NEW v,
         Feed!Message(k, i, v) \in Feed!Messages, Feed!Publish(k, i, v)
  PROVE  /\ queue' \in Seq(Known)
         /\ \A f \in {last', view', since'} :
              /\ DOMAIN f = Feed!Kinds
              /\ f["funding"] \in [Instruments -> Feed!Funding \cup {None}]
              /\ f["book"] \in [Instruments -> Nat \cup {None}] /\ f["trade"] \in [Instruments -> Nat \cup {None}]
         /\ last'[k][i] = v
         /\ \A l \in Feed!Kinds, j \in Instruments : <<l, j>> # <<k, i>> => last'[l][j] = last[l][j]
         /\ UNCHANGED <<reader, view, missed, readers>>
<1> DEFINE e == Feed!Message(k, i, v)
           put(f) == [f EXCEPT ![k][i] = v]
<1>1. /\ e \in Known /\ i \in Instruments /\ queue \in Seq(Known)
      /\ k = "funding" => v \in Feed!Funding
      /\ k # "funding" => v \in Nat
  BY DEF Known, Feed!Messages, Feed!Message, Feed!PublicFeedAssumption, FeedInv, FeedTyped
<1>2. queue' \in Seq(Known)
  BY <1>1, AppendProperties DEF Feed!Publish
<1>3. \A f \in {view, last, since} :
        /\ DOMAIN f = Feed!Kinds
        /\ f["funding"] \in [Instruments -> Feed!Funding \cup {None}]
        /\ f["book"] \in [Instruments -> Nat \cup {None}] /\ f["trade"] \in [Instruments -> Nat \cup {None}]
  BY DEF FeedInv, FeedTyped
<1>4. ASSUME NEW f,
             DOMAIN f = Feed!Kinds,
             f["funding"] \in [Instruments -> Feed!Funding \cup {None}],
             f["book"] \in [Instruments -> Nat \cup {None}], f["trade"] \in [Instruments -> Nat \cup {None}]
      PROVE  /\ DOMAIN put(f) = Feed!Kinds
             /\ put(f)["funding"] \in [Instruments -> Feed!Funding \cup {None}]
             /\ put(f)["book"] \in [Instruments -> Nat \cup {None}] /\ put(f)["trade"] \in [Instruments -> Nat \cup {None}]
             /\ put(f)[k][i] = v
             /\ \A l \in Feed!Kinds, j \in Instruments : <<l, j>> # <<k, i>> => put(f)[l][j] = f[l][j]
  <2>1. k \in {"funding", "book", "trade"}
    BY DEF Feed!Kinds
  <2>2. DOMAIN put(f) = Feed!Kinds /\ put(f)[k] = [f[k] EXCEPT ![i] = v] /\ \A l \in Feed!Kinds : l # k => put(f)[l] = f[l]
    BY <1>4
  <2>3. DOMAIN f[k] = Instruments
    BY <1>4, <2>1
  <2>4. QED
    BY <1>1, <1>4, <2>1, <2>2, <2>3 DEF Feed!Kinds
<1>5. /\ last' = put(last) /\ view' = view
      /\ since' = since \/ since' = put(since)
      /\ UNCHANGED <<reader, view, missed, readers>>
  BY DEF Feed!Publish
<1> HIDE DEF e, put
<1>6. \A f \in {last', view', since'} :
        /\ DOMAIN f = Feed!Kinds
        /\ f["funding"] \in [Instruments -> Feed!Funding \cup {None}]
        /\ f["book"] \in [Instruments -> Nat \cup {None}] /\ f["trade"] \in [Instruments -> Nat \cup {None}]
  BY <1>3, <1>4, <1>5
<1>7. /\ last'[k][i] = v
      /\ \A l \in Feed!Kinds, j \in Instruments : <<l, j>> # <<k, i>> => last'[l][j] = last[l][j]
  <2>1. /\ DOMAIN last = Feed!Kinds
        /\ last["funding"] \in [Instruments -> Feed!Funding \cup {None}]
        /\ last["book"] \in [Instruments -> Nat \cup {None}] /\ last["trade"] \in [Instruments -> Nat \cup {None}]
    BY <1>3
  <2>2. last' = put(last)
    BY <1>5
  <2>3. QED
    BY <1>4, <2>1, <2>2
<1>8. QED
  BY <1>2, <1>5, <1>6, <1>7

LEMMA PublishedHeard ==
  ASSUME Feed!PublicFeedAssumption, FeedInv, NEW k \in Feed!Kinds, NEW i \in Listed, NEW v,
         Feed!Message(k, i, v) \in Feed!Messages, Feed!Publish(k, i, v),
         cut' = cut, storing = None, storing' = None \/ (k = "funding" /\ storing'.instr = i)
  PROVE  HearsLast'
<1> DEFINE e == Feed!Message(k, i, v)
<1>1. /\ e \in Known /\ i \in Instruments /\ queue \in Seq(Known)
  BY DEF Known, Feed!Messages, Feed!Message, Feed!PublicFeedAssumption, FeedInv, FeedTyped
<1>2. /\ last'[k][i] = v
      /\ \A l \in Feed!Kinds, j \in Instruments : <<l, j>> # <<k, i>> => last'[l][j] = last[l][j]
      /\ UNCHANGED <<reader, view, missed>>
  BY PublishedTyped
<1> SUFFICES ASSUME Hearing', NEW l \in Feed!Kinds, NEW j \in Instruments
             PROVE  /\ Final(queue', Of(l, j), Say(since'[l][j]))
                    /\ Has(queue', Of(l, j)) => since'[l][j] = last'[l][j]
                    /\ reader' = "subscribed" /\ since'[l][j] # None => Has(queue', Of(l, j))
                    /\ reader' = "running" /\ ~Has(queue', Of(l, j)) /\ l # "funding" => view'[l][j] = since'[l][j]
                    /\ reader' = "running" /\ ~Has(queue', Of(l, j)) /\ l = "funding" =>
                         j \in missed' \/ (j \in cut' /\ ~Storing(j)') \/ view'[l][j] = last'[l][j]
  BY DEF HearsLast, HearsOf, Of, Say
<1>3. Hearing /\ queue' = Append(queue, e) /\ since' = [since EXCEPT ![k][i] = v]
  BY <1>2 DEF Hearing, Feed!Publish
<1>4. since'[k][i] = v /\ \A m \in Feed!Kinds, n \in Instruments : <<m, n>> # <<k, i>> => since'[m][n] = since[m][n]
  <2>1. DOMAIN since[k] = Instruments /\ DOMAIN since = Feed!Kinds
    BY <1>1 DEF FeedInv, FeedTyped, Feed!Kinds
  <2>2. since'[k] = [since[k] EXCEPT ![i] = v] /\ \A m \in Feed!Kinds : m # k => since'[m] = since[m]
    BY <1>3, <2>1
  <2>3. since'[k][i] = v /\ \A n \in Instruments : n # i => since'[k][n] = since[k][n]
    BY <1>1, <2>1, <2>2
  <2>4. QED
    BY <2>2, <2>3
<1>5. e.kind = k /\ e.instr = i /\ e.val = v /\ e \in Feed!Messages
  BY DEF Feed!Message
<1> HIDE DEF e
<1>6. CASE <<l, j>> = <<k, i>>
  <2>1. e \in Of(l, j) \cap Say(since'[l][j])
    BY <1>4, <1>5, <1>6 DEF Of, Say
  <2>2. Final(queue', Of(l, j), Say(since'[l][j])) /\ Has(queue', Of(l, j))
    BY <1>1, <1>3, <2>1, LastAppended
  <2>3. QED
    BY <1>2, <1>4, <1>6, <2>2
<1>7. CASE <<l, j>> # <<k, i>>
  <2>1. e \notin Of(l, j)
    BY <1>5, <1>7 DEF Of
  <2>2. Final(queue, Of(l, j), Say(since[l][j])) /\ since'[l][j] = since[l][j]
    BY <1>3, <1>4, <1>7 DEF FeedInv, HearsLast, HearsOf
  <2>3. Final(queue', Of(l, j), Say(since'[l][j])) /\ (Has(queue', Of(l, j)) <=> Has(queue, Of(l, j)))
    BY <1>1, <1>3, <2>1, <2>2, LastAppended
  <2>4. l = "funding" => ~Storing(j)'
    BY <1>7 DEF Storing
  <2>5. last'[l][j] = last[l][j]
    BY <1>2, <1>7
  <2>6. QED
    BY <1>2, <1>3, <2>2, <2>3, <2>4, <2>5 DEF FeedInv, HearsLast, HearsOf, Storing
<1>8. QED
  BY <1>6, <1>7

-----------------------------------------------------------------------------
\* A message that is not a funding of an instrument is taken, or comes.
LEMMA TellsTaken ==
  ASSUME FeedInv, feed = "on", wire # <<>>, wire' = Tail(wire), NEW i \in Given, wire[1] \notin Of("funding", i),
         UNCHANGED <<pro, venue>>, last'["funding"][i] = last["funding"][i], fundings'[i] = fundings[i]
  PROVE  TellsOf(i)'
<1>1. wire \in Seq(Feed!Messages) /\ TellsOf(i)
  BY DEF FeedInv, FeedTyped, TellsLast
<1>2. wire[1] \notin TellNext(i) /\ wire[1] \notin TellRate(i)
  BY DEF TellNext, TellRate
<1>3. \A S, T : wire[1] \notin S /\ Final(wire, S, T) => Final(wire', S, T) /\ (Has(wire', S) <=> Has(wire, S))
  BY <1>1, LastLeft
<1>4. ~pro => /\ Final(wire', Of("funding", i), Say(venue[i]))
              /\ ~Has(wire', Of("funding", i)) => last["funding"][i] = Paid(i)
  BY <1>1, <1>3 DEF TellsOf
<1>5. pro => /\ Final(wire', TellNext(i), SayNext(venue[i].next))
             /\ ~Has(wire', TellNext(i)) => fundings[i].next = venue[i].next
             /\ venue[i].rate # 0 => /\ Final(wire', TellRate(i), SayRate(venue[i].rate))
                                     /\ ~Has(wire', TellRate(i)) => fundings[i].rate = venue[i].rate
  BY <1>1, <1>2, <1>3 DEF TellsOf
<1>6. QED
  BY <1>4, <1>5 DEF TellsOf, Of, TellNext, TellRate, Say, SayNext, SayRate, Paid

LEMMA ChangeStep ==
  ASSUME Feed!PublicFeedAssumption, FeedInv, NEW i \in Instruments, NEW rate \in Rates, NEW next \in Times,
         Feed!Change(i, rate, next)
  PROVE  FeedInv'
<1> DEFINE new == [rate |-> rate, next |-> next]
<1>1. /\ venue' = [venue EXCEPT ![i] = new] /\ venue \in [Instruments -> [rate : Rates, next : Times]]
      /\ wire \in Seq(Feed!Messages) /\ made' \in 0..MaxChanges /\ Rates \subseteq Nat /\ Times \subseteq Nat \ {0}
      /\ Given \subseteq Instruments
      /\ UNCHANGED <<pro, feed, mapping, fundings, storing, hash, last, cut, errors, kills, reader, queue, view,
                     since, missed, readers>>
  <2>1. made \in 0..MaxChanges /\ made < MaxChanges /\ made' = made + 1
    BY DEF Feed!Change, FeedInv, FeedTyped
  <2>2. made' \in 0..MaxChanges
    BY <2>1, FeedConstants
  <2>3. QED
    BY <2>2, FeedConstants DEF Feed!Change, Feed!reading, FeedInv, FeedTyped
<1>2. PICK t : /\ t \in [rate : {rate, None}, next : {next, None}]
               /\ ~pro => t = new
               /\ pro /\ rate # venue[i].rate => t.rate = rate
               /\ pro /\ next # venue[i].next => t.next = next
               /\ wire' = IF feed = "on" THEN Append(wire, Feed!Message("funding", i, t)) ELSE wire
  BY DEF Feed!Change
<1> DEFINE m == Feed!Message("funding", i, t)
<1>3. m \in Feed!Messages /\ m.kind = "funding" /\ m.instr = i /\ m.val = t
  BY <1>1, <1>2 DEF Feed!Message, Feed!Messages, Feed!Funding
<1>4. wire' \in Seq(Feed!Messages)
  BY <1>1, <1>2, <1>3, AppendProperties
<1>5. FeedTyped'
  BY <1>1, <1>4 DEF FeedInv, FeedTyped, Of, Known
<1>6. StoresLast' /\ PublishesComplete'
  BY <1>1 DEF FeedInv, StoresLast, PublishesComplete, Storing, Complete
<1>7. HearsLast'
  BY <1>1, HearsKept DEF Storing
<1>8. ASSUME feed' = "on", NEW j \in Given
      PROVE  TellsOf(j)'
  <2> HIDE DEF m, new
  <2>1. wire' = Append(wire, m) /\ TellsOf(j) /\ feed = "on"
    BY <1>1, <1>2, <1>8 DEF m, FeedInv, TellsLast
  <2>2. \A S, T : /\ Has(wire', S) <=> Has(wire, S) \/ m \in S
                  /\ m \in S \cap T => Final(wire', S, T)
                  /\ m \notin S /\ Final(wire, S, T) => Final(wire', S, T)
    BY <1>1, <1>3, <2>1, LastAppended
  <2>3. CASE j # i
    <3>1. m \notin Of("funding", j) /\ m \notin TellNext(j) /\ m \notin TellRate(j) /\ venue'[j] = venue[j]
      BY <1>1, <1>3, <2>3 DEF Of, TellNext, TellRate
    <3>2. ~pro => /\ Final(wire', Of("funding", j), Say(venue[j]))
                  /\ ~Has(wire', Of("funding", j)) => last["funding"][j] = Paid(j)
      BY <2>1, <2>2, <3>1 DEF TellsOf
    <3>3. pro => /\ Final(wire', TellNext(j), SayNext(venue[j].next))
                 /\ ~Has(wire', TellNext(j)) => fundings[j].next = venue[j].next
                 /\ venue[j].rate # 0 => /\ Final(wire', TellRate(j), SayRate(venue[j].rate))
                                         /\ ~Has(wire', TellRate(j)) => fundings[j].rate = venue[j].rate
      BY <2>1, <2>2, <3>1 DEF TellsOf
    <3>4. QED
      BY <1>1, <3>1, <3>2, <3>3 DEF TellsOf, Of, TellNext, TellRate, Say, SayNext, SayRate, Paid
  <2>4. CASE j = i
    <3>1. venue'[i] = new /\ new.rate = rate /\ new.next = next
      BY <1>1 DEF new
    <3>2. ~pro => m \in Of("funding", i) \cap Say(venue'[i])
      BY <1>2, <1>3, <3>1 DEF Of, Say
    <3>3. pro => /\ m \in TellNext(i) => m \in SayNext(next)
                 /\ m \notin TellNext(i) => next = venue[i].next
                 /\ rate # 0 => /\ m \in TellRate(i) => m \in SayRate(rate)
                                /\ m \notin TellRate(i) => rate = venue[i].rate
      <4>1. rate # None /\ next # None
        BY <1>1, FeedConstants
      <4>2. m \in Of("funding", i)
        BY <1>3 DEF Of
      <4>3. QED
        BY <1>2, <1>3, <4>1, <4>2 DEF TellNext, TellRate, SayNext, SayRate
    <3>4. ~pro => /\ Final(wire', Of("funding", i), Say(venue'[i])) /\ Has(wire', Of("funding", i))
      BY <2>2, <3>2
    <3>5. pro => /\ Final(wire', TellNext(i), SayNext(next))
                 /\ ~Has(wire', TellNext(i)) => fundings[i].next = next
      BY <2>1, <2>2, <2>4, <3>3 DEF TellsOf
    <3>6. pro /\ rate # 0 => /\ Final(wire', TellRate(i), SayRate(rate))
                             /\ ~Has(wire', TellRate(i)) => fundings[i].rate = rate
      BY <2>1, <2>2, <2>4, <3>3 DEF TellsOf
    <3>7. QED
      BY <1>1, <2>4, <3>1, <3>4, <3>5, <3>6 DEF TellsOf, Of, TellNext, TellRate, Say, SayNext, SayRate
  <2>5. QED
    BY <2>3, <2>4
<1>9. QED
  BY <1>5, <1>6, <1>7, <1>8 DEF FeedInv, TellsLast

LEMMA TradeStep ==
  ASSUME Feed!PublicFeedAssumption, FeedInv, NEW k \in Feed!Kinds, NEW i \in Instruments, Feed!Trade(k, i)
  PROVE  FeedInv'
<1> DEFINE m == Feed!Message(k, i, made')
<1>1. made \in 0..MaxChanges /\ made < MaxChanges /\ made' = made + 1 /\ k # "funding"
  BY DEF Feed!Trade, FeedInv, FeedTyped
<1>2. made' \in 0..MaxChanges /\ made' \in Nat /\ Given \subseteq Instruments
  BY <1>1, FeedConstants
<1>3. /\ m \in Feed!Messages /\ wire' = Append(wire, m) /\ wire \in Seq(Feed!Messages) /\ m.kind = k /\ feed = "on"
      /\ UNCHANGED <<pro, venue, feed, mapping, fundings, storing, hash, last, cut, errors, kills, reader, queue,
                     view, since, missed, readers>>
  BY <1>1, <1>2 DEF Feed!Trade, Feed!reading, Feed!Message, Feed!Messages, FeedInv, FeedTyped
<1> HIDE DEF m
<1>4. wire' \in Seq(Feed!Messages)
  BY <1>3, AppendProperties
<1>5. FeedTyped'
  BY <1>2, <1>3, <1>4 DEF FeedInv, FeedTyped, Of, Known
<1>6. StoresLast' /\ PublishesComplete'
  BY <1>3 DEF FeedInv, StoresLast, PublishesComplete, Storing, Complete
<1>7. HearsLast'
  BY <1>3, HearsKept DEF Storing
<1>8. ASSUME NEW j \in Given
      PROVE  TellsOf(j)'
  <2>1. TellsOf(j) /\ m \notin Of("funding", j) /\ m \notin TellNext(j) /\ m \notin TellRate(j)
    BY <1>1, <1>3 DEF FeedInv, TellsLast, Of, TellNext, TellRate
  <2>2. \A S, T : m \notin S => /\ Has(wire', S) <=> Has(wire, S)
                                /\ Final(wire, S, T) => Final(wire', S, T)
    BY <1>3, LastAppended
  <2>3. ~pro => /\ Final(wire', Of("funding", j), Say(venue[j]))
                /\ ~Has(wire', Of("funding", j)) => last["funding"][j] = Paid(j)
    BY <2>1, <2>2 DEF TellsOf
  <2>4. pro => /\ Final(wire', TellNext(j), SayNext(venue[j].next))
               /\ ~Has(wire', TellNext(j)) => fundings[j].next = venue[j].next
               /\ venue[j].rate # 0 => /\ Final(wire', TellRate(j), SayRate(venue[j].rate))
                                       /\ ~Has(wire', TellRate(j)) => fundings[j].rate = venue[j].rate
    BY <2>1, <2>2 DEF TellsOf
  <2>5. QED
    BY <1>3, <2>3, <2>4 DEF TellsOf, Of, TellNext, TellRate, Say, SayNext, SayRate, Paid
<1>9. QED
  BY <1>5, <1>6, <1>7, <1>8 DEF FeedInv, TellsLast

\* What the exchange answers a subscription with: the latest of each instrument.
LEMMA TellsAll ==
  ASSUME Feed!PublicFeedAssumption, FeedTyped, venue' = venue, pro' = pro, wire' \in [1..Cardinality(Given) -> Feed!Snapshots],
         \A m \in Feed!Snapshots : \E k \in DOMAIN wire' : wire'[k] = m
  PROVE  wire' \in Seq(Feed!Messages) /\ \A i \in Given : TellsOf(i)'
<1>1. \A i \in Given : /\ venue[i] \in [rate : Rates, next : Times]
                      /\ Feed!Message("funding", i, venue[i]) \in Of("funding", i)
  BY FeedConstants DEF FeedTyped, Feed!Message, Feed!Messages, Feed!Funding, Of
<1>2. Feed!Snapshots \subseteq Feed!Messages
  BY <1>1 DEF Feed!Snapshots, Of
<1>3. wire' \in Seq(Feed!Messages)
  BY <1>2, FeedConstants, FS_CardinalityType
<1>4. ASSUME NEW i \in Given
      PROVE  TellsOf(i)'
  <2>1. \A k \in DOMAIN wire' : wire'[k] \in Of("funding", i) => wire'[k].val = venue[i] /\ wire'[k] \in Feed!Messages
    BY <1>2 DEF Feed!Snapshots, Feed!Message, Of
  <2>2. PICK n \in DOMAIN wire' : wire'[n] = Feed!Message("funding", i, venue[i])
    BY DEF Feed!Snapshots
  <2>3. wire'[n] \in Of("funding", i) /\ wire'[n].val = venue[i]
    BY <1>1, <2>2 DEF Feed!Message
  <2>4. venue[i].next # None /\ venue[i].rate # None
    BY <1>1, FeedConstants
  <2>5. Has(wire', Of("funding", i)) /\ Has(wire', TellNext(i)) /\ (venue[i].rate # 0 => Has(wire', TellRate(i)))
    BY <2>3, <2>4 DEF Has, TellNext, TellRate
  <2>6. /\ Final(wire', Of("funding", i), Say(venue[i]))
        /\ Final(wire', TellNext(i), SayNext(venue[i].next))
        /\ Final(wire', TellRate(i), SayRate(venue[i].rate))
    BY <2>1 DEF Final, TellNext, TellRate, Say, SayNext, SayRate
  <2>7. QED
    BY <2>5, <2>6 DEF TellsOf, Of, TellNext, TellRate, Say, SayNext, SayRate
<1>5. QED
  BY <1>3, <1>4

LEMMA ConnectStep ==
  ASSUME Feed!PublicFeedAssumption, FeedInv, Feed!Start \/ Feed!WatchFails
  PROVE  FeedInv'
<1>1. /\ feed' = "on" /\ (mapping' = Given \/ mapping' = mapping)
      /\ fundings' = fundings \/ fundings' = [i \in Instruments |-> Feed!Nothing]
      /\ errors' \in 0..MaxErrors
      /\ wire' \in [1..Cardinality(Given) -> Feed!Snapshots]
      /\ \A m \in Feed!Snapshots : \E k \in DOMAIN wire' : wire'[k] = m
      /\ UNCHANGED <<pro, venue, storing, hash, last, cut, made, kills, reader, queue, view, since, missed, readers>>
  <2>1. /\ feed' = "on" /\ (mapping' = Given \/ mapping' = mapping)
        /\ fundings' = fundings \/ fundings' = [i \in Instruments |-> Feed!Nothing]
        /\ UNCHANGED <<pro, venue, storing, hash, last, cut, made, kills, reader, queue, view, since, missed, readers>>
    BY DEF Feed!Start, Feed!WatchFails, Feed!reading, Feed!BuiltMapping, Feed!Idle
  <2>2. errors \in 0..MaxErrors /\ (errors' = errors \/ (errors < MaxErrors /\ errors' = errors + 1))
    BY DEF FeedInv, FeedTyped, Feed!Start, Feed!WatchFails
  <2>3. errors' \in 0..MaxErrors
    BY <2>2, FeedConstants
  <2>4. PICK list \in [1..Cardinality(Given) -> Feed!Snapshots] :
           wire' = list /\ \A m \in Feed!Snapshots : \E k \in DOMAIN list : list[k] = m
    <3>1. CASE Feed!Start
      BY <3>1, SizeOfGiven DEF Feed!Start
    <3>2. CASE Feed!WatchFails
      BY <3>2, SizeOfGiven DEF Feed!WatchFails
    <3>3. QED
      BY <3>1, <3>2
  <2>5. QED
    BY <2>1, <2>3, <2>4
<1>2. wire' \in Seq(Feed!Messages) /\ \A i \in Given : TellsOf(i)'
  BY <1>1, TellsAll DEF FeedInv
<1>3. FeedTyped'
  <2>1. fundings' \in [Instruments -> Feed!Funding] /\ mapping' \subseteq Listed
    BY <1>1, FeedConstants DEF FeedInv, FeedTyped, Feed!Nothing, Feed!Funding
  <2>2. QED
    BY <1>1, <1>2, <2>1 DEF FeedInv, FeedTyped, Of, Known
<1>4. StoresLast'
  BY <1>1 DEF FeedInv, StoresLast, Storing
<1>5. PublishesComplete'
  BY <1>1 DEF FeedInv, PublishesComplete, Complete, Feed!Nothing
<1>6. HearsLast'
  BY <1>1, HearsKept DEF Storing
<1>7. QED
  BY <1>2, <1>3, <1>4, <1>5, <1>6 DEF FeedInv, TellsLast

LEMMA UnpublishedStep ==
  ASSUME Feed!PublicFeedAssumption, FeedInv, Feed!StoreFunding \/ Feed!UnknownCode \/ Feed!Kill
  PROVE  FeedInv'
<1>1. /\ UNCHANGED <<pro, venue, mapping, fundings, last, made, errors, reader, queue, view, since, missed, readers>>
      /\ feed = "on"
  BY DEF Feed!StoreFunding, Feed!UnknownCode, Feed!Kill, Feed!Idle, Feed!reading
<1>2. CASE Feed!StoreFunding
  <2>1. /\ storing # None /\ storing.instr \in Instruments /\ storing \in Of("funding", storing.instr)
        /\ hash' = [hash EXCEPT ![storing.instr] = storing.val] /\ storing' = None /\ cut' = cut \ {storing.instr}
        /\ UNCHANGED <<wire, feed, kills>>
    BY <1>2 DEF Feed!StoreFunding, FeedInv, FeedTyped
  <2>2. storing.val \in Feed!Funding
    BY <2>1 DEF Of, Feed!Messages, Feed!Kinds
  <2>3. FeedTyped'
    BY <1>1, <2>1, <2>2 DEF FeedInv, FeedTyped, Known
  <2>4. StoresLast'
    BY <1>1, <2>1 DEF FeedInv, FeedTyped, StoresLast, Storing
  <2>5. HearsLast'
    BY <1>1, <2>1, HearsKept DEF Storing
  <2>6. TellsLast' /\ PublishesComplete'
    BY <1>1, <2>1 DEF FeedInv, TellsLast, TellsOf, PublishesComplete, Complete, Of, TellNext, TellRate, Say, SayNext,
       SayRate, Paid
  <2>7. QED
    BY <2>3, <2>4, <2>5, <2>6 DEF FeedInv
<1>3. CASE Feed!UnknownCode
  <2>1. /\ wire # <<>> /\ wire[1].instr \notin Given /\ wire \in Seq(Feed!Messages)
        /\ feed' \in {"on", "off"} /\ wire' \in {<<>>, Tail(wire)} /\ (feed' = "on" => wire' = Tail(wire))
        /\ storing = None
        /\ UNCHANGED <<storing, hash, cut, kills>>
    BY <1>3, FeedConstants DEF Feed!UnknownCode, Feed!Found, Feed!Idle, FeedInv, FeedTyped
  <2>2. wire' \in Seq(Feed!Messages)
    BY <2>1, EmptySeq, HeadTailProperties
  <2>3. FeedTyped'
    BY <1>1, <2>1, <2>2 DEF FeedInv, FeedTyped, Known
  <2>4. StoresLast' /\ PublishesComplete'
    BY <1>1, <2>1 DEF FeedInv, StoresLast, Storing, PublishesComplete, Complete
  <2>5. HearsLast'
    BY <1>1, <2>1, HearsKept DEF Storing
  <2>6. TellsLast'
    BY <1>1, <2>1, TellsTaken DEF TellsLast, Of
  <2>7. QED
    BY <2>3, <2>4, <2>5, <2>6 DEF FeedInv
<1>4. CASE Feed!Kill
  <2>1. /\ kills' \in 0..MaxKills /\ feed' = "off" /\ wire' = <<>> /\ storing' = None
        /\ cut' = IF storing = None THEN cut ELSE cut \cup {storing.instr}
        /\ hash' = hash
    BY <1>4, FeedConstants DEF Feed!Kill, FeedInv, FeedTyped
  <2>2. FeedTyped'
    BY <1>1, <2>1, EmptySeq DEF FeedInv, FeedTyped, Known
  <2>3. StoresLast'
    BY <1>1, <2>1 DEF FeedInv, StoresLast, Storing
  <2>4. HearsLast'
    BY <1>1, <2>1, HearsKept DEF Storing
  <2>5. TellsLast' /\ PublishesComplete'
    BY <1>1, <2>1 DEF FeedInv, TellsLast, PublishesComplete, Complete
  <2>6. QED
    BY <2>2, <2>3, <2>4, <2>5 DEF FeedInv
<1>5. QED
  BY <1>2, <1>3, <1>4

LEMMA DataStep ==
  ASSUME Feed!PublicFeedAssumption, FeedInv, Feed!OnMarketData
  PROVE  FeedInv'
<1> DEFINE m == wire[1]
           k == m.kind
           i == m.instr
           v == m.val
<1>1. /\ wire # <<>> /\ wire \in Seq(Feed!Messages) /\ feed = "on" /\ storing = None /\ k # "funding"
      /\ wire' = Tail(wire) /\ mapping' = mapping \cup {i} /\ Feed!Publish(k, i, v) /\ mapping \subseteq Listed
      /\ i \in Listed
      /\ UNCHANGED <<pro, venue, feed, fundings, storing, hash, cut, made, errors, kills>>
  BY FeedConstants DEF Feed!OnMarketData, Feed!Idle, Feed!Found, FeedInv, FeedTyped
<1>2. m \in Feed!Messages /\ wire' \in Seq(Feed!Messages)
  BY <1>1, HeadTailProperties
<1>3. k \in Feed!Kinds /\ Feed!Message(k, i, v) \in Feed!Messages
  BY <1>1, <1>2 DEF Feed!Messages, Feed!Message, Feed!Kinds
<1> HIDE DEF m, k, i, v
<1>4. /\ queue' \in Seq(Known)
      /\ \A f \in {last', view', since'} :
           /\ DOMAIN f = Feed!Kinds
           /\ f["funding"] \in [Instruments -> Feed!Funding \cup {None}]
           /\ f["book"] \in [Instruments -> Nat \cup {None}] /\ f["trade"] \in [Instruments -> Nat \cup {None}]
      /\ \A l \in Feed!Kinds, j \in Instruments : <<l, j>> # <<k, i>> => last'[l][j] = last[l][j]
      /\ UNCHANGED <<reader, view, missed, readers>>
  BY <1>1, <1>3, PublishedTyped
<1>5. \A j \in Instruments : last'["funding"][j] = last["funding"][j]
  BY <1>1, <1>4 DEF Feed!Kinds
<1>6. FeedTyped'
  BY <1>1, <1>2, <1>4 DEF FeedInv, FeedTyped, Known
<1>7. StoresLast'
  BY <1>1, <1>5 DEF FeedInv, StoresLast, Storing
<1>8. HearsLast'
  BY <1>1, <1>3, PublishedHeard
<1>9. TellsLast'
  <2>1. \A j \in Given : wire[1] \notin Of("funding", j)
    BY <1>1 DEF Of, k, m
  <2>2. QED
    BY <1>1, <1>5, <2>1, FeedConstants, TellsTaken DEF TellsLast
<1>10. PublishesComplete'
  BY <1>1, <1>5 DEF FeedInv, PublishesComplete, Complete
<1>11. QED
  BY <1>6, <1>7, <1>8, <1>9, <1>10 DEF FeedInv

\* What a funding that is published leaves, whatever it is completed with
LEMMA FundingPublished ==
  ASSUME Feed!PublicFeedAssumption, FeedInv, NEW i \in Listed, NEW f \in Feed!Funding, storing = None,
         Feed!SetFundingRate(i, f), UNCHANGED <<hash, cut>>
  PROVE  /\ queue' \in Seq(Known)
         /\ \A g \in {last', view', since'} :
              /\ DOMAIN g = Feed!Kinds
              /\ g["funding"] \in [Instruments -> Feed!Funding \cup {None}]
              /\ g["book"] \in [Instruments -> Nat \cup {None}] /\ g["trade"] \in [Instruments -> Nat \cup {None}]
         /\ last'["funding"][i] = f
         /\ \A j \in Instruments \ {i} : last'["funding"][j] = last["funding"][j]
         /\ storing' \in Of("funding", i)
         /\ StoresLast' /\ HearsLast'
         /\ UNCHANGED <<reader, view, missed, readers>>
<1>1. /\ Feed!Publish("funding", i, f) /\ storing' = Feed!Message("funding", i, f) /\ i \in Instruments
      /\ "funding" \in Feed!Kinds
  BY FeedConstants DEF Feed!SetFundingRate, Feed!Kinds
<1>2. /\ Feed!Message("funding", i, f) \in Feed!Messages /\ Feed!Message("funding", i, f).kind = "funding"
      /\ Feed!Message("funding", i, f).instr = i /\ Feed!Message("funding", i, f).val = f
  BY <1>1 DEF Feed!Message, Feed!Messages
<1>3. /\ queue' \in Seq(Known)
      /\ \A g \in {last', view', since'} :
           /\ DOMAIN g = Feed!Kinds
           /\ g["funding"] \in [Instruments -> Feed!Funding \cup {None}]
           /\ g["book"] \in [Instruments -> Nat \cup {None}] /\ g["trade"] \in [Instruments -> Nat \cup {None}]
      /\ last'["funding"][i] = f
      /\ \A l \in Feed!Kinds, j \in Instruments : <<l, j>> # <<"funding", i>> => last'[l][j] = last[l][j]
      /\ UNCHANGED <<reader, view, missed, readers>>
  BY <1>1, <1>2, PublishedTyped
<1>4. \A j \in Instruments \ {i} : last'["funding"][j] = last["funding"][j]
  BY <1>1, <1>3
<1>5. HearsLast'
  BY <1>1, <1>2, PublishedHeard
<1>6. StoresLast'
  <2>1. storing' # None /\ storing'.instr = i /\ storing'.val = f
    BY <1>1, <1>2, FeedConstants
  <2>2. QED
    BY <1>3, <1>4, <2>1 DEF FeedInv, StoresLast, Storing
<1>7. QED
  BY <1>1, <1>2, <1>3, <1>4, <1>5, <1>6 DEF Of

LEMMA FundingStep ==
  ASSUME Feed!PublicFeedAssumption, FeedInv, Feed!OnFunding
  PROVE  FeedInv'
<1> DEFINE m == wire[1]
           i == m.instr
           new == [m.val EXCEPT !.rate = Feed!Or(@, 0) * Multiplier[i]]
<1>1. /\ wire # <<>> /\ wire \in Seq(Feed!Messages) /\ feed = "on" /\ storing = None /\ m.kind = "funding" /\ ~pro
      /\ wire' = Tail(wire) /\ mapping' = mapping \cup {i} /\ Feed!SetFundingRate(i, new) /\ mapping \subseteq Listed
      /\ i \in Listed /\ i \in Instruments
      /\ UNCHANGED <<pro, venue, feed, fundings, hash, cut, made, errors, kills>>
  BY FeedConstants DEF Feed!OnFunding, Feed!Idle, Feed!Found, FeedInv, FeedTyped
<1>2. m \in Feed!Messages /\ wire' \in Seq(Feed!Messages)
  BY <1>1, HeadTailProperties
<1>3. m \in Of("funding", i) /\ m.val \in Feed!Funding
  BY <1>1, <1>2 DEF Of, Feed!Messages, Feed!Kinds
<1>4. new \in Feed!Funding
  <2>1. Feed!Or(m.val.rate, 0) \in Int /\ Multiplier[i] \in Nat
    BY <1>1, <1>3, FeedConstants DEF Feed!Or, Feed!Funding
  <2>2. QED
    BY <1>3, <2>1 DEF Feed!Funding
<1> HIDE DEF new
<1>5. /\ queue' \in Seq(Known)
      /\ \A g \in {last', view', since'} :
           /\ DOMAIN g = Feed!Kinds
           /\ g["funding"] \in [Instruments -> Feed!Funding \cup {None}]
           /\ g["book"] \in [Instruments -> Nat \cup {None}] /\ g["trade"] \in [Instruments -> Nat \cup {None}]
      /\ last'["funding"][i] = new
      /\ \A j \in Instruments \ {i} : last'["funding"][j] = last["funding"][j]
      /\ storing' \in Of("funding", i)
      /\ StoresLast' /\ HearsLast'
      /\ UNCHANGED <<reader, view, missed, readers>>
  BY <1>1, <1>4, FundingPublished
<1>6. FeedTyped'
  <2>1. storing' \in Of("funding", storing'.instr) /\ storing'.instr \in Instruments
    BY <1>1, <1>5 DEF Of
  <2>2. QED
    BY <1>1, <1>2, <1>5, <2>1 DEF FeedInv, FeedTyped, Known, Of
<1>7. PublishesComplete'
  BY <1>1 DEF PublishesComplete
<1>8. ASSUME NEW j \in Given
      PROVE  TellsOf(j)'
  <2>1. CASE j # i
    <3>1. wire[1] \notin Of("funding", j)
      BY <1>3, <2>1 DEF Of
    <3>2. QED
      BY <1>1, <1>5, <2>1, <3>1, FeedConstants, TellsTaken
  <2>2. CASE j = i
    <3>1. Final(wire, Of("funding", i), Say(venue[i]))
      BY <1>1, <2>2 DEF FeedInv, TellsLast, TellsOf
    <3>2. /\ Final(wire', Of("funding", i), Say(venue[i]))
          /\ ~Has(wire', Of("funding", i)) => m \in Say(venue[i])
      BY <1>1, <1>3, <3>1, LastLeft
    <3>3. m \in Say(venue[i]) => new = Paid(i)
      <4>1. venue[i] \in [rate : Rates, next : Times] /\ venue[i].rate \in Nat /\ venue[i].rate # None
        BY <1>1, FeedConstants DEF FeedInv, FeedTyped
      <4>2. QED
        BY <4>1 DEF new, Say, Paid, Feed!Or
    <3>4. QED
      BY <1>1, <1>5, <2>2, <3>2, <3>3 DEF TellsOf, Of, Say, Paid
  <2>3. QED
    BY <2>1, <2>2
<1>9. QED
  BY <1>5, <1>6, <1>7, <1>8 DEF FeedInv, TellsLast

LEMMA FundingProStep ==
  ASSUME Feed!PublicFeedAssumption, FeedInv, Feed!OnFundingPro
  PROVE  FeedInv'
<1> DEFINE m == wire[1]
           i == m.instr
           new == Feed!Completed(i, m.val)
           publishes == Complete(new) /\ new # fundings[i]
<1>1. /\ wire # <<>> /\ wire \in Seq(Feed!Messages) /\ feed = "on" /\ storing = None /\ m.kind = "funding"
      /\ wire' = Tail(wire) /\ mapping' = mapping \cup {i} /\ mapping \subseteq Listed
      /\ i \in Listed /\ i \in Instruments
      /\ fundings' = [fundings EXCEPT ![i] = new] /\ fundings \in [Instruments -> Feed!Funding]
      /\ UNCHANGED <<pro, venue, feed, hash, cut, made, errors, kills>>
  BY FeedConstants DEF Feed!OnFundingPro, Feed!Idle, Feed!Found, FeedInv, FeedTyped
<1>2. m \in Feed!Messages /\ wire' \in Seq(Feed!Messages)
  BY <1>1, HeadTailProperties
<1>3. m \in Of("funding", i) /\ m.val \in Feed!Funding
  BY <1>1, <1>2 DEF Of, Feed!Messages, Feed!Kinds
<1>4. /\ new \in Feed!Funding
      /\ m \in TellNext(i) => new.next = m.val.next
      /\ m \notin TellNext(i) => new.next = fundings[i].next
      /\ m \in TellRate(i) => new.rate = m.val.rate
      /\ m \notin TellRate(i) => new.rate = fundings[i].rate
  <2>1. fundings[i] \in Feed!Funding
    BY <1>1
  <2>2. new.next = Feed!Or(m.val.next, fundings[i].next) /\ new.rate = Feed!Or(m.val.rate, fundings[i].rate)
        /\ new = [rate |-> new.rate, next |-> new.next]
    BY DEF Feed!Completed
  <2>3. m.val.next \in Times \cup {None} /\ m.val.rate \in Int \cup {None} /\ 0 \notin Times
    BY <1>3, FeedConstants DEF Feed!Funding
  <2> HIDE DEF new
  <2>4. new.next \in Times \cup {None} /\ new.rate \in Int \cup {None}
    BY <2>1, <2>2, <2>3 DEF Feed!Or, Feed!Funding
  <2>5. QED
    BY <1>3, <2>2, <2>3, <2>4 DEF Feed!Or, Feed!Funding, TellNext, TellRate
<1>5. /\ pro
      /\ publishes => Feed!SetFundingRate(i, new)
      /\ ~publishes => UNCHANGED <<storing, last, reader, queue, view, since, missed, readers>>
  <2>1. pro
    BY DEF Feed!OnFundingPro
  <2>2. Feed!Or(new.rate, None) # None /\ new.next # None /\ new # fundings[i] <=> publishes
    BY DEF Feed!Or, Complete
  <2> HIDE DEF new
  <2>3. IF Feed!Or(new.rate, None) # None /\ new.next # None /\ new # fundings[i]
        THEN Feed!SetFundingRate(i, new)
        ELSE UNCHANGED <<storing, last, reader, queue, view, since, missed, readers>>
    BY DEF Feed!OnFundingPro, new, Feed!reading
  <2> HIDE DEF publishes
  <2>4. QED
    BY <2>1, <2>2, <2>3
<1> HIDE DEF new, publishes
<1>6. fundings'[i] = new /\ \A j \in Instruments \ {i} : fundings'[j] = fundings[j]
  BY <1>1
<1>7. /\ FeedTyped' /\ StoresLast' /\ HearsLast'
      /\ \A j \in Instruments \ {i} : last'["funding"][j] = last["funding"][j]
      /\ publishes => last'["funding"][i] = new
      /\ ~publishes => last'["funding"][i] = last["funding"][i]
  <2>1. CASE publishes
    <3>1. /\ queue' \in Seq(Known)
          /\ \A g \in {last', view', since'} :
               /\ DOMAIN g = Feed!Kinds
               /\ g["funding"] \in [Instruments -> Feed!Funding \cup {None}]
               /\ g["book"] \in [Instruments -> Nat \cup {None}] /\ g["trade"] \in [Instruments -> Nat \cup {None}]
          /\ last'["funding"][i] = new
          /\ \A j \in Instruments \ {i} : last'["funding"][j] = last["funding"][j]
          /\ storing' \in Of("funding", i)
          /\ StoresLast' /\ HearsLast'
          /\ UNCHANGED <<reader, view, missed, readers>>
      BY <1>1, <1>4, <1>5, <2>1, FundingPublished
    <3>2. storing' \in Of("funding", storing'.instr) /\ storing'.instr \in Instruments
      BY <1>1, <3>1 DEF Of
    <3>3. FeedTyped'
      BY <1>1, <1>2, <1>4, <3>1, <3>2 DEF FeedInv, FeedTyped, Known, Of
    <3>4. QED
      BY <2>1, <3>1, <3>3
  <2>2. CASE ~publishes
    <3>1. UNCHANGED <<storing, last, reader, queue, view, since, missed, readers>>
      BY <1>5, <2>2
    <3>2. FeedTyped'
      BY <1>1, <1>2, <1>4, <3>1 DEF FeedInv, FeedTyped, Known
    <3>3. StoresLast'
      BY <1>1, <3>1 DEF FeedInv, StoresLast, Storing
    <3>4. HearsLast'
      BY <1>1, <3>1, HearsKept DEF Storing
    <3>5. QED
      BY <2>2, <3>1, <3>2, <3>3, <3>4
  <2>3. QED
    BY <2>1, <2>2
<1>8. PublishesComplete'
  <2>1. ASSUME NEW j \in Instruments, Complete(fundings'[j])
        PROVE  last'["funding"][j] = fundings'[j]
    <3>1. pro /\ (Complete(fundings[j]) => last["funding"][j] = fundings[j])
      BY <1>5 DEF FeedInv, PublishesComplete
    <3>2. QED
      BY <1>6, <1>7, <2>1, <3>1 DEF publishes
  <2>2. QED
    BY <2>1 DEF PublishesComplete, Complete
<1>9. ASSUME NEW j \in Given
      PROVE  TellsOf(j)'
  <2>1. CASE j # i
    <3>1. wire[1] \notin Of("funding", j) /\ j \in Instruments
      BY <1>3, <2>1, FeedConstants DEF Of
    <3>2. last'["funding"][j] = last["funding"][j] /\ fundings'[j] = fundings[j]
      BY <1>6, <1>7, <2>1, <3>1
    <3>3. QED
      BY <1>1, <3>1, <3>2, TellsTaken
  <2>2. CASE j = i
    <3>1. TellsOf(i)
      BY <1>1, <2>2 DEF FeedInv, TellsLast
    <3>2. /\ Final(wire', TellNext(i), SayNext(venue[i].next))
          /\ ~Has(wire', TellNext(i)) => new.next = venue[i].next
      <4>1. /\ Final(wire, TellNext(i), SayNext(venue[i].next))
            /\ ~Has(wire, TellNext(i)) => fundings[i].next = venue[i].next
        BY <1>5, <3>1 DEF TellsOf
      <4>2. /\ Final(wire', TellNext(i), SayNext(venue[i].next))
            /\ Has(wire, TellNext(i)) <=> Has(wire', TellNext(i)) \/ m \in TellNext(i)
            /\ m \in TellNext(i) /\ ~Has(wire', TellNext(i)) => m \in SayNext(venue[i].next)
        BY <1>1, <4>1, LastLeft
      <4>3. QED
        BY <1>4, <4>1, <4>2 DEF SayNext
    <3>3. venue[i].rate # 0 =>
            /\ Final(wire', TellRate(i), SayRate(venue[i].rate))
            /\ ~Has(wire', TellRate(i)) => new.rate = venue[i].rate
      <4> HAVE venue[i].rate # 0
      <4>1. /\ Final(wire, TellRate(i), SayRate(venue[i].rate))
            /\ ~Has(wire, TellRate(i)) => fundings[i].rate = venue[i].rate
        BY <1>5, <3>1 DEF TellsOf
      <4>2. /\ Final(wire', TellRate(i), SayRate(venue[i].rate))
            /\ Has(wire, TellRate(i)) <=> Has(wire', TellRate(i)) \/ m \in TellRate(i)
            /\ m \in TellRate(i) /\ ~Has(wire', TellRate(i)) => m \in SayRate(venue[i].rate)
        BY <1>1, <4>1, LastLeft
      <4>3. QED
        BY <1>4, <4>1, <4>2 DEF SayRate
    <3>4. QED
      BY <1>1, <1>5, <1>6, <2>2, <3>2, <3>3 DEF TellsOf, Of, TellNext, TellRate, SayNext, SayRate
  <2>3. QED
    BY <2>1, <2>2
<1>10. QED
  BY <1>7, <1>8, <1>9 DEF FeedInv, TellsLast

LEMMA ReaderStep ==
  ASSUME Feed!PublicFeedAssumption, FeedInv,
         Feed!Build \/ Feed!Subscribe \/ Feed!Run \/ Feed!OnEvent \/ Feed!Leave
  PROVE  FeedInv'
<1>1. UNCHANGED <<pro, venue, wire, feed, mapping, fundings, storing, hash, last, cut, made, errors, kills>>
  BY DEF Feed!Build, Feed!Subscribe, Feed!Run, Feed!OnEvent, Feed!Leave, Feed!feeding
<1>2. StoresLast' /\ TellsLast' /\ PublishesComplete'
  BY <1>1 DEF FeedInv, StoresLast, Storing, TellsLast, TellsOf, PublishesComplete, Complete, Of, TellNext, TellRate,
     Say, SayNext, SayRate, Paid
<1>3. \A f \in {Feed!Loaded, Feed!Blank} :
        /\ DOMAIN f = Feed!Kinds
        /\ f["funding"] \in [Instruments -> Feed!Funding \cup {None}]
        /\ f["book"] \in [Instruments -> Nat \cup {None}] /\ f["trade"] \in [Instruments -> Nat \cup {None}]
  <2>1. \A k \in Feed!Kinds : Feed!Blank[k] = [i \in Instruments |-> None]
    BY DEF Feed!Blank
  <2>2. DOMAIN Feed!Blank = Feed!Kinds /\ DOMAIN Feed!Loaded = Feed!Kinds
    BY DEF Feed!Blank, Feed!Loaded
  <2>3. /\ Feed!Loaded["funding"] = hash /\ Feed!Loaded["book"] = Feed!Blank["book"]
        /\ Feed!Loaded["trade"] = Feed!Blank["trade"]
    BY <2>2 DEF Feed!Loaded, Feed!Kinds
  <2>4. hash \in [Instruments -> Feed!Funding \cup {None}]
    BY DEF FeedInv, FeedTyped
  <2>5. QED
    BY <2>1, <2>2, <2>3, <2>4 DEF Feed!Kinds
<1>4. CASE Feed!Build
  <2>1. readers' \in 0..MaxReaders
    BY <1>4, FeedConstants DEF Feed!Build, FeedInv, FeedTyped
  <2>2. FeedTyped'
    BY <1>1, <1>3, <1>4, <2>1 DEF Feed!Build, FeedInv, FeedTyped, Known, Of
  <2>3. HearsLast'
    BY <1>4 DEF Feed!Build, HearsLast, HearsOf, Hearing
  <2>4. QED
    BY <1>2, <2>2, <2>3 DEF FeedInv
<1>5. CASE Feed!Subscribe
  <2>1. FeedTyped'
    BY <1>1, <1>3, <1>5, EmptySeq DEF Feed!Subscribe, FeedInv, FeedTyped, Known, Of
  <2>2. HearsLast'
    BY <1>5 DEF Feed!Subscribe, HearsLast, HearsOf, Has, Final, Feed!Blank
  <2>3. QED
    BY <1>2, <2>1, <2>2 DEF FeedInv
<1>6. CASE Feed!Run
  <2>1. /\ reader = "subscribed" /\ reader' = "running" /\ view' = Feed!Loaded
        /\ missed' = {i \in Instruments : Storing(i) /\ since["funding"][i] = None}
        /\ UNCHANGED <<queue, since, readers>>
    BY <1>6 DEF Feed!Run, Storing
  <2>2. FeedTyped'
    BY <1>1, <1>3, <2>1 DEF FeedInv, FeedTyped, Known, Of
  <2>3. ASSUME NEW k \in Feed!Kinds, NEW i \in Instruments, ~Has(queue, Of(k, i))
        PROVE  /\ k # "funding" => view'[k][i] = since[k][i]
               /\ k = "funding" => i \in missed' \/ (i \in cut /\ ~Storing(i)) \/ view'[k][i] = last[k][i]
    <3>1. since[k][i] = None
      BY <2>1, <2>3 DEF FeedInv, HearsLast, HearsOf, Hearing
    <3>2. k # "funding" => view'[k][i] = None
      BY <2>1 DEF Feed!Loaded, Feed!Blank, Feed!Kinds
    <3>3. view'["funding"][i] = hash[i]
      BY <2>1 DEF Feed!Loaded, Feed!Blank, Feed!Kinds
    <3>4. QED
      BY <2>1, <3>1, <3>2, <3>3 DEF FeedInv, StoresLast
  <2>4. \A k \in Feed!Kinds, i \in Instruments :
          /\ Final(queue, Of(k, i), Say(since[k][i]))
          /\ Has(queue, Of(k, i)) => since[k][i] = last[k][i]
    BY <2>1 DEF FeedInv, HearsLast, HearsOf, Hearing
  <2>5. HearsLast'
    <3>1. reader' = "running" /\ UNCHANGED <<since, last, cut, storing>> /\ \A i \in Instruments : Storing(i)' <=> Storing(i)
      BY <1>1, <2>1 DEF Storing
    <3>2. ASSUME NEW k \in Feed!Kinds, NEW i \in Instruments
          PROVE  HearsOf(k, i)'
      <4>1. /\ Final(queue', Of(k, i), Say(since'[k][i]))
            /\ Has(queue', Of(k, i)) => since'[k][i] = last'[k][i]
            /\ reader' = "subscribed" /\ since'[k][i] # None => Has(queue', Of(k, i))
            /\ reader' = "running" /\ ~Has(queue', Of(k, i)) /\ k # "funding" => view'[k][i] = since'[k][i]
            /\ reader' = "running" /\ ~Has(queue', Of(k, i)) /\ k = "funding" =>
                 i \in missed' \/ (i \in cut' /\ ~Storing(i)') \/ view'[k][i] = last'[k][i]
        <5>1. /\ Final(queue, Of(k, i), Say(since[k][i]))
              /\ Has(queue, Of(k, i)) => since[k][i] = last[k][i]
          BY <2>4
        <5>2. ~Has(queue, Of(k, i)) =>
                /\ k # "funding" => view'[k][i] = since[k][i]
                /\ k = "funding" => i \in missed' \/ (i \in cut /\ ~Storing(i)) \/ view'[k][i] = last[k][i]
          BY <2>3
        <5>3. UNCHANGED <<queue, since, last, cut>> /\ reader' = "running" /\ (Storing(i)' <=> Storing(i))
          BY <2>1, <3>1
        <5>4. QED
          BY <5>1, <5>2, <5>3
      <4>2. QED
        BY <4>1 DEF HearsOf, Of, Say
    <3>3. QED
      BY <3>2 DEF HearsLast
  <2>6. QED
    BY <1>2, <2>2, <2>5 DEF FeedInv
<1>7. CASE Feed!OnEvent
  <2> DEFINE m == Head(queue)
  <2>1. /\ reader = "running" /\ queue # <<>> /\ queue' = Tail(queue) /\ view' = [view EXCEPT ![m.kind][m.instr] = m.val]
        /\ missed' = (IF m.kind = "funding" THEN missed \ {m.instr} ELSE missed)
        /\ queue \in Seq(Known)
        /\ UNCHANGED <<reader, since, readers>>
    BY <1>7 DEF Feed!OnEvent, FeedInv, FeedTyped
  <2>2. m \in Known /\ queue' \in Seq(Known) /\ m = queue[1]
    BY <2>1, HeadTailProperties
  <2>3. /\ m \in Feed!Messages /\ m.kind \in Feed!Kinds /\ m.instr \in Instruments
        /\ m.kind = "funding" => m.val \in Feed!Funding
        /\ m.kind # "funding" => m.val \in Nat
    BY <2>2 DEF Known, Feed!Messages, Feed!Kinds
  <2> HIDE DEF m
  <2>4. /\ DOMAIN view = Feed!Kinds
        /\ view["funding"] \in [Instruments -> Feed!Funding \cup {None}]
        /\ view["book"] \in [Instruments -> Nat \cup {None}] /\ view["trade"] \in [Instruments -> Nat \cup {None}]
    BY DEF FeedInv, FeedTyped
  <2>5. /\ DOMAIN view' = Feed!Kinds
        /\ view'[m.kind] = [view[m.kind] EXCEPT ![m.instr] = m.val]
        /\ \A k \in Feed!Kinds \ {m.kind} : view'[k] = view[k]
    BY <2>1, <2>3, <2>4
  <2>6. m.kind \in {"funding", "book", "trade"} /\ DOMAIN view[m.kind] = Instruments
    BY <2>3, <2>4 DEF Feed!Kinds
  <2>7. /\ view'["funding"] \in [Instruments -> Feed!Funding \cup {None}]
        /\ view'["book"] \in [Instruments -> Nat \cup {None}] /\ view'["trade"] \in [Instruments -> Nat \cup {None}]
    BY <2>3, <2>4, <2>5, <2>6 DEF Feed!Kinds
  <2>8. FeedTyped'
    BY <1>1, <2>1, <2>2, <2>5, <2>7 DEF FeedInv, FeedTyped, Known, Of
  <2>9. ASSUME NEW k \in Feed!Kinds, NEW i \in Instruments
        PROVE  /\ Final(queue', Of(k, i), Say(since[k][i]))
               /\ Has(queue', Of(k, i)) => since[k][i] = last[k][i]
               /\ ~Has(queue', Of(k, i)) /\ k # "funding" => view'[k][i] = since[k][i]
               /\ ~Has(queue', Of(k, i)) /\ k = "funding" =>
                    i \in missed' \/ (i \in cut /\ ~Storing(i)) \/ view'[k][i] = last[k][i]
    <3>1. /\ Final(queue, Of(k, i), Say(since[k][i]))
          /\ Has(queue, Of(k, i)) => since[k][i] = last[k][i]
          /\ ~Has(queue, Of(k, i)) /\ k # "funding" => view[k][i] = since[k][i]
          /\ ~Has(queue, Of(k, i)) /\ k = "funding" =>
                i \in missed \/ (i \in cut /\ ~Storing(i)) \/ view[k][i] = last[k][i]
      BY <2>1 DEF FeedInv, HearsLast, HearsOf, Hearing
    <3>2. /\ Final(queue', Of(k, i), Say(since[k][i]))
          /\ Has(queue, Of(k, i)) <=> Has(queue', Of(k, i)) \/ m \in Of(k, i)
          /\ m \in Of(k, i) /\ ~Has(queue', Of(k, i)) => m \in Say(since[k][i])
      BY <2>1, <2>2, <3>1, LastLeft
    <3>3. m \in Of(k, i) => view'[k][i] = m.val
      BY <2>5, <2>6 DEF Of
    <3>4. m \notin Of(k, i) => view'[k][i] = view[k][i] /\ (k = "funding" /\ i \in missed => i \in missed')
      BY <2>1, <2>3, <2>5, <2>6 DEF Of
    <3>5. QED
      BY <3>1, <3>2, <3>3, <3>4 DEF Say
  <2>10. HearsLast'
    <3>1. reader' = "running" /\ UNCHANGED <<since, last, cut, storing>> /\ \A i \in Instruments : Storing(i)' <=> Storing(i)
      BY <1>1, <2>1 DEF Storing
    <3>2. ASSUME NEW k \in Feed!Kinds, NEW i \in Instruments
          PROVE  HearsOf(k, i)'
      <4>1. /\ Final(queue', Of(k, i), Say(since'[k][i]))
            /\ Has(queue', Of(k, i)) => since'[k][i] = last'[k][i]
            /\ reader' = "subscribed" /\ since'[k][i] # None => Has(queue', Of(k, i))
            /\ reader' = "running" /\ ~Has(queue', Of(k, i)) /\ k # "funding" => view'[k][i] = since'[k][i]
            /\ reader' = "running" /\ ~Has(queue', Of(k, i)) /\ k = "funding" =>
                 i \in missed' \/ (i \in cut' /\ ~Storing(i)') \/ view'[k][i] = last'[k][i]
        BY <2>1, <2>9, <3>1
      <4>2. QED
        BY <4>1 DEF HearsOf, Of, Say
    <3>3. QED
      BY <3>2 DEF HearsLast
  <2>11. QED
    BY <1>2, <2>8, <2>10 DEF FeedInv
<1>8. CASE Feed!Leave
  <2>1. FeedTyped'
    BY <1>1, <1>3, <1>8, EmptySeq DEF Feed!Leave, FeedInv, FeedTyped, Known, Of
  <2>2. HearsLast'
    BY <1>8 DEF Feed!Leave, HearsLast, HearsOf, Hearing
  <2>3. QED
    BY <1>2, <2>1, <2>2 DEF FeedInv
<1>9. QED
  BY <1>4, <1>5, <1>6, <1>7, <1>8

LEMMA FeedStep ==
  ASSUME Feed!PublicFeedAssumption, FeedInv, [Feed!Next]_(Feed!vars)
  PROVE  FeedInv'
<1>1. CASE UNCHANGED Feed!vars
  <2>1. UNCHANGED <<pro, venue, wire, feed, mapping, fundings, storing, hash, reader, queue, view, last, since, missed,
                    cut, made, errors, kills, readers>>
    BY <1>1 DEF Feed!vars, Feed!feeding, Feed!reading
  <2>2. FeedTyped'
    BY <2>1 DEF FeedInv, FeedTyped, Known, Of
  <2>3. HearsLast'
    BY <2>1, HearsKept DEF Storing
  <2>4. QED
    BY <2>1, <2>2, <2>3 DEF FeedInv, StoresLast, Storing, TellsLast, TellsOf, PublishesComplete, Complete, Of, TellNext,
       TellRate, Say, SayNext, SayRate, Paid
<1>2. QED
  BY <1>1, ChangeStep, TradeStep, ConnectStep, DataStep, FundingProStep, FundingStep, UnpublishedStep, ReaderStep
     DEF Feed!Next

LEMMA FeedSafe ==
  ASSUME Feed!PublicFeedAssumption, FeedInv
  PROVE  Feed!ReaderFollows
<1> SUFFICES ASSUME Feed!Quiet, NEW i \in Instruments
             PROVE  /\ i \notin cut => hash[i] = last["funding"][i]
                    /\ reader = "running" =>
                         /\ \A k \in Feed!Kinds \ {"funding"} : view[k][i] = since[k][i]
                         /\ i \notin missed \cup cut => view["funding"][i] = hash[i]
                    /\ feed = "on" /\ i \in Given /\ i \notin cut =>
                         /\ pro /\ venue[i].rate # 0 => hash[i] = venue[i]
                         /\ ~pro => hash[i] = Paid(i)
  BY DEF Feed!ReaderFollows, Paid
<1>1. /\ storing = None /\ queue = <<>> /\ (feed = "on" => wire = <<>>)
      /\ \A S : ~Has(<<>>, S)
  BY DEF Feed!Quiet, Has
<1>2. i \notin cut => hash[i] = last["funding"][i]
  BY <1>1 DEF FeedInv, StoresLast, Storing
<1>3. ASSUME reader = "running"
      PROVE  /\ \A k \in Feed!Kinds \ {"funding"} : view[k][i] = since[k][i]
             /\ i \notin missed \cup cut => view["funding"][i] = hash[i]
  <2>1. \A k \in Feed!Kinds :
          /\ k # "funding" => view[k][i] = since[k][i]
          /\ k = "funding" => i \in missed \/ i \in cut \/ view[k][i] = last[k][i]
    BY <1>1, <1>3 DEF FeedInv, HearsLast, HearsOf, Hearing
  <2>2. QED
    BY <1>2, <2>1 DEF Feed!Kinds
<1>4. ASSUME feed = "on", i \in Given, i \notin cut
      PROVE  /\ pro /\ venue[i].rate # 0 => hash[i] = venue[i]
             /\ ~pro => hash[i] = Paid(i)
  <2>1. TellsOf(i) /\ wire = <<>>
    BY <1>1, <1>4 DEF FeedInv, TellsLast
  <2>2. ~pro => last["funding"][i] = Paid(i)
    BY <1>1, <2>1 DEF TellsOf
  <2>3. pro /\ venue[i].rate # 0 => last["funding"][i] = venue[i]
    <3> HAVE pro /\ venue[i].rate # 0
    <3>1. fundings[i].next = venue[i].next /\ fundings[i].rate = venue[i].rate
      BY <1>1, <2>1 DEF TellsOf
    <3>2. fundings[i] \in Feed!Funding /\ venue[i] \in [rate : Rates, next : Times]
      BY DEF FeedInv, FeedTyped
    <3>3. fundings[i] = venue[i]
      BY <3>1, <3>2 DEF Feed!Funding
    <3>4. Complete(fundings[i])
      BY <3>1, <3>2, FeedConstants DEF Complete
    <3>5. QED
      BY <3>3, <3>4 DEF FeedInv, PublishesComplete
  <2>4. QED
    BY <1>2, <1>4, <2>2, <2>3
<1>5. QED
  BY <1>2, <1>3, <1>4

LEMMA FeedsKeepRoutes ==
  ASSUME FeedsAssumption, RouteInv, [FeedsNext]_feeds
  PROVE  RouteInv'
<1>1. Route!RoutingAssumption
  BY DEF FeedsAssumption
<1>2. Route!Next \/ UNCHANGED routes
  BY DEF FeedsNext, feeds
<1>3. [Route!Next]_(Route!vars)
  BY <1>2 DEF routes, Route!vars
<1>4. QED
  BY <1>1, <1>3, RouteStep

LEMMA FeedsKeepFeed ==
  ASSUME FeedsAssumption, FeedInv, [FeedsNext]_feeds
  PROVE  FeedInv'
<1>1. Feed!PublicFeedAssumption
  BY DEF FeedsAssumption
<1>2. Feed!Next \/ UNCHANGED feeding
  BY DEF FeedsNext, feeds
<1>3. [Feed!Next]_(Feed!vars)
  BY <1>2 DEF feeding, Feed!vars, Feed!feeding, Feed!reading
<1>4. QED
  BY <1>1, <1>3, FeedStep

\* What is published is heard by the processes it is meant for, whatever was started, stopped
\* and added to (redis_events.py); and a reader that has nothing more to hear has the latest
\* of a feed, as redis and the exchange do, whatever connections, feeds and readers came and
\* went, but for a funding a feed was killed at (feed_handler.py, redis_manager.py).
THEOREM AlwaysDelivered == ASSUME FeedsAssumption PROVE FeedsSpec => []Delivered
<1> DEFINE Inv == RouteInv /\ FeedInv
<1>1. FeedsInit => Inv
  BY RouteInit, FeedInits DEF FeedsInit, FeedsAssumption
<1>2. Inv /\ [FeedsNext]_feeds => Inv'
  BY FeedsKeepRoutes, FeedsKeepFeed
<1>3. Inv => Delivered
  BY FeedSafe DEF FeedsAssumption, RouteInv, Delivered
<1>4. QED
  BY <1>1, <1>2, <1>3, PTL DEF FeedsSpec

-----------------------------------------------------------------------------
(* The reports of an order, and what is made of them                          *)

\* What is said of an order of x that is in state st with f filled, of which g were already
Wording(x, st, f, g) ==
  CASE x \in {"futures", "spot"} -> IF f > g THEN "trade" ELSE IF st = "open" THEN "new" ELSE st
    [] x = "ftx" -> IF st = "open" THEN "open" ELSE "closed"
    [] x = "huobi" -> IF st # "open" THEN st ELSE IF f > 0 THEN "partial-filled" ELSE "submitted"
    [] x = "pro" -> IF st = "filled" THEN "closed" ELSE st
Reported(x, st, f, g) ==
  [status |-> Wording(x, st, f, g),
   amount |-> IF x \in {"ftx", "huobi"} THEN f ELSE Size,
   remaining |-> IF x = "ftx" /\ st # "open" THEN 0 ELSE Size - f,
   filled |-> f, last |-> f - g]
IsReport(x, r, st) ==
  /\ r = Reported(x, st, r.filled, r.filled - r.last) /\ r.filled \in 0..Size /\ r.last \in 0..r.filled
  /\ st \in {"open", "filled", "canceled", "expired", "rejected"}
  /\ st = "open" => r.filled < Size
  /\ st = "filled" => r.filled = Size /\ r.last > 0
  /\ st \in {"canceled", "expired", "rejected"} => r.last = 0
  /\ st = "expired" => x # "ftx"

\* What was filled by the reports that were handled
FilledSoFar == IF reporting = <<>> THEN filled ELSE reporting[1].filled - reporting[1].last

ReportsTyped ==
  /\ exchange \in Venues /\ side \in {"buy", "sell"} /\ filled \in 0..Size /\ stamp \in Nat \ {0}
  /\ loads \in 0..MaxLoads /\ loaded \in BOOLEAN
  /\ fetched \in Report!Report \cup {Absent} /\ (fetched # Absent => fetched.status = "open")
  /\ reporting \in Seq(Report!Report) /\ executions \in Seq(1..Size)
  /\ record = Absent \/ (record \in Report!Records /\ record.st \in {"open", "partial", "expired"})

\* Each report starts where the one before it ended, and the last says what the order is now.
ReportsChain ==
  /\ state = "none" => reporting = <<>> /\ filled = 0
  /\ state \in {"none", "open", "filled", "canceled", "expired", "rejected"}
  /\ state = "open" => filled < Size
  /\ \A k \in 1..Len(reporting) :
       /\ IsReport(exchange, reporting[k], IF k = Len(reporting) THEN state ELSE "open")
       /\ k < Len(reporting) => reporting[k + 1].filled - reporting[k + 1].last = reporting[k].filled
       /\ k = Len(reporting) => reporting[k].filled = filled

\* The trades and the fills that will be add up to what was filled.
TradesAddUp ==
  /\ exchange \in {"futures", "spot"} => executions = <<>>
  /\ exchange = "spot" => traded = 0
  /\ exchange = "futures" => traded = Report!Signed(FilledSoFar)
  /\ exchange \in {"ftx", "huobi", "pro"} =>
       \E sums \in [0..Len(executions) -> 0..Size] :
         /\ traded = Report!Signed(sums[0]) /\ sums[Len(executions)] = filled
         /\ \A k \in 1..Len(executions) : sums[k] = sums[k - 1] + executions[k]

\* The cache has the order from its first report to its last, as the reports had it.
RecordFollows ==
  /\ state = "none" => record = Absent /\ fetched = Absent
  /\ state = "open" => record # Absent \/ reporting # <<>>
  /\ record = Absent /\ reporting # <<>> => reporting[1].filled = 0
  /\ reporting = <<>> /\ ~loaded =>
       /\ state \in {"canceled", "rejected"} => record = Absent
       /\ state = "filled" => record = Absent \/ exchange = "spot"
       /\ state = "expired" => record # Absent /\ record.st = "expired"
  /\ record # Absent /\ ~loaded /\ (reporting # <<>> \/ state = "open") =>
       /\ exchange \in {"futures", "huobi"} =>
            /\ record.qty = Report!Signed(Size)
            /\ record.st = IF FilledSoFar > 0 THEN "partial" ELSE "open"
            /\ side = "buy" => record.filled = FilledSoFar
            /\ side = "sell" => record.filled \in -FilledSoFar..IF FilledSoFar > 0 THEN -1 ELSE 0
       /\ exchange \in {"ftx", "pro"} =>
            /\ record.qty = Report!Signed(Size) /\ record.st = "open" /\ record.filled = 0
            /\ record.time < stamp /\ (exchange = "pro" => record.time = 1)

ReportsInv == ReportsTyped /\ ReportsChain /\ TradesAddUp /\ RecordFollows


\* (The provers do not see at once that minus zero is zero.)
LEMMA SignedZero == Report!Signed(0) = 0
<1>1. -0 \in Int
  OBVIOUS
<1>2. -0 + 1 = 1
  OBVIOUS
<1>3. \A n \in Int : n + 1 = 1 => n = 0
  OBVIOUS
<1>4. -0 = 0
  BY <1>1, <1>2, <1>3, Zenon
<1>5. QED
  BY <1>4, Zenon DEF Report!Signed

LEMMA ReportsInit ==
  ASSUME Report!OrderReportsAssumption, Report!Init PROVE ReportsInv
<1>1. ReportsTyped
  <2>1. loaded \in BOOLEAN
    BY DEF Report!Init
  <2>2. reporting \in Seq(Report!Report) /\ executions \in Seq(1..Size)
    BY EmptySeq DEF Report!Init
  <2>3. QED
    BY <2>1, <2>2 DEF Report!OrderReportsAssumption, Report!Init, ReportsTyped
<1>2. ReportsChain /\ RecordFollows
  BY DEF Report!OrderReportsAssumption, Report!Init, ReportsChain, RecordFollows
<1>3. TradesAddUp
  <2>1. Report!Signed(0) = 0
    BY SignedZero
  <2>2. Len(executions) = 0 /\ executions = <<>> /\ traded = 0 /\ filled = 0
    BY DEF Report!Init
  <2>3. [k \in 0..0 |-> 0] \in [0..0 -> 0..Size]
    BY DEF Report!OrderReportsAssumption
  <2>4. \E sums \in [0..Len(executions) -> 0..Size] :
         /\ traded = Report!Signed(sums[0]) /\ sums[Len(executions)] = filled
         /\ \A k \in 1..Len(executions) : sums[k] = sums[k - 1] + executions[k]
    <3>1. /\ [k \in 0..0 |-> 0] \in [0..Len(executions) -> 0..Size]
          /\ traded = Report!Signed([k \in 0..0 |-> 0][0]) /\ [k \in 0..0 |-> 0][Len(executions)] = filled
          /\ \A k \in 1..Len(executions) : [l \in 0..0 |-> 0][k] = [l \in 0..0 |-> 0][k - 1] + executions[k]
      BY <2>1, <2>2, <2>3
    <3>2. QED
      BY <3>1
  <2>5. QED
    BY <2>1, <2>2, <2>4 DEF TradesAddUp, FilledSoFar, Report!Init
<1>4. QED
  BY <1>1, <1>2, <1>3 DEF ReportsInv

\* What is left to handle starts where the trades and the cache are.
LEMMA HandledTyped ==
  ASSUME Report!OrderReportsAssumption, ReportsInv
  PROVE  /\ FilledSoFar \in 0..Size /\ filled \in 0..Size /\ Size \in Nat \ {0}
         /\ Report!Signed(0) = 0 /\ \A n \in 0..Size : Report!Signed(n) \in -Size..Size
         /\ exchange \in {"futures", "spot", "ftx", "huobi", "pro"}
<1>1. filled \in 0..Size /\ Size \in Nat \ {0} /\ side \in {"buy", "sell"}
      /\ exchange \in {"futures", "spot", "ftx", "huobi", "pro"}
  BY DEF ReportsInv, ReportsTyped, Report!OrderReportsAssumption
<1>2. ASSUME reporting # <<>>
      PROVE  reporting[1].filled \in 0..Size /\ reporting[1].last \in 0..reporting[1].filled
  <2>1. Len(reporting) \in Nat /\ Len(reporting) # 0
    BY <1>2, EmptySeq, LenProperties DEF ReportsInv, ReportsTyped
  <2>2. QED
    BY <2>1 DEF ReportsInv, ReportsChain, IsReport
<1>3. FilledSoFar \in 0..Size
  BY <1>1, <1>2 DEF FilledSoFar
<1>4. QED
  BY <1>1, <1>3, SignedZero DEF Report!Signed

LEMMA ReportsTypes ==
  ASSUME Report!OrderReportsAssumption, ReportsInv PROVE Report!TypeOK
<1>1. traded \in -Size..Size
  <2>1. exchange \in {"ftx", "huobi", "pro"} => \E n \in 0..Size : traded = Report!Signed(n)
    <3> HAVE exchange \in {"ftx", "huobi", "pro"}
    <3>1. PICK sums \in [0..Len(executions) -> 0..Size] : traded = Report!Signed(sums[0])
      BY DEF ReportsInv, TradesAddUp
    <3>2. 0 \in 0..Len(executions)
      BY LenProperties DEF ReportsInv, ReportsTyped
    <3>3. QED
      BY <3>1, <3>2
  <2>2. QED
    BY <2>1, HandledTyped DEF ReportsInv, TradesAddUp
<1>2. /\ \A k \in DOMAIN reporting : reporting[k] \in Report!Report
      /\ \A k \in DOMAIN executions : executions[k] \in 1..Size
  BY ElementOfSeq, LenProperties DEF ReportsInv, ReportsTyped
<1>3. state \in Report!Ended \cup {"none", "open"}
  BY DEF ReportsInv, ReportsChain, Report!Ended
<1>4. record # Absent => record.st \in Report!Status \cup {"trade"} /\ ~Report!IsFinal(record)
  BY DEF ReportsInv, ReportsTyped, Report!Status, Report!IsFinal, Report!FinalStatus
<1>5. QED
  BY <1>1, <1>2, <1>3, <1>4 DEF ReportsInv, ReportsTyped, Report!TypeOK

LEMMA ReportsSafe ==
  ASSUME Report!OrderReportsAssumption, ReportsInv PROVE Report!ReportsAgree
<1> SUFFICES ASSUME Report!Quiet PROVE
    /\ exchange # "spot" => traded = Report!Signed(filled)
    /\ state = "open" => record # Absent
    /\ state \in {"canceled", "rejected"} /\ ~loaded => record = Absent
    /\ state = "filled" /\ ~loaded => record = Absent \/ exchange = "spot"
    /\ state = "expired" /\ ~loaded => record # Absent /\ record.st = "expired"
    /\ record # Absent /\ state = "open" /\ exchange \in {"futures", "huobi"} /\ ~loaded =>
         /\ record.qty = Report!Signed(Size)
         /\ record.st = IF filled > 0 THEN "partial" ELSE "open"
         /\ side = "buy" => record.filled = filled
         /\ side = "sell" => record.filled \in -filled..IF filled > 0 THEN -1 ELSE 0
    /\ record # Absent /\ state = "open" /\ exchange \in {"ftx", "pro"} /\ ~loaded =>
         record.qty = Report!Signed(Size) /\ record.st = "open" /\ record.filled = 0
  BY DEF Report!ReportsAgree
<1>1. reporting = <<>> /\ executions = <<>> /\ Len(executions) = 0 /\ FilledSoFar = filled
  BY DEF Report!Quiet, FilledSoFar
<1>2. exchange # "spot" => traded = Report!Signed(filled)
  <2>1. exchange \in {"ftx", "huobi", "pro"} => traded = Report!Signed(filled)
    <3> HAVE exchange \in {"ftx", "huobi", "pro"}
    <3>1. PICK sums \in [0..Len(executions) -> 0..Size] :
             traded = Report!Signed(sums[0]) /\ sums[Len(executions)] = filled
      BY DEF ReportsInv, TradesAddUp
    <3>2. QED
      BY <1>1, <3>1
  <2>2. QED
    BY <1>1, <2>1, HandledTyped DEF ReportsInv, TradesAddUp
<1>3. QED
  BY <1>1, <1>2 DEF ReportsInv, RecordFollows

-----------------------------------------------------------------------------
\* What happens at the exchange: one more report, of which nothing is handled yet
LEMMA HappensStep ==
  ASSUME Report!OrderReportsAssumption, ReportsInv,
         NEW st \in {"open", "filled", "canceled", "expired", "rejected"}, NEW f \in filled..Size,
         Report!Happens(st, f), state \in {"none", "open"},
         state = "none" => st \in {"open", "rejected"} /\ f = 0,
         state = "open" => st # "rejected",
         st = "open" => f < Size,
         st = "filled" => f = Size /\ f > filled,
         st \in {"canceled", "expired", "rejected"} => f = filled,
         st = "expired" => exchange # "ftx"
  PROVE  ReportsInv'
<1> DEFINE N == Len(reporting)
<1>0. PICK r : /\ r = Report!Said(st, f)
               /\ state' = st /\ filled' = f /\ reporting' = Append(reporting, r)
               /\ executions' = IF f > filled /\ exchange \in {"ftx", "huobi", "pro"}
                                THEN Append(executions, f - filled) ELSE executions
               /\ UNCHANGED <<exchange, side, fetched, loads, record, stamp, traded, loaded>>
  BY DEF Report!Happens
<1>1. /\ filled \in 0..Size /\ Size \in Nat \ {0} /\ f \in 0..Size /\ f - filled \in 0..Size
      /\ reporting \in Seq(Report!Report) /\ executions \in Seq(1..Size)
      /\ exchange \in {"futures", "spot", "ftx", "huobi", "pro"}
      /\ N \in Nat
  BY HandledTyped, LenProperties DEF ReportsInv, ReportsTyped
<1>2. IsReport(exchange, r, st) /\ r.filled = f /\ r.last = f - filled
  <2>1. r = Reported(exchange, st, f, filled)
    BY <1>0 DEF Report!Said, Report!Worded, Reported, Wording
  <2>2. r.filled = f /\ r.last = f - filled
    BY <1>0 DEF Report!Said
  <2>3. f - (f - filled) = filled
    BY <1>1
  <2>4. QED
    BY <1>1, <2>1, <2>2, <2>3 DEF IsReport
<1>3. r \in Report!Report
  <2>1. r = Reported(exchange, st, f, filled)
    BY <1>0 DEF Report!Said, Report!Worded, Reported, Wording
  <2>2. Wording(exchange, st, f, filled) \in Report!Words
    BY <1>1 DEF Wording, Report!Words, Report!Ended
  <2>3. QED
    BY <1>1, <2>1, <2>2 DEF Reported, Report!Report
<1>4. /\ reporting' \in Seq(Report!Report) /\ Len(reporting') = N + 1 /\ reporting'[N + 1] = r
      /\ \A k \in 1..N : reporting'[k] = reporting[k]
      /\ reporting = <<>> <=> N = 0
  BY <1>0, <1>1, <1>3, AppendProperties, EmptySeq
<1>5. reporting' # <<>>
  BY <1>1, <1>4, EmptySeq
<1> HIDE DEF N
<1>6. ReportsTyped'
  <2>1. executions' \in Seq(1..Size)
    <3>1. CASE f > filled
      <4>1. f - filled \in 1..Size
        BY <1>1, <3>1
      <4>2. QED
        BY <1>0, <1>1, <4>1, AppendProperties
    <3>2. CASE ~(f > filled)
      BY <1>0, <1>1, <3>2
    <3>3. QED
      BY <3>1, <3>2
  <2>2. QED
    BY <1>0, <1>1, <1>4, <2>1 DEF ReportsInv, ReportsTyped
<1>7. ReportsChain'
  <2>1. ASSUME NEW k \in 1..N + 1
        PROVE  /\ IsReport(exchange, reporting'[k], IF k = N + 1 THEN st ELSE "open")
               /\ k < N + 1 => reporting'[k + 1].filled - reporting'[k + 1].last = reporting'[k].filled
               /\ k = N + 1 => reporting'[k].filled = f
    <3>1. CASE k = N + 1
      BY <1>1, <1>2, <1>4, <3>1
    <3>2. CASE k < N
      <4>1. k \in 1..N /\ k + 1 \in 1..N /\ k # N /\ k # N + 1
        BY <1>1, <3>2
      <4>2. /\ IsReport(exchange, reporting[k], "open")
            /\ reporting[k + 1].filled - reporting[k + 1].last = reporting[k].filled
        BY <3>2, <4>1 DEF ReportsInv, ReportsChain, N
      <4>3. QED
        BY <1>4, <4>1, <4>2
    <3>3. CASE k = N
      <4>1. k \in 1..N /\ k # N + 1 /\ k + 1 = N + 1
        BY <1>1, <3>3
      <4>2. IsReport(exchange, reporting[k], state) /\ reporting[k].filled = filled
        BY <3>3, <4>1 DEF ReportsInv, ReportsChain, N
      <4>3. state # "none"
        BY <4>1, <1>1, <1>4 DEF ReportsInv, ReportsChain
      <4>4. f - (f - filled) = filled
        BY <1>1
      <4>5. QED
        BY <1>2, <1>4, <4>1, <4>2, <4>3, <4>4
    <3>4. QED
      BY <1>1, <3>1, <3>2, <3>3
  <2>3. /\ st \in {"open", "filled", "canceled", "expired", "rejected"} /\ st # "none"
        /\ st = "open" => f < Size
    OBVIOUS
  <2>4. ASSUME NEW k \in 1..Len(reporting')
        PROVE  /\ IsReport(exchange, reporting'[k], IF k = Len(reporting') THEN st ELSE "open")
               /\ k < Len(reporting') => reporting'[k + 1].filled - reporting'[k + 1].last = reporting'[k].filled
               /\ k = Len(reporting') => reporting'[k].filled = f
    BY <1>4, <2>1
  <2>5. QED
    BY <1>0, <2>3, <2>4 DEF ReportsChain
<1>8. FilledSoFar' = FilledSoFar
  <2>1. CASE N = 0
    <3>1. reporting'[1] = r /\ FilledSoFar = filled /\ f - (f - filled) = filled
      BY <1>1, <1>4, <2>1 DEF FilledSoFar
    <3>2. QED
      BY <1>2, <1>5, <3>1 DEF FilledSoFar
  <2>2. CASE N # 0
    BY <1>1, <1>4, <1>5, <2>2 DEF FilledSoFar
  <2>3. QED
    BY <2>1, <2>2
<1>9. TradesAddUp'
  <2>1. exchange \in {"futures", "spot"} => executions' = executions
    BY <1>0
  <2>2. ASSUME exchange \in {"ftx", "huobi", "pro"}
        PROVE  \E sums \in [0..Len(executions') -> 0..Size] :
                 /\ traded = Report!Signed(sums[0]) /\ sums[Len(executions')] = f
                 /\ \A k \in 1..Len(executions') : sums[k] = sums[k - 1] + executions'[k]
    <3>1. PICK sums \in [0..Len(executions) -> 0..Size] :
             /\ traded = Report!Signed(sums[0]) /\ sums[Len(executions)] = filled
             /\ \A k \in 1..Len(executions) : sums[k] = sums[k - 1] + executions[k]
      BY <2>2 DEF ReportsInv, TradesAddUp
    <3>2. CASE f = filled
      BY <1>0, <1>1, <3>1, <3>2
    <3>3. CASE f > filled
      <4> DEFINE M == Len(executions)
                 more == [k \in 0..M + 1 |-> IF k = M + 1 THEN f ELSE sums[k]]
      <4>1. executions' = Append(executions, f - filled) /\ f - filled \in 1..Size /\ M \in Nat
        BY <1>0, <1>1, <2>2, <3>3, LenProperties
      <4>2. /\ Len(executions') = M + 1 /\ executions'[M + 1] = f - filled
            /\ \A k \in 1..M : executions'[k] = executions[k]
        BY <1>1, <4>1, AppendProperties
      <4>3. more \in [0..M + 1 -> 0..Size] /\ more[0] = sums[0] /\ more[M + 1] = f
        BY <1>1, <3>1, <4>1
      <4>4. ASSUME NEW k \in 1..M + 1
            PROVE  more[k] = more[k - 1] + executions'[k]
        <5>1. CASE k = M + 1
          <6>1. more[k] = f /\ more[k - 1] = sums[M]
            BY <4>1, <5>1
          <6>2. QED
            BY <1>1, <3>1, <4>2, <5>1, <6>1
        <5>2. CASE k # M + 1
          <6>1. k \in 1..M /\ k - 1 \in 0..M
            BY <4>1, <5>2
          <6>2. more[k] = sums[k] /\ more[k - 1] = sums[k - 1]
            BY <4>1, <6>1
          <6>3. QED
            BY <3>1, <4>2, <6>1, <6>2
        <5>3. QED
          BY <5>1, <5>2
      <4> HIDE DEF more
      <4>5. QED
        BY <3>1, <4>2, <4>3, <4>4
    <3>4. QED
      BY <1>1, <3>2, <3>3
  <2>3. UNCHANGED <<exchange, side, traded>> /\ filled' = f
    BY <1>0
  <2>4. QED
    BY <1>8, <2>1, <2>2, <2>3 DEF ReportsInv, TradesAddUp, Report!Signed
<1>10. RecordFollows'
  <2>1. UNCHANGED <<exchange, side, record, stamp, loaded, fetched>> /\ state' = st
    BY <1>0
  <2>2. record = Absent => reporting'[1].filled = 0
    <3>1. CASE N = 0
      BY <1>1, <1>2, <1>4, <3>1 DEF ReportsInv, RecordFollows
    <3>2. CASE N # 0
      BY <1>1, <1>4, <3>2 DEF ReportsInv, RecordFollows
    <3>3. QED
      BY <3>1, <3>2
  <2>3. record # Absent => state = "open"
    BY DEF ReportsInv, RecordFollows
  <2>4. QED
    BY <1>5, <1>8, <2>1, <2>2, <2>3 DEF ReportsInv, RecordFollows, Report!Signed
<1>11. QED
  BY <1>6, <1>7, <1>9, <1>10 DEF ReportsInv

ExchangeSteps == Report!Accept \/ Report!Fill \/ Report!End
LEMMA ExchangeStep ==
  ASSUME Report!OrderReportsAssumption, ReportsInv, ExchangeSteps
  PROVE  ReportsInv'
<1>1. filled \in 0..Size /\ Size \in Nat \ {0} /\ (state = "none" => filled = 0) /\ (state = "open" => filled < Size)
  BY HandledTyped DEF ReportsInv, ReportsChain
<1>2. CASE Report!Accept
  <2>1. PICK st \in {"open", "rejected"} : Report!Happens(st, 0) /\ state = "none"
    BY <1>2 DEF Report!Accept
  <2>2. 0 \in filled..Size /\ 0 < Size /\ filled = 0
    BY <1>1, <2>1
  <2>3. st \in {"open", "filled", "canceled", "expired", "rejected"} /\ state \in {"none", "open"}
        /\ (state = "none" => st \in {"open", "rejected"}) /\ state # "open"
    BY <2>1
  <2>4. QED
    BY <2>1, <2>2, <2>3, HappensStep
<1>3. CASE Report!Fill
  <2>1. PICK f \in filled + 1..Size : Report!Happens(IF f = Size THEN "filled" ELSE "open", f) /\ state = "open"
    BY <1>3 DEF Report!Fill
  <2>2. f \in filled..Size /\ f > filled /\ f <= Size /\ f \in Nat
    BY <1>1, <2>1
  <2>3. PICK st : st = IF f = Size THEN "filled" ELSE "open"
    OBVIOUS
  <2>4. /\ Report!Happens(st, f) /\ st \in {"open", "filled", "canceled", "expired", "rejected"}
        /\ state \in {"none", "open"} /\ state # "none" /\ st # "rejected" /\ (st = "open" => f < Size)
        /\ (st = "filled" => f = Size) /\ st \notin {"canceled", "expired", "rejected"}
    BY <1>1, <2>1, <2>2, <2>3
  <2>5. QED
    BY <2>2, <2>4, HappensStep
<1>4. CASE Report!End
  <2>1. PICK st \in {"canceled"} \cup (IF exchange = "ftx" THEN {} ELSE {"expired"}) :
           Report!Happens(st, filled) /\ state = "open"
    BY <1>4 DEF Report!End
  <2>2. /\ st \in {"open", "filled", "canceled", "expired", "rejected"} /\ st # "rejected" /\ st # "open" /\ st # "filled"
        /\ (st = "expired" => exchange # "ftx")
    BY <2>1
  <2>3. filled \in filled..Size /\ state \in {"none", "open"} /\ state # "none"
    BY <1>1, <2>1
  <2>4. QED
    BY <2>1, <2>2, <2>3, HappensStep
<1>5. QED
  BY <1>2, <1>3, <1>4 DEF ExchangeSteps

-----------------------------------------------------------------------------
\* What the websocket makes of a report, by the exchange that sent it
OrderOf(r) == IF exchange = "pro" THEN Report!ParseOrder(r) ELSE Report!ExtractOrderInfo(r)

LEMMA Translated ==
  ASSUME Report!OrderReportsAssumption, ReportsInv, NEW r \in Report!Report, NEW st, IsReport(exchange, r, st)
  PROVE  /\ OrderOf(r) \in Report!Records
         /\ st = "open" =>
              OrderOf(r).st = CASE exchange = "spot" -> IF r.last > 0 THEN "trade" ELSE "open"
                                [] exchange = "futures" -> IF r.last > 0 THEN "partial" ELSE "open"
                                [] exchange = "huobi" -> IF r.filled > 0 THEN "partial" ELSE "open"
                                [] OTHER -> "open"
         /\ st = "expired" => OrderOf(r).st = "expired"
         /\ st \in {"canceled", "rejected"} => OrderOf(r).st \in {"canceled", "rejected", "filled", "closed"}
         /\ st = "filled" => IF exchange = "spot" THEN OrderOf(r).st = "trade"
                             ELSE OrderOf(r).st \in {"canceled", "rejected", "filled", "closed"}
         /\ exchange # "spot" /\ st = "open" => OrderOf(r).qty = Report!Signed(Size)
         /\ exchange \in {"futures", "huobi", "ftx"} => OrderOf(r).filled = Report!Signed(r.filled)
         /\ exchange = "pro" => OrderOf(r).filled = r.filled /\ OrderOf(r).time = 1
         /\ exchange # "pro" => OrderOf(r).time = stamp
<1>1. /\ exchange \in {"futures", "spot", "ftx", "huobi", "pro"} /\ side \in {"buy", "sell"} /\ stamp \in Nat \ {0}
      /\ Size \in Nat \ {0}
      /\ st \in {"open", "filled", "canceled", "expired", "rejected"} /\ r.filled \in 0..Size /\ r.last \in 0..r.filled
      /\ r.status = Wording(exchange, st, r.filled, r.filled - r.last)
      /\ r.amount = IF exchange \in {"ftx", "huobi"} THEN r.filled ELSE Size
      /\ r.remaining = IF exchange = "ftx" /\ st # "open" THEN 0 ELSE Size - r.filled
  BY HandledTyped DEF ReportsInv, ReportsTyped, IsReport, Reported
<1>2. /\ r.filled > r.filled - r.last <=> r.last > 0
      /\ Size - r.filled \in 0..Size
      /\ st = "filled" => Size - r.filled = 0 /\ r.last > 0 /\ r.filled > 0
      /\ st = "open" => Size - r.filled > 0
      /\ st \in {"canceled", "expired", "rejected"} => ~(r.last > 0)
      /\ st = "expired" => exchange # "ftx"
  BY <1>1 DEF IsReport
<1>3. \A n \in Int : Report!Signed(n) \in Int
  BY DEF Report!Signed
<1>4. CASE exchange = "futures"
  <2>1. r.status = (IF r.last > 0 THEN "trade" ELSE IF st = "open" THEN "new" ELSE st)
    BY <1>1, <1>2, <1>4 DEF Wording
  <2>2. Report!OrderStatus(r) = (IF r.last > 0 THEN IF r.remaining > 0 THEN "partial" ELSE "filled"
                                 ELSE st)
    BY <1>1, <1>2, <1>4, <2>1 DEF Report!OrderStatus, Report!BaseStatus
  <2>3. Report!Qty(r) = Report!Signed(Size) /\ Report!TotalFilled(r) = Report!Signed(r.filled)
    BY <1>1, <1>4 DEF Report!Qty, Report!TotalFilled
  <2>4. OrderOf(r) = Report!Record(Report!OrderStatus(r), Report!Signed(Size), Report!Signed(r.filled), stamp)
    BY <1>4, <2>3 DEF OrderOf, Report!ExtractOrderInfo
  <2>5. Report!OrderStatus(r) \in {"open", "partial", "filled", "canceled", "rejected", "expired"}
    BY <1>1, <1>2, <2>2
  <2>6. OrderOf(r) \in Report!Records
    BY <1>1, <1>3, <2>4, <2>5 DEF Report!Record, Report!Records, Report!Status, Report!NoStamp
  <2>7. /\ OrderOf(r).st = Report!OrderStatus(r) /\ OrderOf(r).qty = Report!Signed(Size)
        /\ OrderOf(r).filled = Report!Signed(r.filled) /\ OrderOf(r).time = stamp
    BY <2>4 DEF Report!Record
  <2>8. QED
    BY <1>1, <1>2, <1>4, <2>2, <2>6, <2>7
<1>5. CASE exchange = "spot"
  <2>1. r.status = (IF r.last > 0 THEN "trade" ELSE IF st = "open" THEN "new" ELSE st)
    BY <1>1, <1>2, <1>5 DEF Wording
  <2>2. Report!OrderStatus(r) = (IF r.last > 0 THEN "trade" ELSE st)
    BY <1>1, <1>2, <1>5, <2>1 DEF Report!OrderStatus, Report!BaseStatus
  <2>3. Report!Qty(r) \in Int /\ Report!TotalFilled(r) \in Int
    <3>1. r.amount + r.remaining \in Int /\ r.amount - r.remaining \in Int
      BY <1>1, <1>2, <1>5
    <3>2. Report!Qty(r) = Report!Signed(r.amount + r.remaining)
      BY <1>5 DEF Report!Qty
    <3>3. Report!TotalFilled(r) = Report!Signed(r.amount - r.remaining)
      BY <1>5 DEF Report!TotalFilled
    <3>4. QED
      BY <1>3, <3>1, <3>2, <3>3
  <2>4. OrderOf(r) = Report!Record(Report!OrderStatus(r), Report!Qty(r), Report!TotalFilled(r), stamp)
    BY <1>5 DEF OrderOf, Report!ExtractOrderInfo
  <2>5. Report!OrderStatus(r) \in {"trade", "open", "filled", "canceled", "rejected", "expired"}
    BY <1>1, <1>2, <2>2
  <2>6. OrderOf(r) \in Report!Records
    BY <1>1, <2>3, <2>4, <2>5 DEF Report!Record, Report!Records, Report!Status, Report!NoStamp
  <2>7. OrderOf(r).st = Report!OrderStatus(r) /\ OrderOf(r).time = stamp
    BY <2>4 DEF Report!Record
  <2>8. QED
    BY <1>1, <1>2, <1>5, <2>2, <2>6, <2>7
<1>6. CASE exchange = "ftx"
  <2>1. r.status = (IF st = "open" THEN "open" ELSE "closed")
    BY <1>1, <1>6 DEF Wording
  <2>2. Report!OrderStatus(r) \in {"open", "filled", "canceled"} /\ (Report!OrderStatus(r) = "open" <=> st = "open")
    <3>1. Report!BaseStatus(r.status) = r.status
      BY <2>1 DEF Report!BaseStatus
    <3>2. Report!OrderStatus(r) = Report!OfFtx(r.status, r)
      BY <1>6, <3>1 DEF Report!OrderStatus
    <3>3. QED
      BY <1>1, <1>6, <2>1, <3>2 DEF Report!OfFtx
  <2>3. st = "open" => Report!Qty(r) = Report!Signed(Size)
    <3>1. st = "open" => r.amount + r.remaining = Size
      BY <1>1, <1>6
    <3>2. QED
      BY <1>6, <3>1 DEF Report!Qty
  <2>4. Report!Qty(r) \in Int /\ Report!TotalFilled(r) = Report!Signed(r.filled)
    <3>1. r.amount + r.remaining \in Int
      BY <1>1, <1>2, <1>6
    <3>2. Report!Qty(r) = Report!Signed(r.amount + r.remaining)
      BY <1>6 DEF Report!Qty
    <3>3. QED
      BY <1>1, <1>3, <1>6, <3>1, <3>2 DEF Report!TotalFilled
  <2>5. OrderOf(r) = Report!Record(Report!OrderStatus(r), Report!Qty(r), Report!Signed(r.filled), stamp)
    BY <1>6, <2>4 DEF OrderOf, Report!ExtractOrderInfo
  <2>6. OrderOf(r) \in Report!Records
    BY <1>1, <1>3, <2>2, <2>4, <2>5 DEF Report!Record, Report!Records, Report!Status, Report!NoStamp
  <2>7. /\ OrderOf(r).st = Report!OrderStatus(r) /\ OrderOf(r).qty = Report!Qty(r)
        /\ OrderOf(r).filled = Report!Signed(r.filled) /\ OrderOf(r).time = stamp
    BY <2>5 DEF Report!Record
  <2>8. QED
    BY <1>1, <1>2, <1>6, <2>2, <2>3, <2>6, <2>7
<1>7. CASE exchange = "huobi"
  <2>1. r.status = (IF st # "open" THEN st ELSE IF r.filled > 0 THEN "partial-filled" ELSE "submitted")
    BY <1>1, <1>7 DEF Wording
  <2>2. Report!OrderStatus(r) = (IF st # "open" THEN st ELSE IF r.filled > 0 THEN "partial" ELSE "open")
    BY <1>1, <1>7, <2>1 DEF Report!OrderStatus, Report!BaseStatus
  <2>3. r.amount + r.remaining = Size
    BY <1>1, <1>7
  <2>4. Report!Qty(r) = Report!Signed(Size) /\ Report!TotalFilled(r) = Report!Signed(r.filled)
    BY <1>1, <1>7, <2>3 DEF Report!Qty, Report!TotalFilled
  <2>5. OrderOf(r) = Report!Record(Report!OrderStatus(r), Report!Signed(Size), Report!Signed(r.filled), stamp)
    BY <1>7, <2>4 DEF OrderOf, Report!ExtractOrderInfo
  <2>6. Report!OrderStatus(r) \in {"open", "partial", "filled", "canceled", "rejected", "expired"}
    BY <1>1, <2>2
  <2>7. OrderOf(r) \in Report!Records
    BY <1>1, <1>3, <2>5, <2>6 DEF Report!Record, Report!Records, Report!Status, Report!NoStamp
  <2>8. /\ OrderOf(r).st = Report!OrderStatus(r) /\ OrderOf(r).qty = Report!Signed(Size)
        /\ OrderOf(r).filled = Report!Signed(r.filled) /\ OrderOf(r).time = stamp
    BY <2>5 DEF Report!Record
  <2>9. QED
    BY <1>1, <1>2, <1>7, <2>2, <2>7, <2>8
<1>8. CASE exchange = "pro"
  <2>1. r.status = (IF st = "filled" THEN "closed" ELSE st)
    BY <1>1, <1>8 DEF Wording
  <2>2. Report!BaseStatus(r.status) = r.status
    BY <1>1, <2>1 DEF Report!BaseStatus
  <2>3. OrderOf(r) = [Report!Record(r.status, Report!Signed(Size), r.filled, 1)
                        EXCEPT !.tRej = Report!NoStamp, !.tCan = Report!NoStamp, !.tFil = Report!NoStamp]
    BY <1>1, <1>8, <2>2 DEF OrderOf, Report!ParseOrder
  <2>4. r.status \in {"open", "closed", "canceled", "rejected", "expired"}
    BY <1>1, <2>1
  <2>5. OrderOf(r) \in Report!Records
    <3>1. Report!Record(r.status, Report!Signed(Size), r.filled, 1) \in Report!Records
      <4>1. r.filled \in Int /\ Report!Signed(Size) \in Int /\ 1 \in Nat /\ Report!NoStamp \in Nat
        BY <1>1, <1>3 DEF Report!NoStamp
      <4>2. r.status \in Report!Status \cup {"trade"}
        BY <2>4 DEF Report!Status
      <4>3. QED
        BY <4>1, <4>2 DEF Report!Record, Report!Records
    <3>2. \A o \in Report!Records : /\ [o EXCEPT !.tRej = Report!NoStamp] \in Report!Records
                                   /\ [o EXCEPT !.tCan = Report!NoStamp] \in Report!Records
                                   /\ [o EXCEPT !.tFil = Report!NoStamp] \in Report!Records
      BY DEF Report!Records, Report!NoStamp
    <3>3. QED
      BY <2>3, <3>1, <3>2
  <2>6. /\ OrderOf(r).st = r.status /\ OrderOf(r).qty = Report!Signed(Size)
        /\ OrderOf(r).filled = r.filled /\ OrderOf(r).time = 1
    BY <2>3 DEF Report!Record
  <2>7. QED
    BY <1>1, <1>2, <1>8, <2>1, <2>5, <2>6
<1>9. QED
  BY <1>1, <1>4, <1>5, <1>6, <1>7, <1>8

\* A final record takes the order out, one of an unknown status raises, and of two others the
\* later stays.
LEMMA OrderReceived ==
  ASSUME Report!OrderReportsAssumption, NEW u \in Report!Records, Report!Received(u),
         record = Absent \/ (record \in Report!Records /\ record.st \in {"open", "partial", "expired"}),
         u.st \in {"open", "partial", "expired", "trade", "canceled", "rejected", "filled", "closed"}
  PROVE  /\ u.st \in {"canceled", "rejected", "filled", "closed"} => record' = Absent
         /\ record # Absent /\ u.st = "trade" => record' = record
         /\ record # Absent /\ u.st \in {"open", "partial", "expired"} =>
              record' = IF Report!LaterStatus(u, record) THEN u ELSE record
         /\ record = Absent /\ u.st \in {"open", "partial", "expired", "trade"} => record' = u
<1>1. Absent \notin Report!Records
  BY DEF Report!OrderReportsAssumption
<1>2. Report!IsFinal(u) <=> u.st \in {"canceled", "rejected", "filled", "closed"}
  BY DEF Report!IsFinal, Report!FinalStatus
<1>3. CASE record = Absent
  <2>1. ~Report!Raises(record, u) /\ Report!Kept(record, u) = u
    BY <1>3 DEF Report!Raises, Report!Kept
  <2>2. record' = Report!Stored(u)
    BY <2>1 DEF Report!Received
  <2>3. QED
    BY <1>2, <1>3, <2>2 DEF Report!Stored
<1>4. CASE record # Absent
  <2>1. record \in Report!Records /\ record.st \in {"open", "partial", "expired"} /\ ~Report!IsFinal(record)
    BY <1>4 DEF Report!IsFinal, Report!FinalStatus
  <2>2. Report!Raises(record, u) <=> u.st = "trade"
    <3>1. record.st \in Report!Status /\ record.st # "trade" /\ "trade" \notin Report!Status
      BY <2>1 DEF Report!Status
    <3>2. u.st # "trade" => {record.st, u.st} \subseteq Report!Status
      BY <3>1 DEF Report!Status
    <3>3. u.st = "trade" => /\ ~({record.st, u.st} \subseteq Report!Status) /\ ~Report!IsFinal(u)
                            /\ record.st # u.st
      BY <1>2, <3>1
    <3>4. u.st = "trade" => (Report!IsFinal(record) = Report!IsFinal(u))
      BY <2>1, <3>3 DEF Report!IsFinal
    <3>5. QED
      BY <1>4, <3>2, <3>3, <3>4, Zenon DEF Report!Raises
  <2>3. Report!Kept(record, u) = Report!Merge(u, record)
    BY <1>4 DEF Report!Kept
  <2>4. CASE u.st \in {"canceled", "rejected", "filled", "closed"}
    <3>1. Report!Merge(u, record) = u /\ u.st # "trade"
      BY <1>2, <2>1, <2>4 DEF Report!Merge, Report!KeepsSelf
    <3>2. record' = Absent
      BY <1>2, <2>2, <2>3, <2>4, <3>1 DEF Report!Received, Report!Stored
    <3>3. QED
      BY <1>4, <2>4, <3>2
  <2>5. CASE u.st = "trade"
    <3>1. record' = record
      BY <2>2, <2>5 DEF Report!Received
    <3>2. QED
      BY <1>4, <2>5, <3>1
  <2>6. CASE u.st \in {"open", "partial", "expired"}
    <3>1. ~Report!IsFinal(u) /\ u.st # "trade"
      BY <1>2, <2>6
    <3>2. Report!KeepsSelf(u, record) <=> Report!LaterStatus(u, record)
      BY <2>1, <3>1 DEF Report!KeepsSelf, Report!IsFinal, Report!LaterStatus
    <3>3. Report!Merge(u, record) = IF Report!LaterStatus(u, record) THEN u ELSE record
      BY <3>2, Zenon DEF Report!Merge
    <3>4. ~Report!IsFinal(Report!Merge(u, record))
      BY <2>1, <3>1, <3>3
    <3>5. record' = Report!Merge(u, record)
      BY <2>2, <2>3, <3>1, <3>4 DEF Report!Received, Report!Stored
    <3>6. QED
      BY <1>4, <2>6, <3>3, <3>5
  <2>7. QED
    BY <1>4, <2>4, <2>5, <2>6
<1>5. QED
  BY <1>3, <1>4

\* Which of two records that are not final stays
LEMMA Later ==
  ASSUME NEW u \in Report!Records, NEW e \in Report!Records,
         u.st \in {"open", "partial", "expired"}, e.st \in {"open", "partial", "expired"}
  PROVE  Report!LaterStatus(u, e) <=>
           \/ u.st = "expired" /\ e.st # "expired"
           \/ u.st = "partial" /\ (e.st = "open" \/ (e.st = "partial" /\ u.filled > e.filled))
           \/ u.st = e.st /\ u.st # "partial" /\ u.time < e.time
  BY DEF Report!LaterStatus, Report!Rank

LEMMA OrderInfoStep ==
  ASSUME Report!OrderReportsAssumption, ReportsInv, Report!OnOrderInfo
  PROVE  ReportsInv'
<1> DEFINE N == Len(reporting)
<1>0. PICK r : /\ r = Head(reporting) /\ reporting # <<>> /\ reporting' = Tail(reporting)
               /\ Report!Received(OrderOf(r))
               /\ traded' = IF exchange = "futures" /\ r.status = "trade" THEN traded + Report!Signed(r.last) ELSE traded
               /\ stamp' = stamp + 1
               /\ UNCHANGED <<exchange, side, state, filled, executions, fetched, loads, loaded>>
  BY DEF Report!OnOrderInfo, OrderOf
<1>1. /\ r \in Report!Report /\ r = reporting[1] /\ N \in Nat \ {0} /\ reporting' \in Seq(Report!Report)
      /\ Len(reporting') = N - 1 /\ \A k \in 1..N - 1 : reporting'[k] = reporting[k + 1]
      /\ reporting' = <<>> <=> N = 1
  <2>1. reporting \in Seq(Report!Report) /\ reporting # <<>>
    BY <1>0 DEF ReportsInv, ReportsTyped
  <2>2. N \in Nat /\ N # 0
    BY <2>1, EmptySeq, LenProperties
  <2>3. /\ Head(reporting) \in Report!Report /\ Tail(reporting) \in Seq(Report!Report)
        /\ Len(Tail(reporting)) = N - 1 /\ \A k \in 1..N - 1 : Tail(reporting)[k] = reporting[k + 1]
    BY <2>1, HeadTailProperties
  <2>4. Head(reporting) = reporting[1]
    BY <2>1
  <2>5. Tail(reporting) = <<>> <=> N = 1
    BY <2>2, <2>3, EmptySeq
  <2>6. QED
    BY <1>0, <2>2, <2>3, <2>4, <2>5
<1> HIDE DEF N
<1>2. PICK st : st = IF N = 1 THEN state ELSE "open"
  OBVIOUS
<1>3. IsReport(exchange, r, st) /\ FilledSoFar = r.filled - r.last
  <2>1. 1 \in 1..N
    BY <1>1
  <2>2. IsReport(exchange, r, st)
    BY <1>1, <1>2, <2>1 DEF ReportsInv, ReportsChain, N
  <2>3. QED
    BY <1>0, <1>1, <2>2 DEF FilledSoFar
<1>4. /\ r.filled \in 0..Size /\ r.last \in 0..r.filled /\ Size \in Nat \ {0} /\ side \in {"buy", "sell"}
      /\ exchange \in {"futures", "spot", "ftx", "huobi", "pro"} /\ stamp \in Nat \ {0}
      /\ st \in {"open", "filled", "canceled", "expired", "rejected"}
      /\ st = "filled" => r.filled > 0
      /\ N = 1 => r.filled = filled
      /\ N # 1 => reporting'[1].filled - reporting'[1].last = r.filled
  <2>1. /\ N = 1 => r.filled = filled
        /\ N # 1 => reporting'[1].filled - reporting'[1].last = r.filled
    <3>1. 1 \in 1..N /\ (N # 1 => 1 \in 1..N - 1 /\ 1 < N /\ 1 + 1 = 2)
      BY <1>1
    <3>2. QED
      BY <1>1, <3>1 DEF ReportsInv, ReportsChain, N
  <2>2. QED
    BY <1>3, <2>1, HandledTyped DEF ReportsInv, ReportsTyped, IsReport
<1>5. PICK u : u = OrderOf(r)
  OBVIOUS
<1>6. /\ u \in Report!Records
      /\ st = "open" =>
           u.st = CASE exchange = "spot" -> IF r.last > 0 THEN "trade" ELSE "open"
                    [] exchange = "futures" -> IF r.last > 0 THEN "partial" ELSE "open"
                    [] exchange = "huobi" -> IF r.filled > 0 THEN "partial" ELSE "open"
                    [] OTHER -> "open"
      /\ st = "expired" => u.st = "expired"
      /\ st \in {"canceled", "rejected"} => u.st \in {"canceled", "rejected", "filled", "closed"}
      /\ st = "filled" => IF exchange = "spot" THEN u.st = "trade"
                          ELSE u.st \in {"canceled", "rejected", "filled", "closed"}
      /\ exchange # "spot" /\ st = "open" => u.qty = Report!Signed(Size)
      /\ exchange \in {"futures", "huobi", "ftx"} => u.filled = Report!Signed(r.filled)
      /\ exchange = "pro" => u.filled = r.filled /\ u.time = 1
      /\ exchange # "pro" => u.time = stamp
  BY <1>1, <1>3, <1>5, Translated
<1>7. /\ record = Absent \/ (record \in Report!Records /\ record.st \in {"open", "partial", "expired"})
      /\ st = "open" => u.st \in {"open", "partial", "trade"}
      /\ u.st \in {"open", "partial", "expired", "trade", "canceled", "rejected", "filled", "closed"}
      /\ record = Absent => r.filled = 0 /\ r.last = 0 /\ (st = "open" => u.st = "open") /\ u.st # "trade"
  <2>1. st = "open" => u.st \in {"open", "partial", "trade"}
    BY <1>4, <1>6
  <2>2. record = Absent => r.filled = 0 /\ r.last = 0
    BY <1>0, <1>1, <1>4 DEF ReportsInv, RecordFollows
  <2>3. record = Absent => st # "filled" /\ (st = "open" => u.st = "open")
    BY <1>4, <1>6, <2>2
  <2>4. QED
    BY <1>4, <1>6, <2>1, <2>2, <2>3 DEF ReportsInv, ReportsTyped
<1>8. /\ u.st \in {"canceled", "rejected", "filled", "closed"} => record' = Absent
      /\ record # Absent /\ u.st = "trade" => record' = record
      /\ record # Absent /\ u.st \in {"open", "partial", "expired"} =>
           record' = IF Report!LaterStatus(u, record) THEN u ELSE record
      /\ record = Absent /\ u.st \in {"open", "partial", "expired", "trade"} => record' = u
  BY <1>0, <1>5, <1>6, <1>7, OrderReceived
<1>9. FilledSoFar' = r.filled
  BY <1>0, <1>1, <1>4 DEF FilledSoFar
<1>10. ReportsTyped'
  <2>1. record' = Absent \/ (record' \in Report!Records /\ record'.st \in {"open", "partial", "expired"})
    BY <1>6, <1>7, <1>8
  <2>2. QED
    BY <1>0, <1>1, <1>4, <2>1 DEF ReportsInv, ReportsTyped
<1>11. ReportsChain'
  <2>1. ASSUME NEW k \in 1..N - 1
        PROVE  /\ IsReport(exchange, reporting'[k], IF k = N - 1 THEN state ELSE "open")
               /\ k < N - 1 => reporting'[k + 1].filled - reporting'[k + 1].last = reporting'[k].filled
               /\ k = N - 1 => reporting'[k].filled = filled
    <3>1. /\ k + 1 \in 1..N /\ (k + 1 = N <=> k = N - 1) /\ (k + 1 < N <=> k < N - 1)
          /\ k < N - 1 => k + 1 \in 1..N - 1
      BY <1>1
    <3>2. /\ IsReport(exchange, reporting[k + 1], IF k + 1 = N THEN state ELSE "open")
          /\ k + 1 < N => reporting[k + 1 + 1].filled - reporting[k + 1 + 1].last = reporting[k + 1].filled
          /\ k + 1 = N => reporting[k + 1].filled = filled
      BY <3>1 DEF ReportsInv, ReportsChain, N
    <3>3. QED
      BY <1>1, <3>1, <3>2
  <2>2. state # "none" /\ state \in {"open", "filled", "canceled", "expired", "rejected"} /\ (state = "open" => filled < Size)
    BY <1>0 DEF ReportsInv, ReportsChain
  <2>3. ASSUME NEW k \in 1..Len(reporting')
        PROVE  /\ IsReport(exchange, reporting'[k], IF k = Len(reporting') THEN state ELSE "open")
               /\ k < Len(reporting') => reporting'[k + 1].filled - reporting'[k + 1].last = reporting'[k].filled
               /\ k = Len(reporting') => reporting'[k].filled = filled
    BY <1>1, <2>1
  <2>4. QED
    BY <1>0, <2>2, <2>3 DEF ReportsChain
<1>12. TradesAddUp'
  <2>1. ASSUME exchange = "futures"
        PROVE  traded' = Report!Signed(r.filled)
    <3>1. traded = Report!Signed(r.filled - r.last)
      BY <1>3, <2>1 DEF ReportsInv, TradesAddUp
    <3>2. r.status = "trade" <=> r.last > 0
      <4>1. r.status = Wording(exchange, st, r.filled, r.filled - r.last)
        BY <1>3 DEF IsReport, Reported
      <4>2. r.filled > r.filled - r.last <=> r.last > 0
        BY <1>4
      <4>3. QED
        BY <1>4, <2>1, <4>1, <4>2 DEF Wording
    <3>3. CASE r.last > 0
      <4>1. traded' = traded + Report!Signed(r.last)
        BY <1>0, <2>1, <3>2, <3>3
      <4>2. CASE side = "sell"
        <5>1. traded = -(r.filled - r.last) /\ Report!Signed(r.last) = -r.last /\ Report!Signed(r.filled) = -r.filled
          BY <3>1, <4>2 DEF Report!Signed
        <5>2. -(r.filled - r.last) + -r.last = -r.filled
          BY <1>4
        <5>3. QED
          BY <4>1, <5>1, <5>2
      <4>3. CASE side # "sell"
        <5>1. traded = r.filled - r.last /\ Report!Signed(r.last) = r.last /\ Report!Signed(r.filled) = r.filled
          BY <3>1, <4>3 DEF Report!Signed
        <5>2. r.filled - r.last + r.last = r.filled
          BY <1>4
        <5>3. QED
          BY <4>1, <5>1, <5>2
      <4>4. QED
        BY <4>2, <4>3
    <3>4. CASE ~(r.last > 0)
      <4>1. r.filled - r.last = r.filled
        BY <1>4, <3>4
      <4>2. QED
        BY <1>0, <3>1, <3>2, <3>4, <4>1
    <3>5. QED
      BY <3>3, <3>4
  <2>2. exchange # "futures" => traded' = traded
    BY <1>0
  <2>3. QED
    BY <1>0, <1>9, <2>1, <2>2 DEF ReportsInv, TradesAddUp, Report!Signed
<1>13. RecordFollows'
  <2>1. /\ N # 1 => st = "open"
        /\ state = "open" => st = "open"
        /\ N = 1 => st = state
        /\ state # "none"
    BY <1>0, <1>2 DEF ReportsInv, ReportsChain
  <2>2. st = "open" => record' # Absent
    BY <1>6, <1>7, <1>8 DEF Report!OrderReportsAssumption
  <2>3. st \in {"canceled", "rejected"} => record' = Absent
    BY <1>6, <1>8
  <2>4. st = "filled" => record' = Absent \/ exchange = "spot"
    BY <1>6, <1>8
  <2>5. ASSUME st = "expired"
        PROVE  record' # Absent /\ record'.st = "expired"
    <3>1. u.st = "expired" /\ u # Absent
      BY <1>6, <2>5 DEF Report!OrderReportsAssumption
    <3>2. CASE record = Absent
      BY <1>8, <3>1, <3>2
    <3>3. CASE record # Absent
      <4>1. Report!LaterStatus(u, record) <=> record.st # "expired" \/ u.time < record.time
        <5>1. record \in Report!Records /\ record.st \in {"open", "partial", "expired"}
          BY <1>7, <3>3
        <5>2. Report!LaterStatus(u, record) <=>
                \/ u.st = "expired" /\ record.st # "expired"
                \/ u.st = "partial" /\ (record.st = "open" \/ (record.st = "partial" /\ u.filled > record.filled))
                \/ u.st = record.st /\ u.st # "partial" /\ u.time < record.time
          BY <1>6, <3>1, <5>1, Later
        <5>3. u.time < record.time => u.time < record.time
          OBVIOUS
        <5>4. record.st # "expired" => Report!LaterStatus(u, record)
          BY <3>1, <5>2
        <5>5. QED
          BY <3>1, <5>2, <5>4
      <4>2. QED
        BY <1>8, <3>1, <3>3, <4>1
    <3>4. QED
      BY <3>2, <3>3
  <2>6. ASSUME st = "open", ~loaded
        PROVE  /\ exchange \in {"futures", "huobi"} =>
                    /\ record'.qty = Report!Signed(Size)
                    /\ record'.st = IF r.filled > 0 THEN "partial" ELSE "open"
                    /\ side = "buy" => record'.filled = r.filled
                    /\ side = "sell" => record'.filled \in -r.filled..IF r.filled > 0 THEN -1 ELSE 0
               /\ exchange \in {"ftx", "pro"} =>
                    /\ record'.qty = Report!Signed(Size) /\ record'.st = "open" /\ record'.filled = 0
                    /\ record'.time < stamp' /\ (exchange = "pro" => record'.time = 1)
    <3>1. stamp' = stamp + 1 /\ u.st \in {"open", "partial", "trade"} /\ u # Absent
      BY <1>0, <1>6, <1>7, <2>6 DEF Report!OrderReportsAssumption
    <3>2. CASE record = Absent
      <4>1. record' = u /\ u.st = "open" /\ r.filled = 0
        BY <1>7, <1>8, <2>6, <3>2
      <4>2. exchange # "spot" => u.filled = 0 /\ u.qty = Report!Signed(Size) /\ u.time \in Nat /\ u.time < stamp + 1
        BY <1>4, <1>6, <2>6, <4>1, SignedZero
      <4>3. QED
        BY <1>4, <1>6, <3>1, <4>1, <4>2
    <3>3. CASE record # Absent
      <4>1. /\ record \in Report!Records /\ record.st \in {"open", "partial", "expired"}
            /\ record.time \in Nat /\ record.filled \in Int
        BY <1>7, <3>3 DEF Report!Records
      <4>2. /\ exchange \in {"futures", "huobi"} =>
                 /\ record.qty = Report!Signed(Size)
                 /\ record.st = IF r.filled - r.last > 0 THEN "partial" ELSE "open"
                 /\ side = "buy" => record.filled = r.filled - r.last
                 /\ side = "sell" => record.filled \in -(r.filled - r.last)..IF r.filled - r.last > 0 THEN -1 ELSE 0
            /\ exchange \in {"ftx", "pro"} =>
                 /\ record.qty = Report!Signed(Size) /\ record.st = "open" /\ record.filled = 0
                 /\ record.time < stamp /\ (exchange = "pro" => record.time = 1)
        BY <1>0, <1>3, <2>6, <3>3 DEF ReportsInv, RecordFollows
      <4>3. u.st \in {"open", "partial"} =>
              /\ record' = IF Report!LaterStatus(u, record) THEN u ELSE record
              /\ Report!LaterStatus(u, record) <=>
                   \/ u.st = "expired" /\ record.st # "expired"
                   \/ u.st = "partial" /\ (record.st = "open" \/ (record.st = "partial" /\ u.filled > record.filled))
                   \/ u.st = record.st /\ u.st # "partial" /\ u.time < record.time
        BY <1>6, <1>8, <3>3, <4>1, Later
      <4>4. CASE exchange \in {"futures", "huobi"}
        <5>1. /\ u.st = "partial" \/ (u.st = "open" /\ r.last = 0)
              /\ u.st = "partial" => r.filled > 0
              /\ u.st = "open" => (exchange = "huobi" => r.filled = 0)
              /\ u.qty = Report!Signed(Size)
              /\ u.filled = IF side = "sell" THEN -r.filled ELSE r.filled
          BY <1>4, <1>6, <2>6, <4>4 DEF Report!Signed
        <5>2. record.st \in {"open", "partial"}
          BY <4>2, <4>4
        <5>3. CASE u.st = "partial"
          <6>1. record.st = "open" => record' = u
            BY <4>3, <5>3
          <6>2. record.st = "partial" => record' = IF u.filled > record.filled THEN u ELSE record
            BY <4>3, <5>3
          <6>3. CASE record.st = "open"
            BY <1>4, <4>4, <5>1, <5>3, <6>1, <6>3
          <6>4. CASE record.st = "partial" /\ side = "buy"
            <7>1. record.filled = r.filled - r.last /\ u.filled = r.filled /\ record.qty = Report!Signed(Size)
              BY <4>2, <4>4, <5>1, <6>4
            <7>2. record'.filled = r.filled
              BY <1>4, <6>2, <6>4, <7>1
            <7>3. record'.st = "partial" /\ record'.qty = Report!Signed(Size)
              BY <5>1, <5>3, <6>2, <6>4, <7>1
            <7>4. QED
              BY <4>4, <5>1, <5>3, <6>4, <7>2, <7>3
          <6>5. CASE record.st = "partial" /\ side = "sell"
            <7>1. record.filled \in -(r.filled - r.last)..-1 /\ u.filled = -r.filled /\ record.qty = Report!Signed(Size)
              BY <4>2, <4>4, <5>1, <6>5
            <7>2. record'.filled \in -r.filled..-1
              BY <1>4, <5>1, <5>3, <6>2, <6>5, <7>1
            <7>3. record'.st = "partial" /\ record'.qty = Report!Signed(Size)
              BY <5>1, <5>3, <6>2, <6>5, <7>1
            <7>4. QED
              BY <4>4, <5>1, <5>3, <6>5, <7>2, <7>3
          <6>6. QED
            BY <1>4, <5>2, <6>3, <6>4, <6>5
        <5>4. CASE u.st = "open"
          <6>1. r.last = 0 /\ r.filled - r.last = r.filled /\ r.filled \in Nat
            BY <1>4, <5>1, <5>4
          <6>2. record.st = "partial" => record' = record
            BY <4>3, <5>4
          <6>3. record.st = "open" => record' \in {u, record} /\ r.filled = 0
            BY <4>2, <4>3, <4>4, <5>4, <6>1
          <6>4. CASE record.st = "partial"
            <7>1. r.filled > 0
              BY <4>2, <4>4, <6>1, <6>4
            <7>2. QED
              BY <4>2, <4>4, <6>1, <6>2, <6>4, <7>1
          <6>5. CASE record.st = "open"
            <7>1. record.filled = 0 /\ u.filled = 0 /\ u.qty = Report!Signed(Size) /\ record.qty = Report!Signed(Size)
              BY <1>4, <4>2, <4>4, <5>1, <6>1, <6>3, <6>5
            <7>2. record'.filled = 0 /\ record'.qty = Report!Signed(Size) /\ record'.st = "open"
              BY <5>4, <6>3, <6>5, <7>1
            <7>3. QED
              BY <4>4, <6>3, <6>5, <7>2
          <6>6. QED
            BY <5>2, <6>4, <6>5
        <5>5. QED
          BY <5>1, <5>3, <5>4
      <4>5. CASE exchange \in {"ftx", "pro"}
        <5>1. u.st = "open" /\ record.st = "open" /\ ~(u.time < record.time)
          BY <1>4, <1>6, <2>6, <4>1, <4>2, <4>5
        <5>2. record' = record
          BY <4>3, <5>1
        <5>3. QED
          BY <1>4, <3>1, <4>1, <4>2, <4>5, <5>2
      <4>6. QED
        BY <4>4, <4>5
    <3>4. QED
      BY <3>2, <3>3
  <2>7. QED
    BY <1>0, <1>1, <1>9, <2>1, <2>2, <2>3, <2>4, <2>5, <2>6 DEF RecordFollows, Report!Signed
<1>14. QED
  BY <1>10, <1>11, <1>12, <1>13 DEF ReportsInv

\* A fill is handled: the trades are where the first of the fills that will be left takes them.
LEMMA FillsStep ==
  ASSUME Report!OrderReportsAssumption, ReportsInv, Report!OnFills
  PROVE  ReportsInv'
<1> DEFINE M == Len(executions)
<1>1. /\ executions # <<>> /\ executions' = Tail(executions) /\ traded' = traded + Report!Signed(executions[1])
      /\ UNCHANGED <<exchange, side, state, filled, reporting, fetched, loads, record, stamp, loaded>>
  BY DEF Report!OnFills
<1>2. executions \in Seq(1..Size) /\ exchange \in {"ftx", "huobi", "pro"} /\ Size \in Nat \ {0}
  BY <1>1, HandledTyped DEF ReportsInv, ReportsTyped, TradesAddUp
<1>3. /\ M \in Nat \ {0} /\ executions' \in Seq(1..Size) /\ Len(executions') = M - 1
      /\ \A k \in 1..M - 1 : executions'[k] = executions[k + 1]
      /\ \A k \in 1..M : executions[k] \in 1..Size
  <2>1. M \in Nat /\ M # 0
    BY <1>1, <1>2, EmptySeq, LenProperties
  <2>2. QED
    BY <1>1, <1>2, <2>1, HeadTailProperties, ElementOfSeq
<1>4. PICK sums \in [0..M -> 0..Size] :
         /\ traded = Report!Signed(sums[0]) /\ sums[M] = filled
         /\ \A k \in 1..M : sums[k] = sums[k - 1] + executions[k]
  BY <1>2 DEF ReportsInv, TradesAddUp
<1> HIDE DEF M
<1> DEFINE rest == [k \in 0..M - 1 |-> sums[k + 1]]
<1>5. rest \in [0..M - 1 -> 0..Size] /\ rest[0] = sums[1] /\ rest[M - 1] = filled
  BY <1>3, <1>4
<1>6. traded' = Report!Signed(rest[0])
  <2>1. /\ sums[1] = sums[0] + executions[1] /\ sums[0] \in 0..Size /\ executions[1] \in 1..Size
    <3>1. 1 \in 1..M /\ 1 - 1 = 0 /\ 0 \in 0..M
      BY <1>3
    <3>2. QED
      BY <1>3, <1>4, <3>1
  <2>2. CASE side = "sell"
    <3>1. traded = -sums[0] /\ Report!Signed(executions[1]) = -executions[1] /\ Report!Signed(rest[0]) = -sums[1]
      BY <1>4, <1>5, <2>2 DEF Report!Signed
    <3>2. -sums[0] + -executions[1] = -sums[1]
      <4> HIDE DEF rest
      <4>1. QED
        BY <2>1
    <3>3. QED
      BY <1>1, <3>1, <3>2
  <2>3. CASE side # "sell"
    <3>1. traded = sums[0] /\ Report!Signed(executions[1]) = executions[1] /\ Report!Signed(rest[0]) = sums[1]
      BY <1>4, <1>5, <2>3 DEF Report!Signed
    <3>2. QED
      BY <1>1, <2>1, <3>1
  <2>4. QED
    BY <2>2, <2>3
<1>7. ASSUME NEW k \in 1..M - 1
      PROVE  rest[k] = rest[k - 1] + executions'[k]
  <2>1. k + 1 \in 1..M /\ k \in 0..M - 1 /\ k - 1 \in 0..M - 1 /\ (k + 1) - 1 = k /\ (k - 1) + 1 = k
    BY <1>3
  <2>2. sums[k + 1] = sums[k] + executions[k + 1]
    BY <1>4, <2>1
  <2>3. QED
    BY <1>3, <2>1, <2>2
<1>8. \E s \in [0..Len(executions') -> 0..Size] :
        /\ traded' = Report!Signed(s[0]) /\ s[Len(executions')] = filled
        /\ \A k \in 1..Len(executions') : s[k] = s[k - 1] + executions'[k]
  <2> HIDE DEF rest
  <2>1. QED
    BY <1>3, <1>5, <1>6, <1>7
<1>9. TradesAddUp'
  BY <1>1, <1>2, <1>8 DEF ReportsInv, TradesAddUp, Report!Signed
<1>10. ReportsTyped' /\ ReportsChain' /\ RecordFollows'
  <2>1. ReportsTyped'
    BY <1>1, <1>3 DEF ReportsInv, ReportsTyped
  <2>2. ReportsChain'
    BY <1>1 DEF ReportsInv, ReportsChain
  <2>3. FilledSoFar' = FilledSoFar
    BY <1>1 DEF FilledSoFar
  <2>4. RecordFollows'
    BY <1>1, <2>3 DEF ReportsInv, RecordFollows, Report!Signed
  <2>5. QED
    BY <2>1, <2>2, <2>4
<1>11. QED
  BY <1>9, <1>10 DEF ReportsInv

\* The API fetches an order that is open at the exchange; by when it is received it may have
\* ended, and the history says so.
LEMMA LoadSteps ==
  ASSUME Report!OrderReportsAssumption, ReportsInv, Report!FetchOrders \/ Report!LoadOrder
  PROVE  ReportsInv'
<1>1. /\ filled \in 0..Size /\ Size \in Nat \ {0} /\ loads \in 0..MaxLoads /\ MaxLoads \in Nat
      /\ Absent \notin Report!Records /\ side \in {"buy", "sell"}
  BY HandledTyped DEF ReportsInv, ReportsTyped, Report!OrderReportsAssumption
<1>2. CASE Report!FetchOrders
  <2>1. /\ state = "open" /\ loads' \in 0..MaxLoads
        /\ fetched' = [status |-> "open", amount |-> Size, remaining |-> Size - filled,
                       filled |-> filled, last |-> 0]
        /\ UNCHANGED <<exchange, side, state, filled, reporting, executions, record, stamp, traded, loaded>>
    BY <1>1, <1>2 DEF Report!FetchOrders
  <2>2. fetched' \in Report!Report /\ fetched'.status = "open"
    BY <1>1, <2>1 DEF Report!Report, Report!Words
  <2>3. FilledSoFar' = FilledSoFar
    BY <2>1 DEF FilledSoFar
  <2>4. ReportsTyped'
    BY <2>1, <2>2 DEF ReportsInv, ReportsTyped
  <2>5. ReportsChain'
    BY <2>1 DEF ReportsInv, ReportsChain
  <2>6. TradesAddUp'
    BY <2>1, <2>3 DEF ReportsInv, TradesAddUp, Report!Signed
  <2>7. RecordFollows'
    BY <2>1, <2>3 DEF ReportsInv, RecordFollows, Report!Signed
  <2>8. QED
    BY <2>4, <2>5, <2>6, <2>7 DEF ReportsInv
<1>3. CASE Report!LoadOrder
  <2>1. PICK u : u = Report!ParseOrder(fetched)
    OBVIOUS
  <2>2. /\ fetched # Absent /\ fetched' = Absent /\ Report!Received(u) /\ loaded' = TRUE
        /\ UNCHANGED <<exchange, side, state, filled, reporting, executions, loads, stamp, traded>>
    BY <1>3, <2>1 DEF Report!LoadOrder
  <2>3. /\ fetched \in Report!Report /\ fetched.status = "open" /\ state # "none"
        /\ record = Absent \/ (record \in Report!Records /\ record.st \in {"open", "partial", "expired"})
    BY <2>2 DEF ReportsInv, ReportsTyped, RecordFollows
  <2>4. u \in Report!Records /\ u.st = "open"
    <3>1. Report!BaseStatus(fetched.status) = "open"
      BY <2>3 DEF Report!BaseStatus
    <3>2. u = [Report!Record("open", Report!Signed(fetched.amount), fetched.filled, 1)
                 EXCEPT !.tRej = Report!NoStamp, !.tCan = Report!NoStamp, !.tFil = Report!NoStamp]
      BY <2>1, <3>1 DEF Report!ParseOrder
    <3>3. Report!Record("open", Report!Signed(fetched.amount), fetched.filled, 1) \in Report!Records
      <4>1. fetched.filled \in Int /\ fetched.amount \in 0..Size /\ 1 \in Nat /\ Report!NoStamp \in Nat
        BY <1>1, <2>3 DEF Report!Report, Report!NoStamp
      <4>2. Report!Signed(fetched.amount) \in Int
        BY <1>1, <4>1 DEF Report!Signed
      <4>3. "open" \in Report!Status \cup {"trade"}
        BY DEF Report!Status
      <4>4. QED
        BY <4>1, <4>2, <4>3 DEF Report!Record, Report!Records
    <3>4. \A o \in Report!Records : /\ [o EXCEPT !.tRej = Report!NoStamp] \in Report!Records
                                   /\ [o EXCEPT !.tCan = Report!NoStamp] \in Report!Records
                                   /\ [o EXCEPT !.tFil = Report!NoStamp] \in Report!Records
      BY DEF Report!Records, Report!NoStamp
    <3>5. u.st = "open"
      BY <3>2 DEF Report!Record
    <3>6. QED
      BY <3>2, <3>3, <3>4, <3>5
  <2>5. record' # Absent /\ record' \in Report!Records /\ record'.st \in {"open", "partial", "expired"}
    <3>1. /\ record # Absent => record' \in {u, record}
          /\ record = Absent => record' = u
      BY <2>2, <2>3, <2>4, OrderReceived
    <3>2. QED
      BY <1>1, <2>3, <2>4, <3>1
  <2>6. FilledSoFar' = FilledSoFar
    BY <2>2 DEF FilledSoFar
  <2>7. ReportsTyped'
    BY <2>2, <2>5 DEF ReportsInv, ReportsTyped
  <2>8. ReportsChain'
    BY <2>2 DEF ReportsInv, ReportsChain
  <2>9. TradesAddUp'
    BY <2>2, <2>6 DEF ReportsInv, TradesAddUp, Report!Signed
  <2>10. RecordFollows'
    BY <2>2, <2>3, <2>5 DEF RecordFollows
  <2>11. QED
    BY <2>7, <2>8, <2>9, <2>10 DEF ReportsInv
<1>4. QED
  BY <1>2, <1>3

LEMMA ReportsStep ==
  ASSUME Report!OrderReportsAssumption, ReportsInv, [Report!Next]_(Report!vars)
  PROVE  ReportsInv'
<1>1. CASE UNCHANGED Report!vars
  <2>1. UNCHANGED <<exchange, side, state, filled, reporting, executions, fetched, loads, record, stamp, traded, loaded>>
    BY <1>1 DEF Report!vars
  <2>2. ReportsTyped'
    BY <2>1 DEF ReportsInv, ReportsTyped
  <2>3. ReportsChain'
    BY <2>1 DEF ReportsInv, ReportsChain
  <2>4. FilledSoFar' = FilledSoFar
    BY <2>1 DEF FilledSoFar
  <2>5. TradesAddUp'
    BY <2>1, <2>4 DEF ReportsInv, TradesAddUp, Report!Signed
  <2>6. RecordFollows'
    BY <2>1, <2>4 DEF ReportsInv, RecordFollows, Report!Signed
  <2>7. QED
    BY <2>2, <2>3, <2>5, <2>6 DEF ReportsInv
<1>2. CASE Report!Next
  <2>1. CASE ExchangeSteps
    BY <2>1, ExchangeStep
  <2>2. CASE Report!OnOrderInfo
    BY <2>2, OrderInfoStep
  <2>3. CASE Report!OnFills
    BY <2>3, FillsStep
  <2>4. CASE Report!FetchOrders \/ Report!LoadOrder
    BY <2>4, LoadSteps
  <2>5. QED
    BY <1>2, <2>1, <2>2, <2>3, <2>4 DEF Report!Next, ExchangeSteps
<1>3. QED
  BY <1>1, <1>2

LEMMA FeedsKeepReports ==
  ASSUME FeedsAssumption, ReportsInv, [FeedsNext]_feeds
  PROVE  ReportsInv'
<1>1. Report!OrderReportsAssumption
  BY DEF FeedsAssumption
<1>2. Report!Next \/ UNCHANGED reports
  BY DEF FeedsNext, feeds
<1>3. [Report!Next]_(Report!vars)
  BY <1>2 DEF reports, Report!vars
<1>4. QED
  BY <1>1, <1>3, ReportsStep

\* Once every report and fill of an order is handled the trades add up to what was filled and
\* the cache says of the order what the exchange last said of it, as far as the websocket of
\* that exchange can tell, whatever was filled, reported, fetched and loaded in which order
\* (the _get_* and _extract_* of the order websockets, ccxt_fetcher.py, Order.__or__).
THEOREM ReportsAlwaysAgree == ASSUME FeedsAssumption PROVE FeedsSpec => []ReportsAgree
<1>1. FeedsInit => ReportsInv
  BY ReportsInit DEF FeedsInit, FeedsAssumption
<1>2. ReportsInv /\ [FeedsNext]_feeds => ReportsInv'
  BY FeedsKeepReports
<1>3. ReportsInv => ReportsAgree
  BY ReportsSafe DEF FeedsAssumption, ReportsAgree
<1>4. QED
  BY <1>1, <1>2, <1>3, PTL DEF FeedsSpec

-----------------------------------------------------------------------------
(* The numbers made of the trades                                             *)

Recents == [time : 0..MaxTime, amount : Int]
Spans(c) == c.low <= c.open /\ c.open <= c.high /\ c.low <= c.close /\ c.close <= c.high
Windowed(trades, n) ==
  Flow!Total([k \in DOMAIN trades |-> IF Flow!IsRecent(trades[k], n) THEN trades[k].amount ELSE 0])

Deltas(trades, n) ==
  Flow!Total([k \in DOMAIN trades |-> IF Flow!IsRecent(trades[k], n) THEN trades[k].qty * trades[k].price ELSE 0])

FlowTyped ==
  /\ now \in 0..MaxTime /\ ltps \in Seq(Flow!Trade) /\ all \in Seq(Flow!Trade) /\ Len(all) <= MaxTrades
  /\ candle \in Flow!Candle \cup {None} /\ ohlc \in Seq(Flow!Candle) /\ Len(ohlc) <= OhlcLen
  /\ atrs \in Nat /\ (atrs > 0 => Len(ohlc) >= AtrLen)
  /\ volume \in Int /\ uncounted \in Int /\ cvd \in Int \cup {None} /\ book \in Books \cup {None}
  /\ window \in Seq(Recents)
  /\ run \in [Flow!Sides -> Flow!Run \cup {None}]
  /\ emitted \in [Flow!Sides -> Int] /\ firsts \in [Flow!Sides -> Int]
  /\ tick \in [Flow!Sides -> [nb : Nat, total : Int, last : Flow!Trade \cup {None}]]

CandlesSpan == /\ candle # None => Spans(candle)
               /\ \A k \in 1..Len(ohlc) : Spans(ohlc[k])

\* The volume of the candle that is open, or that is being closed
OpenVolume == IF candle = None THEN Flow!Volume(ltps) ELSE candle.volume
CandlesAddUp == volume + uncounted + OpenVolume = Flow!Volume(all)

FairFollows == IF book = None THEN fair = None ELSE fair = Flow!FairMid(book)

\* What the window has counts for as much as all trades do, now and later.
WindowAddsUp ==
  /\ \A n \in now..MaxTime : Windowed(window, n) = Deltas(all, n)
  /\ all # <<>> /\ all[Len(all)].time = now => cvd = Deltas(all, now)

\* The trades of a side, by their places, the quantity of some, and the last of one moment
Mine(trades, s) == {k \in DOMAIN trades : Flow!Side(trades[k].qty) = s}
QuantityOf(trades, ks) == Flow!Total([k \in DOMAIN trades |-> IF k \in ks THEN trades[k].qty ELSE 0])
Together(trades, ks) == {k \in ks : \A j \in ks : j >= k => trades[j].time = trades[Flow!Max(ks)].time}

RunAddsUp(s, ks) ==
  IF ks = {}
  THEN run[s] = None /\ emitted[s] = 0 /\ firsts[s] = 0
  ELSE run[s] # None /\ emitted[s] + run[s].qty = QuantityOf(all, ks) + firsts[s]

TickFollows(s, ks, latest) ==
  IF ks = {} THEN tick[s] = [nb |-> 0, total |-> 0, last |-> None]
  ELSE /\ tick[s].last = all[Flow!Max(ks)]
       /\ tick[s].nb = Cardinality(latest) - (IF latest = ks THEN 1 ELSE 0)
       /\ tick[s].total = QuantityOf(all, latest) - (IF latest = ks THEN all[Flow!Min(ks)].qty ELSE 0)

SidesFollow ==
  \A s \in Flow!Sides : /\ RunAddsUp(s, Mine(all, s))
                        /\ TickFollows(s, Mine(all, s), Together(all, Mine(all, s)))

HeardInTime == \A k \in 1..Len(all) : all[k].time \in 0..now

FlowInv == /\ FlowTyped /\ CandlesSpan /\ CandlesAddUp /\ FairFollows /\ WindowAddsUp
           /\ SidesFollow /\ HeardInTime

-----------------------------------------------------------------------------
\* A set of naturals that is not empty has a least element; so what holds of 0 and of k + 1
\* when it does of k holds up to n.  (With a set for what holds it is first-order.)
LEMMA LeastNat ==
  ASSUME NEW S \in SUBSET Nat, S # {}
  PROVE  \E x \in S : \A y \in S : x <= y
<1> DEFINE T == {0..m : m \in S}
<1>1. T \subseteq FiniteSubsetsOf(Nat) /\ T # {}
  <2>1. \A m \in Nat : IsFiniteSet(0..m) /\ 0..m \in SUBSET Nat
    BY FS_Interval
  <2>2. QED
    BY <2>1 DEF FiniteSubsetsOf
<1>2. PICK t \in T : \A u \in T : <<u, t>> \notin StrictSubsetOrdering(Nat)
  <2> HIDE DEF T
  <2>1. QED
    BY <1>1, FS_StrictSubsetOrderingWellFounded, WFMin
<1>3. PICK x \in S : t = 0..x
  BY <1>2
<1>4. ASSUME NEW y \in S, y < x PROVE FALSE
  <2>1. 0..y \subseteq 0..x /\ 0..y # 0..x /\ 0..y \in SUBSET Nat /\ 0..x \in SUBSET Nat
    <3>1. x \in 0..x /\ x \notin 0..y
      BY <1>4
    <3>2. QED
      BY <1>4, <3>1
  <2>2. <<0..y, 0..x>> \in StrictSubsetOrdering(Nat)
    BY <2>1 DEF StrictSubsetOrdering
  <2>3. QED
    BY <1>2, <1>3, <2>2
<1>5. QED
  BY <1>4

LEMMA UpTo ==
  ASSUME NEW S, NEW n \in Nat, 0 \in S, \A k \in 0..n - 1 : k \in S => k + 1 \in S
  PROVE  0..n \subseteq S
<1> DEFINE Bad == {m \in 0..n : m \notin S}
<1>1. ASSUME Bad # {} PROVE FALSE
  <2>1. PICK m \in Bad : \A y \in Bad : m <= y
    <3>1. Bad \in SUBSET Nat
      OBVIOUS
    <3> HIDE DEF Bad
    <3>2. QED
      BY <1>1, <3>1, LeastNat
  <2>2. m \in 0..n /\ m \notin S /\ m # 0
    BY <2>1
  <2>3. m - 1 \in 0..n - 1 /\ m - 1 \in 0..n /\ m - 1 + 1 = m /\ ~(m <= m - 1)
    BY <2>2
  <2>4. m - 1 \in S
    BY <2>1, <2>3
  <2>5. QED
    BY <2>2, <2>3, <2>4
<1>2. QED
  BY <1>1

\* The sums of the first elements of a sequence
SumsTo(f, seq, n) == f = [k \in 0..n |-> IF k = 0 THEN 0 ELSE f[k - 1] + seq[k]]

LEMMA SumsExist ==
  ASSUME NEW seq, NEW n \in Nat PROVE \E f : SumsTo(f, seq, n)
<1> DEFINE S == {m \in Nat : \E f : SumsTo(f, seq, m)}
<1>1. 0 \in S
  <2>1. SumsTo([k \in 0..0 |-> 0], seq, 0)
    BY DEF SumsTo
  <2>2. QED
    BY <2>1
<1>2. ASSUME NEW m \in 0..n - 1, m \in S PROVE m + 1 \in S
  <2>1. PICK f : SumsTo(f, seq, m)
    BY <1>2
  <2> DEFINE g == [k \in 0..m + 1 |-> IF k = m + 1 THEN f[m] + seq[m + 1] ELSE f[k]]
  <2>2. ASSUME NEW k \in 0..m + 1 PROVE g[k] = IF k = 0 THEN 0 ELSE g[k - 1] + seq[k]
    <3>1. \A j \in 0..m : f[j] = IF j = 0 THEN 0 ELSE f[j - 1] + seq[j]
      BY <2>1 DEF SumsTo
    <3>2. CASE k = m + 1
      BY <1>2, <3>2
    <3>3. CASE k # m + 1
      <4>1. k \in 0..m /\ g[k] = f[k]
        BY <3>3
      <4>2. k # 0 => k - 1 \in 0..m /\ k - 1 \in 0..m + 1 /\ k - 1 # m + 1 /\ g[k - 1] = f[k - 1]
        BY <4>1
      <4>3. QED
        BY <3>1, <4>1, <4>2
    <3>4. QED
      BY <3>2, <3>3
  <2>3. SumsTo(g, seq, m + 1)
    BY <2>2, Zenon DEF SumsTo
  <2>4. m + 1 \in Nat
    OBVIOUS
  <2>5. QED
    BY <2>3, <2>4
<1>3. n \in S
  <2> HIDE DEF S
  <2>1. 0..n \subseteq S /\ n \in 0..n
    BY <1>1, <1>2, UpTo
  <2>2. QED
    BY <2>1
<1>4. QED
  BY <1>3

LEMMA TotalSums ==
  ASSUME NEW seq, Len(seq) \in Nat
  PROVE  \E f : SumsTo(f, seq, Len(seq)) /\ Flow!Total(seq) = f[Len(seq)]
<1> DEFINE f == CHOOSE g : g = [k \in 0..Len(seq) |-> IF k = 0 THEN 0 ELSE g[k - 1] + seq[k]]
<1>1. f = [k \in 0..Len(seq) |-> IF k = 0 THEN 0 ELSE f[k - 1] + seq[k]]
  BY SumsExist, Zenon DEF SumsTo
<1>2. Flow!Total(seq) = f[Len(seq)]
  BY Zenon DEF Flow!Total
<1>3. SumsTo(f, seq, Len(seq))
  BY <1>1, Zenon DEF SumsTo
<1>4. QED
  BY <1>2, <1>3, Zenon

LEMMA OfLength ==
  ASSUME NEW S, NEW n \in Nat, NEW s \in [1..n -> S]
  PROVE  s \in Seq(S) /\ Len(s) = n /\ DOMAIN s = 1..n
<1>1. s \in Seq(S)
  BY SeqDef
<1>2. Len(s) \in Nat /\ DOMAIN s = 1..Len(s)
  BY <1>1, LenProperties
<1>3. QED
  BY <1>1, <1>2

\* The sums are integers.
LEMMA TotalOf ==
  ASSUME NEW n \in Nat, NEW s \in [1..n -> Int]
  PROVE  \E f \in [0..n -> Int] : /\ Flow!Total(s) = f[n] /\ f[0] = 0
                                  /\ \A k \in 1..n : f[k] = f[k - 1] + s[k]
<1>1. Len(s) = n
  BY OfLength
<1>2. PICK f : SumsTo(f, s, n) /\ Flow!Total(s) = f[n]
  BY <1>1, TotalSums
<1>3. f = [k \in 0..n |-> IF k = 0 THEN 0 ELSE f[k - 1] + s[k]]
  BY <1>2 DEF SumsTo
<1>4. f[0] = 0 /\ \A k \in 1..n : f[k] = f[k - 1] + s[k]
  <2>1. 0 \in 0..n /\ \A k \in 1..n : k \in 0..n /\ k # 0
    OBVIOUS
  <2>2. QED
    BY <1>3, <2>1
<1> DEFINE S == {k \in 0..n : f[k] \in Int}
<1>5. 0 \in S
  BY <1>4
<1>6. ASSUME NEW k \in 0..n - 1, k \in S PROVE k + 1 \in S
  <2>1. k + 1 \in 1..n /\ k + 1 \in 0..n /\ (k + 1) - 1 = k
    BY <1>6
  <2>2. f[k + 1] = f[k] + s[k + 1] /\ f[k] \in Int /\ s[k + 1] \in Int
    BY <1>4, <1>6, <2>1
  <2>3. QED
    BY <2>1, <2>2
<1>7. 0..n \subseteq S
  <2> HIDE DEF S
  <2>1. QED
    BY <1>5, <1>6, UpTo
<1>8. f \in [0..n -> Int]
  BY <1>3, <1>7
<1>9. QED
  BY <1>2, <1>4, <1>8

LEMMA TotalTyped ==
  ASSUME NEW n \in Nat, NEW s \in [1..n -> Int] PROVE Flow!Total(s) \in Int
<1>1. PICK f \in [0..n -> Int] : Flow!Total(s) = f[n]
  BY TotalOf
<1>2. QED
  BY <1>1

\* One more element adds to the sum, ...
LEMMA TotalExtends ==
  ASSUME NEW n \in Nat, NEW s \in [1..n -> Int], NEW t \in [1..n + 1 -> Int], \A k \in 1..n : t[k] = s[k]
  PROVE  Flow!Total(t) = Flow!Total(s) + t[n + 1]
<1>1. PICK f \in [0..n -> Int] : Flow!Total(s) = f[n] /\ f[0] = 0 /\ \A k \in 1..n : f[k] = f[k - 1] + s[k]
  BY TotalOf
<1>2. PICK g \in [0..n + 1 -> Int] :
         Flow!Total(t) = g[n + 1] /\ g[0] = 0 /\ \A k \in 1..n + 1 : g[k] = g[k - 1] + t[k]
  <2>1. PICK m \in Nat : m = n + 1
    OBVIOUS
  <2>2. t \in [1..m -> Int]
    BY <2>1
  <2>3. \E g \in [0..m -> Int] :
          Flow!Total(t) = g[m] /\ g[0] = 0 /\ \A k \in 1..m : g[k] = g[k - 1] + t[k]
    BY <2>2, TotalOf
  <2>4. QED
    BY <2>1, <2>3
<1> DEFINE S == {k \in 0..n : f[k] = g[k]}
<1>3. 0 \in S
  BY <1>1, <1>2
<1>4. ASSUME NEW k \in 0..n - 1, k \in S PROVE k + 1 \in S
  <2>1. k + 1 \in 1..n /\ k + 1 \in 1..n + 1 /\ k + 1 \in 0..n /\ (k + 1) - 1 = k
    BY <1>4
  <2>2. f[k + 1] = f[k] + s[k + 1] /\ g[k + 1] = g[k] + t[k + 1] /\ t[k + 1] = s[k + 1]
    BY <1>1, <1>2, <2>1
  <2>3. QED
    BY <1>4, <2>1, <2>2
<1>5. f[n] = g[n]
  <2>1. 0..n \subseteq S
    <3> HIDE DEF S
    <3>1. QED
      BY <1>3, <1>4, UpTo
  <2>2. QED
    BY <2>1
<1>6. n + 1 \in 1..n + 1 /\ (n + 1) - 1 = n
  OBVIOUS
<1>7. QED
  BY <1>1, <1>2, <1>5, <1>6

\* ... and zeros do not.
LEMMA TotalZero ==
  ASSUME NEW n \in Nat, NEW s \in [1..n -> Int], \A k \in 1..n : s[k] = 0
  PROVE  Flow!Total(s) = 0
<1>1. PICK f \in [0..n -> Int] : Flow!Total(s) = f[n] /\ f[0] = 0 /\ \A k \in 1..n : f[k] = f[k - 1] + s[k]
  BY TotalOf
<1> DEFINE S == {k \in 0..n : f[k] = 0}
<1>2. 0 \in S
  BY <1>1
<1>3. ASSUME NEW k \in 0..n - 1, k \in S PROVE k + 1 \in S
  <2>1. k + 1 \in 1..n /\ k + 1 \in 0..n /\ (k + 1) - 1 = k
    BY <1>3
  <2>2. f[k + 1] = f[k] + s[k + 1] /\ s[k + 1] = 0
    BY <1>1, <2>1
  <2>3. QED
    BY <1>3, <2>1, <2>2
<1>4. QED
  <2>1. 0..n \subseteq S
    <3> HIDE DEF S
    <3>1. QED
      BY <1>2, <1>3, UpTo
  <2>2. QED
    BY <1>1, <2>1

-----------------------------------------------------------------------------
\* The greatest and the least of a sequence
LEMMA Extremes ==
  ASSUME NEW S \in SUBSET Nat, NEW s \in Seq(S), s # <<>>
  PROVE  /\ Flow!Max(Flow!ToSet(s)) \in S /\ Flow!Min(Flow!ToSet(s)) \in S
         /\ \A k \in 1..Len(s) : Flow!Min(Flow!ToSet(s)) <= s[k] /\ s[k] <= Flow!Max(Flow!ToSet(s))
<1> DEFINE n == Len(s)
           R == Flow!ToSet(s)
<1>1. n \in Nat \ {0} /\ DOMAIN s = 1..n /\ \A k \in 1..n : s[k] \in S /\ s[k] \in Nat
  <2>1. n \in Nat /\ DOMAIN s = 1..n /\ n # 0
    BY EmptySeq, LenProperties
  <2>2. \A k \in 1..n : s[k] \in S
    BY ElementOfSeq
  <2>3. QED
    BY <2>1, <2>2
<1> HIDE DEF n
<1>2. R = {s[k] : k \in 1..n}
  BY <1>1 DEF Flow!ToSet
<1> HIDE DEF R
<1>3. R \in SUBSET Nat /\ R # {} /\ R \subseteq S
  BY <1>1, <1>2
<1>4. PICK x \in R : \A y \in R : x <= y
  BY <1>3, LeastNat
<1>5. Flow!Min(R) \in R /\ \A y \in R : Flow!Min(R) <= y
  BY <1>4 DEF Flow!Min
<1> DEFINE T == {k \in 0..n : k = 0 \/ \E i \in 1..k : \A j \in 1..k : s[j] <= s[i]}
<1>6. 0 \in T
  BY <1>1
<1>7. ASSUME NEW k \in 0..n - 1, k \in T PROVE k + 1 \in T
  <2>1. k + 1 \in 0..n /\ \A j \in 1..k + 1 : j \in 1..n /\ (j \in 1..k \/ j = k + 1)
    BY <1>1
  <2>2. CASE k = 0
    <3>1. \A j \in 1..k + 1 : s[j] <= s[1]
      BY <1>1, <2>1, <2>2
    <3>2. QED
      BY <2>1, <2>2, <3>1
  <2>3. CASE k # 0
    <3>1. PICK i \in 1..k : \A j \in 1..k : s[j] <= s[i]
      BY <1>7, <2>3
    <3>2. i \in 1..k + 1 /\ k + 1 \in 1..k + 1 /\ i \in 1..n /\ k + 1 \in 1..n
      BY <1>1, <3>1
    <3>3. CASE s[k + 1] <= s[i]
      BY <2>1, <3>1, <3>2, <3>3
    <3>4. CASE ~(s[k + 1] <= s[i])
      <4>1. \A j \in 1..k + 1 : s[j] <= s[k + 1]
        BY <1>1, <2>1, <3>1, <3>2, <3>4
      <4>2. QED
        BY <2>1, <3>2, <4>1
    <3>5. QED
      BY <3>3, <3>4
  <2>4. QED
    BY <2>2, <2>3
<1>8. PICK i \in 1..n : \A j \in 1..n : s[j] <= s[i]
  <2>1. 0..n \subseteq T
    <3> HIDE DEF T
    <3>1. QED
      BY <1>1, <1>6, <1>7, UpTo
  <2>2. n \in T
    <3>1. n \in 0..n
      BY <1>1
    <3> HIDE DEF T
    <3>2. QED
      BY <2>1, <3>1
  <2>3. QED
    BY <1>1, <2>2
<1>9. Flow!Max(R) \in R /\ \A y \in R : Flow!Max(R) >= y
  <2>1. s[i] \in R /\ \A y \in R : s[i] >= y
    BY <1>1, <1>2, <1>8
  <2>2. QED
    BY <2>1 DEF Flow!Max
<1>10. \A k \in 1..n : s[k] \in R /\ Flow!Min(R) \in Nat /\ Flow!Max(R) \in Nat
  BY <1>2, <1>3, <1>5, <1>9
<1>11. QED
  BY <1>1, <1>3, <1>5, <1>9, <1>10 DEF n, R

LEMMA TradeTyped ==
  ASSUME Flow!IndicatorsAssumption
  PROVE  \A x \in Flow!Trade : /\ x.qty \in Int \ {0} /\ Flow!Magnitude(x.qty) \in Int
                              /\ x.price \in Nat /\ x.time \in Nat /\ x.qty * x.price \in Int
<1> TAKE x \in Flow!Trade
<1>1. Quantities \subseteq Int \ {0} /\ Prices \subseteq Nat /\ MaxTime \in Nat
  BY DEF Flow!IndicatorsAssumption
<1>2. x.qty \in Int \ {0} /\ x.price \in Nat /\ x.time \in Nat
  <2>1. x.qty \in Quantities /\ x.price \in Prices /\ x.time \in 0..MaxTime
    BY DEF Flow!Trade
  <2>2. x.qty \in Int \ {0}
    BY <1>1, <2>1
  <2>3. x.price \in Nat
    BY <1>1, <2>1
  <2>4. x.time \in Nat
    BY <1>1, <2>1
  <2>5. QED
    BY <2>2, <2>3, <2>4
<1>3. QED
  BY <1>2 DEF Flow!Magnitude

\* The volume of one more trade, and of none
LEMMA VolumeAdds ==
  ASSUME Flow!IndicatorsAssumption, NEW trades \in Seq(Flow!Trade), NEW t \in Flow!Trade
  PROVE  /\ Flow!Volume(trades) \in Int /\ Flow!Magnitude(t.qty) \in Int
         /\ Flow!Volume(Append(trades, t)) = Flow!Volume(trades) + Flow!Magnitude(t.qty)
<1> DEFINE n == Len(trades)
           more == Append(trades, t)
           s == [k \in 1..n |-> Flow!Magnitude(trades[k].qty)]
           r == [k \in 1..n + 1 |-> Flow!Magnitude(more[k].qty)]
<1>1. \A x \in Flow!Trade : x.qty \in Int /\ Flow!Magnitude(x.qty) \in Int
  BY TradeTyped
<1>2. n \in Nat /\ DOMAIN trades = 1..n /\ \A k \in 1..n : trades[k] \in Flow!Trade
  BY LenProperties, ElementOfSeq
<1>3. more \in Seq(Flow!Trade) /\ DOMAIN more = 1..n + 1 /\ more[n + 1] = t /\ \A k \in 1..n : more[k] = trades[k]
  <2>1. more \in Seq(Flow!Trade) /\ Len(more) = n + 1 /\ more[n + 1] = t /\ \A k \in 1..n : more[k] = trades[k]
    BY AppendProperties
  <2>2. DOMAIN more = 1..Len(more)
    BY <2>1, LenProperties
  <2>3. QED
    BY <2>1, <2>2
<1>4. Flow!Volume(trades) = Flow!Total(s) /\ Flow!Volume(more) = Flow!Total(r)
  BY <1>2, <1>3 DEF Flow!Volume
<1> HIDE DEF n, more
<1>5. s \in [1..n -> Int]
  BY <1>1, <1>2
<1>6. r \in [1..n + 1 -> Int] /\ r[n + 1] = Flow!Magnitude(t.qty) /\ \A k \in 1..n : r[k] = s[k]
  <2>1. \A k \in 1..n : k \in 1..n + 1
    BY <1>2
  <2>2. n + 1 \in 1..n + 1 /\ \A k \in 1..n + 1 : k \in 1..n \/ k = n + 1
    BY <1>2
  <2>3. \A k \in 1..n + 1 : more[k] \in Flow!Trade
    BY <1>2, <1>3, <2>2
  <2>4. QED
    BY <1>1, <1>3, <2>1, <2>2, <2>3
<1> HIDE DEF s, r
<1>7. Flow!Total(r) = Flow!Total(s) + r[n + 1] /\ Flow!Total(s) \in Int
  BY <1>2, <1>5, <1>6, TotalExtends, TotalTyped
<1>8. QED
  BY <1>1, <1>4, <1>6, <1>7 DEF more

LEMMA NoVolume == Flow!Volume(<<>>) = 0
<1>1. DOMAIN <<>> = 1..0 /\ [k \in 1..0 |-> Flow!Magnitude(<<>>[k].qty)] \in [1..0 -> Int]
  OBVIOUS
<1>2. Flow!Volume(<<>>) = Flow!Total([k \in 1..0 |-> Flow!Magnitude(<<>>[k].qty)])
  BY <1>1, Zenon DEF Flow!Volume
<1>3. ASSUME NEW s \in [1..0 -> Int] PROVE Flow!Total(s) = 0
  <2>1. \A k \in 1..0 : s[k] = 0
    OBVIOUS
  <2>2. 0 \in Nat
    OBVIOUS
  <2>3. QED
    BY <2>1, <2>2, TotalZero
<1>4. QED
  BY <1>1, <1>2, <1>3, Zenon

\* The candle of some trades is one: it opens and closes between its low and its high.
LEMMA CandleOf ==
  ASSUME Flow!IndicatorsAssumption, NEW trades \in Seq(Flow!Trade), trades # <<>>
  PROVE  Flow!FromLtps(trades) \in Flow!Candle /\ Spans(Flow!FromLtps(trades))
<1> DEFINE n == Len(trades)
           prices == [k \in 1..n |-> trades[k].price]
<1>1. n \in Nat \ {0} /\ DOMAIN trades = 1..n
      /\ \A k \in 1..n : trades[k] \in Flow!Trade /\ trades[k].price \in Prices
  <2>1. n \in Nat /\ n # 0 /\ DOMAIN trades = 1..n
    BY EmptySeq, LenProperties
  <2>2. \A k \in 1..n : trades[k] \in Flow!Trade
    BY ElementOfSeq
  <2>3. QED
    BY <2>1, <2>2 DEF Flow!Trade
<1> HIDE DEF n
<1>2. prices \in Seq(Prices) /\ Len(prices) = n
  <2>1. prices \in [1..n -> Prices]
    BY <1>1
  <2> HIDE DEF prices
  <2>2. QED
    BY <1>1, <2>1, OfLength
<1>3. Head(prices) = prices[1] /\ Flow!Last(prices) = prices[n] /\ 1 \in 1..n /\ n \in 1..n /\ prices # <<>>
      /\ Head(trades) = trades[1]
  <2>1. prices # <<>>
    BY <1>1, <1>2, EmptySeq
  <2>2. Head(prices) = prices[1]
    BY <1>2, <2>1
  <2>3. QED
    BY <1>1, <1>2, <2>1, <2>2 DEF Flow!Last
<1>4. prices[1] \in Prices /\ prices[n] \in Prices /\ Prices \in SUBSET Nat
  BY <1>1, <1>3 DEF Flow!IndicatorsAssumption
<1>5. Flow!FromLtps(trades) = [time |-> trades[1].time, open |-> prices[1], close |-> prices[n],
         high |-> Flow!Max(Flow!ToSet(prices)), low |-> Flow!Min(Flow!ToSet(prices)), volume |-> Flow!Volume(trades)]
  BY <1>1, <1>3 DEF Flow!FromLtps
<1>6. /\ Flow!Max(Flow!ToSet(prices)) \in Prices /\ Flow!Min(Flow!ToSet(prices)) \in Prices
      /\ \A k \in 1..n : Flow!Min(Flow!ToSet(prices)) <= prices[k] /\ prices[k] <= Flow!Max(Flow!ToSet(prices))
  <2> HIDE DEF prices
  <2>1. QED
    BY <1>2, <1>3, <1>4, Extremes
<1>7. trades[1].time \in 0..MaxTime /\ Flow!Volume(trades) \in Int
  <2>1. trades[1] \in Flow!Trade
    BY <1>1, <1>3
  <2>2. QED
    BY <2>1, VolumeAdds DEF Flow!Trade
<1> HIDE DEF prices
<1>8. QED
  BY <1>3, <1>4, <1>5, <1>6, <1>7 DEF Flow!Candle, Spans

-----------------------------------------------------------------------------
\* What is counted for each element adds up.
CountOf(f, s) == Flow!Total([k \in DOMAIN s |-> f[s[k]]])

LEMMA TotalAppends ==
  ASSUME NEW S, NEW f \in [S -> Int], NEW s \in Seq(S), NEW x \in S
  PROVE  CountOf(f, s) \in Int /\ CountOf(f, Append(s, x)) = CountOf(f, s) + f[x]
<1> DEFINE n == Len(s)
           more == Append(s, x)
           g == [k \in DOMAIN s |-> f[s[k]]]
           h == [k \in DOMAIN more |-> f[more[k]]]
<1>1. n \in Nat /\ DOMAIN s = 1..n /\ \A k \in 1..n : s[k] \in S
  BY LenProperties, ElementOfSeq
<1>2. /\ DOMAIN more = 1..n + 1 /\ more[n + 1] = x /\ \A k \in 1..n : more[k] = s[k]
      /\ \A k \in 1..n + 1 : more[k] \in S
  <2>1. more \in Seq(S) /\ Len(more) = n + 1 /\ more[n + 1] = x /\ \A k \in 1..n : more[k] = s[k]
    BY AppendProperties
  <2>2. DOMAIN more = 1..Len(more) /\ \A k \in 1..Len(more) : more[k] \in S
    BY <2>1, LenProperties, ElementOfSeq
  <2>3. QED
    BY <2>1, <2>2
<1> HIDE DEF n, more
<1>3. g \in [1..n -> Int]
  BY <1>1
<1>4. h \in [1..n + 1 -> Int] /\ h[n + 1] = f[x] /\ \A k \in 1..n : h[k] = g[k]
  <2>1. n + 1 \in 1..n + 1 /\ \A k \in 1..n : k \in 1..n + 1
    BY <1>1
  <2>2. QED
    BY <1>1, <1>2, <2>1
<1>5. Flow!Total(g) \in Int /\ Flow!Total(h) = Flow!Total(g) + h[n + 1]
  <2> HIDE DEF g, h
  <2>1. QED
    BY <1>1, <1>3, <1>4, TotalExtends, TotalTyped
<1>6. CountOf(f, s) = Flow!Total(g) /\ CountOf(f, more) = Flow!Total(h)
  BY Zenon DEF CountOf
<1>7. QED
  BY <1>4, <1>5, <1>6 DEF more

LEMMA WindowedAdds ==
  ASSUME Flow!IndicatorsAssumption, NEW w \in Seq(Recents), NEW x \in Recents, NEW n \in Nat
  PROVE  /\ Windowed(w, n) \in Int
         /\ Windowed(Append(w, x), n) = Windowed(w, n) + (IF Flow!IsRecent(x, n) THEN x.amount ELSE 0)
<1> DEFINE f == [y \in Recents |-> IF Flow!IsRecent(y, n) THEN y.amount ELSE 0]
<1>1. f \in [Recents -> Int]
  BY DEF Recents
<1>2. \A s \in Seq(Recents) : Windowed(s, n) = CountOf(f, s)
  <2> TAKE s \in Seq(Recents)
  <2>1. \A k \in DOMAIN s : s[k] \in Recents
    BY ElementOfSeq, LenProperties
  <2>2. [k \in DOMAIN s |-> f[s[k]]]
          = [k \in DOMAIN s |-> IF Flow!IsRecent(s[k], n) THEN s[k].amount ELSE 0]
    BY <2>1
  <2>3. QED
    BY <2>2 DEF Windowed, CountOf
<1>3. Append(w, x) \in Seq(Recents)
  BY AppendProperties
<1>4. f[x] = IF Flow!IsRecent(x, n) THEN x.amount ELSE 0
  OBVIOUS
<1> HIDE DEF f
<1>5. CountOf(f, w) \in Int /\ CountOf(f, Append(w, x)) = CountOf(f, w) + f[x]
  BY <1>1, TotalAppends
<1>6. Windowed(w, n) = CountOf(f, w) /\ Windowed(Append(w, x), n) = CountOf(f, Append(w, x))
  BY <1>2, <1>3
<1>7. QED
  BY <1>4, <1>5, <1>6

LEMMA DeltasAdd ==
  ASSUME Flow!IndicatorsAssumption, NEW w \in Seq(Flow!Trade), NEW x \in Flow!Trade, NEW n \in Nat
  PROVE  /\ Deltas(w, n) \in Int
         /\ Deltas(Append(w, x), n) = Deltas(w, n) + (IF Flow!IsRecent(x, n) THEN x.qty * x.price ELSE 0)
<1> DEFINE f == [y \in Flow!Trade |-> IF Flow!IsRecent(y, n) THEN y.qty * y.price ELSE 0]
<1>1. f \in [Flow!Trade -> Int]
  <2>1. \A y \in Flow!Trade : y.qty * y.price \in Int
    BY TradeTyped
  <2>2. QED
    BY <2>1
<1>2. \A s \in Seq(Flow!Trade) : Deltas(s, n) = CountOf(f, s)
  <2> TAKE s \in Seq(Flow!Trade)
  <2>1. \A k \in DOMAIN s : s[k] \in Flow!Trade
    BY ElementOfSeq, LenProperties
  <2>2. [k \in DOMAIN s |-> f[s[k]]]
          = [k \in DOMAIN s |-> IF Flow!IsRecent(s[k], n) THEN s[k].qty * s[k].price ELSE 0]
    BY <2>1
  <2>3. QED
    BY <2>2 DEF Deltas, CountOf
<1>3. Append(w, x) \in Seq(Flow!Trade)
  BY AppendProperties
<1>4. f[x] = IF Flow!IsRecent(x, n) THEN x.qty * x.price ELSE 0
  OBVIOUS
<1> HIDE DEF f
<1>5. CountOf(f, w) \in Int /\ CountOf(f, Append(w, x)) = CountOf(f, w) + f[x]
  BY <1>1, TotalAppends
<1>6. Deltas(w, n) = CountOf(f, w) /\ Deltas(Append(w, x), n) = CountOf(f, Append(w, x))
  BY <1>2, <1>3
<1>7. QED
  BY <1>4, <1>5, <1>6

\* What is kept of the first elements when the recent ones are
KeptTo(f, s, n) ==
  f = [k \in 0..n |-> IF k = 0 THEN <<>>
                      ELSE IF Flow!IsRecent(s[k], now) THEN Append(f[k - 1], s[k]) ELSE f[k - 1]]

LEMMA KeptExists ==
  ASSUME NEW s, NEW n \in Nat PROVE \E f : KeptTo(f, s, n)
<1> DEFINE S == {m \in Nat : \E f : KeptTo(f, s, m)}
<1>1. 0 \in S
  <2>1. KeptTo([k \in 0..0 |-> <<>>], s, 0)
    BY DEF KeptTo
  <2>2. QED
    BY <2>1
<1>2. ASSUME NEW m \in 0..n - 1, m \in S PROVE m + 1 \in S
  <2>1. PICK f : KeptTo(f, s, m)
    BY <1>2
  <2>2. PICK grown : grown = IF Flow!IsRecent(s[m + 1], now) THEN Append(f[m], s[m + 1]) ELSE f[m]
    OBVIOUS
  <2> DEFINE g == [k \in 0..m + 1 |-> IF k = m + 1 THEN grown ELSE f[k]]
  <2>3. ASSUME NEW k \in 0..m + 1
        PROVE  g[k] = IF k = 0 THEN <<>>
                      ELSE IF Flow!IsRecent(s[k], now) THEN Append(g[k - 1], s[k]) ELSE g[k - 1]
    <3>1. \A j \in 0..m : f[j] = IF j = 0 THEN <<>>
                                 ELSE IF Flow!IsRecent(s[j], now) THEN Append(f[j - 1], s[j]) ELSE f[j - 1]
      BY <2>1 DEF KeptTo
    <3>2. CASE k = m + 1
      <4>1. g[k] = grown /\ k - 1 = m /\ g[m] = f[m] /\ k # 0
        BY <1>2, <3>2
      <4>2. QED
        BY <2>2, <3>2, <4>1, Zenon
    <3>3. CASE k # m + 1
      <4>1. k \in 0..m /\ g[k] = f[k]
        BY <3>3
      <4>2. k # 0 => g[k - 1] = f[k - 1]
        BY <4>1
      <4>3. QED
        BY <3>1, <4>1, <4>2, Zenon
    <3>4. QED
      BY <3>2, <3>3
  <2>4. KeptTo(g, s, m + 1)
    BY <2>3, Zenon DEF KeptTo
  <2>5. m + 1 \in Nat
    OBVIOUS
  <2>6. QED
    BY <2>4, <2>5
<1>3. n \in S
  <2> HIDE DEF S
  <2>1. 0..n \subseteq S /\ n \in 0..n
    BY <1>1, <1>2, UpTo
  <2>2. QED
    BY <2>1
<1>4. QED
  BY <1>3

LEMMA RecentKept ==
  ASSUME NEW s, Len(s) \in Nat
  PROVE  \E f : KeptTo(f, s, Len(s)) /\ Flow!Recent(s) = f[Len(s)]
<1> DEFINE f == CHOOSE g : KeptTo(g, s, Len(s))
<1>1. KeptTo(f, s, Len(s))
  BY KeptExists, Zenon
<1>2. Flow!Recent(s) = f[Len(s)]
  BY Zenon DEF Flow!Recent, KeptTo
<1>3. QED
  BY <1>1, <1>2, Zenon

\* The recent ones of a window count for as much as the window does, now and later; and when
\* its last one is recent there is one.
LEMMA RecentCounts ==
  ASSUME Flow!IndicatorsAssumption, now \in 0..MaxTime, NEW w \in Seq(Recents)
  PROVE  /\ Flow!Recent(w) \in Seq(Recents)
         /\ \A n \in now..MaxTime : Windowed(Flow!Recent(w), n) = Windowed(w, n)
         /\ Flow!Total([k \in DOMAIN Flow!Recent(w) |-> Flow!Recent(w)[k].amount]) = Windowed(Flow!Recent(w), now)
         /\ w # <<>> /\ Flow!IsRecent(w[Len(w)], now) => Flow!Recent(w) # <<>>
<1> DEFINE N == Len(w)
           P(k) == [i \in 1..k |-> w[i]]
<1>1. N \in Nat /\ DOMAIN w = 1..N /\ \A k \in 1..N : w[k] \in Recents
  BY LenProperties, ElementOfSeq
<1>2. PICK f : KeptTo(f, w, N) /\ Flow!Recent(w) = f[N]
  BY <1>1, RecentKept
<1>3. /\ f[0] = <<>>
      /\ \A k \in 1..N : f[k] = IF Flow!IsRecent(w[k], now) THEN Append(f[k - 1], w[k]) ELSE f[k - 1]
  <2>1. 0 \in 0..N /\ \A k \in 1..N : k \in 0..N /\ k # 0
    BY <1>1
  <2>2. QED
    BY <1>2, <2>1 DEF KeptTo
<1> HIDE DEF N
<1>4. \A k \in 0..N : P(k) \in Seq(Recents) /\ Len(P(k)) = k
  <2> TAKE k \in 0..N
  <2>1. k \in Nat /\ P(k) \in [1..k -> Recents]
    BY <1>1
  <2> HIDE DEF P
  <2>2. QED
    BY <2>1, OfLength
<1>5. P(N) = w /\ P(0) = <<>>
  <2>1. P(N) = w
    BY <1>1 DEF N
  <2>2. P(0) \in Seq(Recents) /\ Len(P(0)) = 0
    BY <1>1, <1>4
  <2>3. QED
    BY <2>1, <2>2, EmptySeq
<1>6. \A k \in 0..N - 1 : P(k + 1) = Append(P(k), w[k + 1])
  <2> TAKE k \in 0..N - 1
  <2>1. k \in 0..N /\ k + 1 \in 0..N /\ k + 1 \in 1..N /\ w[k + 1] \in Recents
    BY <1>1
  <2>2. /\ P(k) \in Seq(Recents) /\ Len(P(k)) = k /\ P(k + 1) \in Seq(Recents) /\ Len(P(k + 1)) = k + 1
        /\ \A i \in 1..k : P(k)[i] = w[i]
        /\ \A i \in 1..k + 1 : P(k + 1)[i] = w[i]
    BY <1>4, <2>1
  <2> HIDE DEF P
  <2>3. /\ Append(P(k), w[k + 1]) \in Seq(Recents) /\ Len(Append(P(k), w[k + 1])) = k + 1
        /\ Append(P(k), w[k + 1])[k + 1] = w[k + 1]
        /\ \A i \in 1..k : Append(P(k), w[k + 1])[i] = w[i]
    BY <2>1, <2>2, AppendProperties
  <2>4. \A i \in 1..k + 1 : P(k + 1)[i] = Append(P(k), w[k + 1])[i]
    <3>1. \A i \in 1..k + 1 : i \in 1..k \/ i = k + 1
      BY <2>1
    <3>2. QED
      BY <2>2, <2>3, <3>1
  <2>5. QED
    BY <2>2, <2>3, <2>4, SeqEqual
<1> DEFINE S == {k \in 0..N : /\ f[k] \in Seq(Recents)
                              /\ \A i \in 1..Len(f[k]) : Flow!IsRecent(f[k][i], now)
                              /\ \A n \in now..MaxTime : Windowed(f[k], n) = Windowed(P(k), n)}
<1>7. 0 \in S
  <2>1. <<>> \in Seq(Recents) /\ Len(<<>>) = 0 /\ 0 \in 0..N
    BY <1>1, EmptySeq
  <2>2. \A n \in now..MaxTime : Windowed(f[0], n) = Windowed(P(0), n)
    BY <1>3, <1>5
  <2>3. f[0] \in Seq(Recents) /\ \A i \in 1..Len(f[0]) : Flow!IsRecent(f[0][i], now)
    BY <1>3, <2>1
  <2> HIDE DEF P
  <2>4. QED
    BY <2>1, <2>2, <2>3
<1>8. ASSUME NEW k \in 0..N - 1, k \in S PROVE k + 1 \in S
  <2>1. /\ k \in 0..N /\ k + 1 \in 0..N /\ k + 1 \in 1..N /\ (k + 1) - 1 = k /\ w[k + 1] \in Recents
        /\ f[k] \in Seq(Recents) /\ \A i \in 1..Len(f[k]) : Flow!IsRecent(f[k][i], now)
        /\ \A n \in now..MaxTime : Windowed(f[k], n) = Windowed(P(k), n)
    BY <1>1, <1>8
  <2>2. f[k + 1] = IF Flow!IsRecent(w[k + 1], now) THEN Append(f[k], w[k + 1]) ELSE f[k]
    BY <1>3, <2>1
  <2>3. P(k) \in Seq(Recents) /\ P(k + 1) = Append(P(k), w[k + 1])
    BY <1>4, <1>6, <2>1
  <2> HIDE DEF P
  <2>4. ASSUME NEW n \in now..MaxTime
        PROVE  /\ Windowed(P(k), n) \in Int /\ n \in Nat
               /\ Windowed(P(k + 1), n) = Windowed(P(k), n) + (IF Flow!IsRecent(w[k + 1], n) THEN w[k + 1].amount ELSE 0)
               /\ Windowed(Append(f[k], w[k + 1]), n) = Windowed(f[k], n) + (IF Flow!IsRecent(w[k + 1], n) THEN w[k + 1].amount ELSE 0)
    <3>1. n \in Nat
      OBVIOUS
    <3>2. QED
      BY <2>1, <2>3, <3>1, WindowedAdds
  <2>5. CASE Flow!IsRecent(w[k + 1], now)
    <3>1. f[k + 1] = Append(f[k], w[k + 1])
      BY <2>2, <2>5
    <3>2. /\ Append(f[k], w[k + 1]) \in Seq(Recents) /\ Len(Append(f[k], w[k + 1])) = Len(f[k]) + 1 /\ Len(f[k]) \in Nat
          /\ Append(f[k], w[k + 1])[Len(f[k]) + 1] = w[k + 1]
          /\ \A i \in 1..Len(f[k]) : Append(f[k], w[k + 1])[i] = f[k][i]
      BY <2>1, AppendProperties, LenProperties
    <3>3. \A i \in 1..Len(f[k]) + 1 : Flow!IsRecent(Append(f[k], w[k + 1])[i], now)
      <4>1. \A i \in 1..Len(f[k]) + 1 : i \in 1..Len(f[k]) \/ i = Len(f[k]) + 1
        BY <3>2
      <4>2. QED
        BY <2>1, <2>5, <3>2, <4>1
    <3>4. \A n \in now..MaxTime : Windowed(f[k + 1], n) = Windowed(P(k + 1), n)
      BY <2>1, <2>4, <3>1
    <3>5. QED
      BY <2>1, <3>1, <3>2, <3>3, <3>4
  <2>6. CASE ~Flow!IsRecent(w[k + 1], now)
    <3>1. f[k + 1] = f[k]
      BY <2>2, <2>6
    <3>2. ASSUME NEW n \in now..MaxTime PROVE ~Flow!IsRecent(w[k + 1], n)
      <4>1. w[k + 1].time \in Nat /\ Window \in Nat /\ now \in Nat /\ n \in Nat /\ n >= now
        BY <2>1 DEF Recents, Flow!IndicatorsAssumption
      <4>2. QED
        BY <2>6, <4>1 DEF Flow!IsRecent
    <3>3. \A n \in now..MaxTime : Windowed(f[k + 1], n) = Windowed(P(k + 1), n)
      BY <2>1, <2>4, <3>1, <3>2
    <3>4. QED
      BY <2>1, <3>1, <3>3
  <2>7. QED
    BY <2>5, <2>6
<1>9. N \in S
  <2> HIDE DEF S
  <2>1. 0..N \subseteq S /\ N \in 0..N
    BY <1>1, <1>7, <1>8, UpTo
  <2>2. QED
    BY <2>1
<1>10. /\ f[N] \in Seq(Recents) /\ \A i \in 1..Len(f[N]) : Flow!IsRecent(f[N][i], now)
       /\ \A n \in now..MaxTime : Windowed(f[N], n) = Windowed(w, n)
  BY <1>5, <1>9
<1>11. Flow!Total([k \in DOMAIN f[N] |-> f[N][k].amount]) = Windowed(f[N], now)
  <2>1. DOMAIN f[N] = 1..Len(f[N])
    BY <1>10, LenProperties
  <2>2. [k \in DOMAIN f[N] |-> f[N][k].amount]
          = [k \in DOMAIN f[N] |-> IF Flow!IsRecent(f[N][k], now) THEN f[N][k].amount ELSE 0]
    BY <1>10, <2>1
  <2>3. QED
    BY <2>2 DEF Windowed
<1>12. ASSUME w # <<>>, Flow!IsRecent(w[N], now) PROVE f[N] # <<>>
  <2>1. N \in 1..N /\ N - 1 \in 0..N - 1 /\ N - 1 + 1 = N /\ N - 1 \in 0..N
    BY <1>1, <1>12, EmptySeq DEF N
  <2>2. f[N] = Append(f[N - 1], w[N])
    BY <1>3, <1>12, <2>1
  <2>3. f[N - 1] \in Seq(Recents)
    <3>1. 0..N \subseteq S
      <4> HIDE DEF S
      <4>1. QED
        BY <1>1, <1>7, <1>8, UpTo
    <3>2. QED
      BY <2>1, <3>1
  <2>4. Len(f[N]) = Len(f[N - 1]) + 1 /\ Len(f[N - 1]) \in Nat
    BY <1>1, <2>1, <2>2, <2>3, AppendProperties, LenProperties
  <2>5. QED
    BY <2>4, EmptySeq
<1>13. QED
  BY <1>2, <1>10, <1>11, <1>12 DEF N

LEMMA TotalOne == ASSUME NEW s \in [1..1 -> Int] PROVE Flow!Total(s) = s[1]
<1>1. 1 \in Nat
  OBVIOUS
<1>2. PICK f \in [0..1 -> Int] : Flow!Total(s) = f[1] /\ f[0] = 0 /\ \A k \in 1..1 : f[k] = f[k - 1] + s[k]
  BY <1>1, TotalOf
<1>3. f[1] = f[0] + s[1] /\ s[1] \in Int
  BY <1>2
<1>4. QED
  BY <1>2, <1>3

LEMMA LevelsTotal ==
  ASSUME NEW levels \in Flow!Levels
  PROVE  /\ Flow!Sum(levels) \in Int /\ Flow!Weighted(levels) \in Int
         /\ Head(levels) = levels[1] /\ levels[1][1] \in Nat /\ levels[1][2] \in Nat
         /\ Len(levels) = 1 => /\ Flow!Sum(levels) = levels[1][2]
                               /\ Flow!Weighted(levels) = levels[1][1] * levels[1][2]
<1> DEFINE n == Len(levels)
           sizes == [k \in 1..n |-> levels[k][2]]
           weights == [k \in 1..n |-> levels[k][1] * levels[k][2]]
<1>1. levels \in Seq((Nat \ {0}) \X (Nat \ {0})) /\ levels # <<>>
  BY DEF Flow!Levels
<1>2. /\ n \in Nat \ {0} /\ DOMAIN levels = 1..n
      /\ \A k \in 1..n : levels[k][1] \in Nat /\ levels[k][2] \in Nat
  <2>1. n \in Nat /\ n # 0 /\ DOMAIN levels = 1..n
    BY <1>1, EmptySeq, LenProperties
  <2>2. \A k \in 1..n : levels[k] \in (Nat \ {0}) \X (Nat \ {0})
    BY <1>1, ElementOfSeq
  <2>3. QED
    BY <2>1, <2>2
<1>3. Head(levels) = levels[1] /\ 1 \in 1..n
  BY <1>1, <1>2
<1> HIDE DEF n
<1>4. \A a, b \in Nat : a * b \in Int
  OBVIOUS
<1>5. sizes \in [1..n -> Int] /\ weights \in [1..n -> Int]
  BY <1>2, <1>4
<1>6. Flow!Sum(levels) = Flow!Total(sizes) /\ Flow!Weighted(levels) = Flow!Total(weights)
  BY <1>2 DEF Flow!Sum, Flow!Weighted
<1>7. sizes[1] = levels[1][2] /\ weights[1] = levels[1][1] * levels[1][2]
  BY <1>3
<1> HIDE DEF sizes, weights
<1>8. Flow!Total(sizes) \in Int /\ Flow!Total(weights) \in Int
  BY <1>2, <1>5, TotalTyped
<1>9. n = 1 => Flow!Total(sizes) = sizes[1] /\ Flow!Total(weights) = weights[1]
  BY <1>5, TotalOne
<1>10. QED
  BY <1>2, <1>3, <1>6, <1>7, <1>8, <1>9 DEF n

\* The fair price is a fraction; of a book of one level it is above the mid when the bid is bigger.
LEMMA FairOf ==
  ASSUME Flow!IndicatorsAssumption, NEW b \in Books
  PROVE  /\ Flow!FairMid(b) \in Flow!Fraction /\ Flow!FairMid(b) # None
         /\ Len(b.bids) = 1 /\ Len(b.asks) = 1 =>
              (Head(b.bids)[2] > Head(b.asks)[2]
                 <=> 2 * Flow!FairMid(b).num > (Head(b.bids)[1] + Head(b.asks)[1]) * Flow!FairMid(b).den)
<1>1. b.bids \in Flow!Levels /\ b.asks \in Flow!Levels /\ Head(b.bids)[1] < Head(b.asks)[1]
  BY DEF Flow!IndicatorsAssumption
<1>2. PICK p \in Nat, q \in Nat, r \in Nat, t \in Nat :
         /\ p = Head(b.bids)[1] /\ q = Head(b.bids)[2] /\ r = Head(b.asks)[1] /\ t = Head(b.asks)[2]
         /\ p < r
         /\ Len(b.bids) = 1 => Flow!Sum(b.bids) = q /\ Flow!Weighted(b.bids) = p * q
         /\ Len(b.asks) = 1 => Flow!Sum(b.asks) = t /\ Flow!Weighted(b.asks) = r * t
  <2>1. /\ Head(b.bids) = b.bids[1] /\ b.bids[1][1] \in Nat /\ b.bids[1][2] \in Nat
        /\ Len(b.bids) = 1 => /\ Flow!Sum(b.bids) = b.bids[1][2]
                              /\ Flow!Weighted(b.bids) = b.bids[1][1] * b.bids[1][2]
    BY <1>1, LevelsTotal
  <2>2. /\ Head(b.asks) = b.asks[1] /\ b.asks[1][1] \in Nat /\ b.asks[1][2] \in Nat
        /\ Len(b.asks) = 1 => /\ Flow!Sum(b.asks) = b.asks[1][2]
                              /\ Flow!Weighted(b.asks) = b.asks[1][1] * b.asks[1][2]
    BY <1>1, LevelsTotal
  <2>3. QED
    BY <1>1, <2>1, <2>2
<1>3. PICK size \in Int, wb \in Int, wa \in Int :
         /\ size = Flow!Sum(b.bids) + Flow!Sum(b.asks) /\ wb = Flow!Weighted(b.bids) /\ wa = Flow!Weighted(b.asks)
  BY <1>1, LevelsTotal
<1>4. Flow!FairMid(b) = [num |-> (p + r) * size - wb - wa, den |-> size]
  BY <1>2, <1>3 DEF Flow!FairMid
<1>5. (p + r) * size - wb - wa \in Int
  BY <1>2, <1>3
<1>6. Flow!FairMid(b) \in Flow!Fraction
  BY <1>3, <1>4, <1>5 DEF Flow!Fraction
<1>7. Flow!FairMid(b) # None
  BY <1>6 DEF Flow!IndicatorsAssumption
<1>8. ASSUME Len(b.bids) = 1, Len(b.asks) = 1
      PROVE  q > t <=> 2 * Flow!FairMid(b).num > (p + r) * Flow!FairMid(b).den
  <2>1. Flow!FairMid(b).num = (p + r) * (q + t) - p * q - r * t /\ Flow!FairMid(b).den = q + t
    BY <1>2, <1>3, <1>4, <1>8
  <2>2. 2 * ((p + r) * (q + t) - p * q - r * t) - (p + r) * (q + t) = (r - p) * (q - t)
    <3>1. \A u, v, w, z \in Nat :
             2 * ((u + w) * (v + z) - u * v - w * z) - (u + w) * (v + z) = (w - u) * (v - z)
      OBVIOUS
    <3>2. QED
      BY <3>1
  <2>3. PICK x \in Int, y \in Int : x = 2 * ((p + r) * (q + t) - p * q - r * t) /\ y = (p + r) * (q + t)
    BY <1>2
  <2>4. x > y <=> (r - p) * (q - t) > 0
    BY <2>2, <2>3
  <2>5. \A u, v \in Int : u > 0 => (u * v > 0 <=> v > 0)
    OBVIOUS
  <2>6. r - p > 0 /\ r - p \in Int /\ q - t \in Int
    BY <1>2
  <2>7. (r - p) * (q - t) > 0 <=> q - t > 0
    BY <2>5, <2>6
  <2>8. QED
    BY <2>1, <2>3, <2>4, <2>7
<1>9. QED
  BY <1>2, <1>6, <1>7, <1>8

-----------------------------------------------------------------------------
\* The last and the first of some places, and of one more
LEMMA Places ==
  ASSUME NEW n \in Nat, NEW ks \in SUBSET (1..n)
  PROVE  /\ ks # {} => /\ Flow!Max(ks) \in ks /\ \A k \in ks : k <= Flow!Max(ks)
                       /\ Flow!Min(ks) \in ks
         /\ Flow!Max(ks \cup {n + 1}) = n + 1
         /\ Flow!Min(ks \cup {n + 1}) = IF ks = {} THEN n + 1 ELSE Flow!Min(ks)
         /\ n + 1 \notin ks /\ IsFiniteSet(ks)
<1>1. n + 1 \notin ks /\ ks \in SUBSET Nat /\ \A k \in ks : k \in 1..n
  OBVIOUS
<1>2. IsFiniteSet(ks)
  <2>1. IsFiniteSet(1..n)
    BY FS_Interval
  <2>2. QED
    BY <2>1, FS_Subset
<1>3. ASSUME ks # {} PROVE /\ Flow!Max(ks) \in ks /\ \A k \in ks : k <= Flow!Max(ks)
  <2> DEFINE above == {m \in 0..n : \A k \in ks : k <= m}
  <2>1. above \in SUBSET Nat /\ n \in above
    BY <1>1
  <2>2. PICK m \in above : \A y \in above : m <= y
    <3> HIDE DEF above
    <3>1. above # {}
      BY <2>1
    <3>2. QED
      BY <2>1, <3>1, LeastNat
  <2>3. m \in 0..n /\ \A k \in ks : k <= m
    BY <2>2
  <2>4. m \in ks
    <3>1. ASSUME m \notin ks PROVE FALSE
      <4>1. m # 0
        <5>1. PICK k \in ks : TRUE
          BY <1>3
        <5>2. k \in 1..n /\ k <= m
          BY <1>1, <2>3
        <5>3. QED
          BY <5>2
      <4>2. m - 1 \in 0..n /\ \A k \in ks : k <= m - 1
        BY <1>1, <2>3, <3>1, <4>1
      <4>3. m <= m - 1
        BY <2>2, <4>2
      <4>4. QED
        BY <2>3, <4>3
    <3>2. QED
      BY <3>1
  <2>5. m \in ks /\ \A k \in ks : m >= k
    BY <1>1, <2>3, <2>4
  <2>6. Flow!Max(ks) \in ks /\ \A k \in ks : Flow!Max(ks) >= k
    BY <2>5 DEF Flow!Max
  <2>7. QED
    BY <1>1, <2>6
<1>4. ASSUME ks # {} PROVE Flow!Min(ks) \in ks /\ \A k \in ks : Flow!Min(ks) <= k
  <2>1. PICK m \in ks : \A y \in ks : m <= y
    BY <1>1, <1>4, LeastNat
  <2>2. QED
    BY <2>1 DEF Flow!Min
<1>5. Flow!Max(ks \cup {n + 1}) = n + 1
  <2>1. n + 1 \in ks \cup {n + 1} /\ \A k \in ks \cup {n + 1} : n + 1 >= k
    BY <1>1
  <2>2. \A m \in ks \cup {n + 1} : (\A k \in ks \cup {n + 1} : m >= k) => m = n + 1
    BY <1>1
  <2>3. QED
    BY <2>1, <2>2 DEF Flow!Max
<1>6. Flow!Min(ks \cup {n + 1}) = IF ks = {} THEN n + 1 ELSE Flow!Min(ks)
  <2>1. PICK m : m = IF ks = {} THEN n + 1 ELSE Flow!Min(ks)
    OBVIOUS
  <2>2. m \in ks \cup {n + 1} /\ \A k \in ks \cup {n + 1} : m <= k
    BY <1>1, <1>4, <2>1
  <2>3. \A l \in ks \cup {n + 1} : (\A k \in ks \cup {n + 1} : l <= k) => l = m
    BY <1>1, <2>2
  <2>4. Flow!Min(ks \cup {n + 1}) = m
    BY <2>2, <2>3 DEF Flow!Min
  <2>5. QED
    BY <2>1, <2>4
<1>7. QED
  BY <1>1, <1>2, <1>3, <1>4, <1>5, <1>6

\* A trade more: the places of its side are one more, and the others the same.
LEMMA MineGrow ==
  ASSUME Flow!IndicatorsAssumption, NEW trades \in Seq(Flow!Trade), NEW t \in Flow!Trade, NEW s \in Flow!Sides
  PROVE  /\ Mine(trades, s) \in SUBSET (1..Len(trades)) /\ Len(trades) \in Nat
         /\ Append(trades, t)[Len(trades) + 1] = t /\ Len(Append(trades, t)) = Len(trades) + 1
         /\ \A k \in 1..Len(trades) : Append(trades, t)[k] = trades[k] /\ trades[k] \in Flow!Trade
         /\ Flow!Side(t.qty) \in Flow!Sides
         /\ s = Flow!Side(t.qty) => Mine(Append(trades, t), s) = Mine(trades, s) \cup {Len(trades) + 1}
         /\ s # Flow!Side(t.qty) => Mine(Append(trades, t), s) = Mine(trades, s)
<1> DEFINE n == Len(trades)
           more == Append(trades, t)
<1>1. n \in Nat /\ DOMAIN trades = 1..n /\ \A k \in 1..n : trades[k] \in Flow!Trade
  BY LenProperties, ElementOfSeq
<1>2. Len(more) = n + 1 /\ DOMAIN more = 1..n + 1 /\ more[n + 1] = t /\ \A k \in 1..n : more[k] = trades[k]
  <2>1. more \in Seq(Flow!Trade) /\ Len(more) = n + 1 /\ more[n + 1] = t /\ \A k \in 1..n : more[k] = trades[k]
    BY AppendProperties
  <2>2. DOMAIN more = 1..Len(more)
    BY <2>1, LenProperties
  <2>3. QED
    BY <2>1, <2>2
<1> HIDE DEF n, more
<1>3. 1..n + 1 = 1..n \cup {n + 1} /\ n + 1 \notin 1..n
  BY <1>1
<1>4. Mine(trades, s) = {k \in 1..n : Flow!Side(trades[k].qty) = s}
  BY <1>1 DEF Mine
<1>5. Mine(more, s) = {k \in 1..n + 1 : Flow!Side(more[k].qty) = s}
  BY <1>2 DEF Mine
<1>6. \A k \in 1..n + 1 : k \in Mine(more, s) <=> (k \in Mine(trades, s) \/ (k = n + 1 /\ s = Flow!Side(t.qty)))
  <2> TAKE k \in 1..n + 1
  <2>1. CASE k = n + 1
    BY <1>2, <1>3, <1>4, <1>5, <2>1
  <2>2. CASE k \in 1..n
    BY <1>2, <1>3, <1>4, <1>5, <2>2
  <2>3. QED
    BY <1>3, <2>1, <2>2
<1>7. Flow!Side(t.qty) \in Flow!Sides
  BY DEF Flow!Side, Flow!Sides
<1>8. Mine(more, s) \subseteq 1..n + 1 /\ Mine(trades, s) \subseteq 1..n
  BY <1>4, <1>5
<1>9. s = Flow!Side(t.qty) => Mine(more, s) = Mine(trades, s) \cup {n + 1}
  BY <1>3, <1>6, <1>8
<1>10. s # Flow!Side(t.qty) => Mine(more, s) = Mine(trades, s)
  BY <1>3, <1>6, <1>8
<1>11. QED
  BY <1>1, <1>2, <1>7, <1>8, <1>9, <1>10 DEF n, more

LEMMA QuantityGrows ==
  ASSUME Flow!IndicatorsAssumption, NEW trades \in Seq(Flow!Trade), NEW t \in Flow!Trade,
         NEW ks \in SUBSET (1..Len(trades))
  PROVE  /\ QuantityOf(trades, ks) \in Int
         /\ ks = {} => QuantityOf(trades, ks) = 0
         /\ QuantityOf(Append(trades, t), ks) = QuantityOf(trades, ks)
         /\ QuantityOf(Append(trades, t), ks \cup {Len(trades) + 1}) = QuantityOf(trades, ks) + t.qty
<1> DEFINE n == Len(trades)
           more == Append(trades, t)
           g == [k \in 1..n |-> IF k \in ks THEN trades[k].qty ELSE 0]
           same == [k \in 1..n + 1 |-> IF k \in ks THEN more[k].qty ELSE 0]
           one == [k \in 1..n + 1 |-> IF k \in ks \cup {n + 1} THEN more[k].qty ELSE 0]
<1>1. /\ n \in Nat /\ DOMAIN trades = 1..n /\ DOMAIN more = 1..n + 1 /\ more[n + 1] = t
      /\ \A k \in 1..n : more[k] = trades[k] /\ trades[k].qty \in Int
  <2>1. more \in Seq(Flow!Trade) /\ Len(more) = n + 1 /\ more[n + 1] = t /\ \A k \in 1..n : more[k] = trades[k]
    BY AppendProperties
  <2>2. n \in Nat /\ DOMAIN trades = 1..n /\ DOMAIN more = 1..Len(more) /\ \A k \in 1..n : trades[k] \in Flow!Trade
    BY <2>1, LenProperties, ElementOfSeq
  <2>3. QED
    BY <2>1, <2>2, TradeTyped
<1>2. t.qty \in Int
  BY TradeTyped
<1>3. /\ QuantityOf(trades, ks) = Flow!Total(g) /\ QuantityOf(more, ks) = Flow!Total(same)
      /\ QuantityOf(more, ks \cup {n + 1}) = Flow!Total(one)
  BY <1>1 DEF QuantityOf
<1>4. ks \in SUBSET (1..n)
  OBVIOUS
<1> HIDE DEF n, more
<1>5. n + 1 \notin ks /\ n + 1 \in 1..n + 1 /\ \A k \in 1..n : k \in 1..n + 1 /\ k # n + 1
  BY <1>1, <1>4
<1>6. \A k \in 1..n + 1 : more[k].qty \in Int
  <2>1. \A k \in 1..n + 1 : k \in 1..n \/ k = n + 1
    BY <1>1
  <2>2. QED
    BY <1>1, <1>2, <2>1
<1>7. g \in [1..n -> Int] /\ same \in [1..n + 1 -> Int] /\ one \in [1..n + 1 -> Int]
  BY <1>1, <1>6
<1>8. /\ \A k \in 1..n : same[k] = g[k] /\ one[k] = g[k]
      /\ same[n + 1] = 0 /\ one[n + 1] = t.qty
  BY <1>1, <1>5
<1>9. ks = {} => \A k \in 1..n : g[k] = 0
  OBVIOUS
<1> HIDE DEF g, same, one
<1>10. Flow!Total(g) \in Int /\ (ks = {} => Flow!Total(g) = 0)
  BY <1>1, <1>7, <1>9, TotalTyped, TotalZero
<1>11. Flow!Total(same) = Flow!Total(g) + same[n + 1] /\ Flow!Total(one) = Flow!Total(g) + one[n + 1]
  BY <1>1, <1>7, <1>8, TotalExtends
<1>12. QED
  BY <1>2, <1>3, <1>8, <1>10, <1>11 DEF n, more

LEMMA TogetherGrows ==
  ASSUME NEW trades \in Seq(Flow!Trade), NEW t \in Flow!Trade, NEW ks \in SUBSET (1..Len(trades))
  PROVE  /\ Together(trades, ks) \in SUBSET ks
         /\ Together(Append(trades, t), ks) = Together(trades, ks)
         /\ ks # {} /\ t.time = trades[Flow!Max(ks)].time =>
              Together(Append(trades, t), ks \cup {Len(trades) + 1}) = Together(trades, ks) \cup {Len(trades) + 1}
         /\ ks = {} \/ t.time # trades[Flow!Max(ks)].time =>
              Together(Append(trades, t), ks \cup {Len(trades) + 1}) = {Len(trades) + 1}
<1> DEFINE n == Len(trades)
           more == Append(trades, t)
<1>0. n \in Nat /\ ks \in SUBSET (1..n) /\ more[n + 1] = t /\ \A k \in 1..n : more[k] = trades[k]
  BY LenProperties, AppendProperties
<1> HIDE DEF n, more
<1>1. /\ ks # {} => Flow!Max(ks) \in ks /\ \A k \in ks : k <= Flow!Max(ks)
      /\ Flow!Max(ks \cup {n + 1}) = n + 1 /\ n + 1 \notin ks /\ \A k \in ks : k \in 1..n /\ k <= n + 1 /\ ~(k >= n + 1)
  <2>1. /\ ks # {} => Flow!Max(ks) \in ks /\ \A k \in ks : k <= Flow!Max(ks)
        /\ Flow!Max(ks \cup {n + 1}) = n + 1 /\ n + 1 \notin ks
    BY <1>0, Places
  <2>2. \A k \in ks : k \in 1..n
    BY <1>0
  <2>3. \A k \in 1..n : k <= n + 1 /\ ~(k >= n + 1)
    BY <1>0
  <2>4. QED
    BY <2>1, <2>2, <2>3
<1>2. \A k \in ks : more[k] = trades[k]
  BY <1>0, <1>1
<1>3. Together(trades, ks) \in SUBSET ks
  BY DEF Together
<1>4. Together(more, ks) = Together(trades, ks)
  <2>1. CASE ks = {}
    BY <2>1 DEF Together
  <2>2. CASE ks # {}
    BY <1>1, <1>2, <2>2 DEF Together
  <2>3. QED
    BY <2>1, <2>2
<1> DEFINE m == n + 1
<1>5. Together(more, ks \cup {m}) = {k \in ks \cup {m} : \A j \in ks \cup {m} : j >= k => more[j].time = more[m].time}
  BY <1>1 DEF Together
<1>6. m >= m /\ m \in Nat /\ \A k \in ks : m >= k /\ ~(k >= m) /\ k # m /\ k \in Nat
  BY <1>0, <1>1
<1>7. m \in Together(more, ks \cup {m})
  BY <1>5, <1>6
<1> HIDE DEF m
<1>8. ASSUME ks # {}, more[m].time = trades[Flow!Max(ks)].time
      PROVE  Together(more, ks \cup {m}) = Together(trades, ks) \cup {m}
  <2>1. Together(trades, ks) = {k \in ks : \A j \in ks : j >= k => more[j].time = more[m].time}
    BY <1>2, <1>8 DEF Together
  <2>2. \A k \in ks : k \in Together(more, ks \cup {m}) <=> k \in Together(trades, ks)
    <3> TAKE k \in ks
    <3>1. k \in Together(more, ks \cup {m}) <=> \A j \in ks \cup {m} : j >= k => more[j].time = more[m].time
      BY <1>5
    <3>2. (\A j \in ks \cup {m} : j >= k => more[j].time = more[m].time)
            <=> (\A j \in ks : j >= k => more[j].time = more[m].time)
      OBVIOUS
    <3>3. QED
      BY <2>1, <3>1, <3>2
  <2>3. Together(more, ks \cup {m}) \subseteq ks \cup {m}
    BY <1>5
  <2>4. QED
    BY <1>3, <1>7, <2>2, <2>3
<1>9. ASSUME ks = {} \/ more[m].time # trades[Flow!Max(ks)].time
      PROVE  Together(more, ks \cup {m}) = {m}
  <2>1. ASSUME NEW k \in ks, k \in Together(more, ks \cup {m}) PROVE FALSE
    <3>1. Flow!Max(ks) \in ks /\ Flow!Max(ks) >= k /\ more[Flow!Max(ks)] = trades[Flow!Max(ks)]
      BY <1>1, <1>2, <1>6, <2>1
    <3>2. more[Flow!Max(ks)].time = more[m].time
      BY <1>5, <2>1, <3>1
    <3>3. QED
      BY <1>9, <2>1, <3>1, <3>2
  <2>2. Together(more, ks \cup {m}) \subseteq ks \cup {m}
    BY <1>5
  <2>3. QED
    BY <1>7, <2>1, <2>2
<1>10. QED
  BY <1>0, <1>3, <1>4, <1>8, <1>9 DEF m, n, more

LEMMA TakenInOf ==
  ASSUME NEW r \in Flow!Run, NEW t \in Flow!Run
  PROVE  Flow!TakenIn(r, t) \in Flow!Run /\ Flow!TakenIn(r, t).qty = r.qty + t.qty
<1>1. r.qty \in Int /\ t.qty \in Int /\ t.time \in 0..MaxTime
  BY DEF Flow!Run
<1>2. PICK q : q = [r EXCEPT !.time = t.time]
  OBVIOUS
<1>3. q \in Flow!Run /\ q.qty = r.qty
  BY <1>1, <1>2 DEF Flow!Run
<1>4. PICK i \in Int : i = r.qty + t.qty
  BY <1>1
<1>5. [q EXCEPT !.qty = i] \in Flow!Run /\ [q EXCEPT !.qty = i].qty = i
  BY <1>3 DEF Flow!Run
<1>6. Flow!TakenIn(r, t) = [q EXCEPT !.qty = i]
  BY <1>2, <1>3, <1>4 DEF Flow!TakenIn
<1>7. QED
  BY <1>4, <1>5, <1>6

\* A trade is heard: a run and a tick of its side go on or begin, and of the other stay.
LEMMA SidesStep ==
  ASSUME Flow!IndicatorsAssumption, FlowInv, NEW t \in Flow!Trade, all' = Append(all, t),
         Flow!ImpactOnTrade(t), Flow!TickOnTrade(t)
  PROVE  /\ SidesFollow'
         /\ run' \in [Flow!Sides -> Flow!Run \cup {None}]
         /\ emitted' \in [Flow!Sides -> Int] /\ firsts' \in [Flow!Sides -> Int]
         /\ tick' \in [Flow!Sides -> [nb : Nat, total : Int, last : Flow!Trade \cup {None}]]
<1>0. PICK n, mine, ks, latest :
         n = Len(all) /\ mine = Flow!Side(t.qty) /\ ks = Mine(all, mine) /\ latest = Together(all, ks)
  OBVIOUS
<1>1. /\ all \in Seq(Flow!Trade) /\ all' \in Seq(Flow!Trade) /\ run \in [Flow!Sides -> Flow!Run \cup {None}]
      /\ emitted \in [Flow!Sides -> Int] /\ firsts \in [Flow!Sides -> Int]
      /\ tick \in [Flow!Sides -> [nb : Nat, total : Int, last : Flow!Trade \cup {None}]]
      /\ mine \in Flow!Sides
  BY <1>0, AppendProperties DEF FlowInv, FlowTyped, Flow!Sides, Flow!Side
<1>2. \A s \in Flow!Sides :
        /\ Mine(all, s) \in SUBSET (1..n) /\ n \in Nat
        /\ all'[n + 1] = t /\ \A k \in 1..n : all'[k] = all[k] /\ all[k] \in Flow!Trade
        /\ s = mine => Mine(all', s) = Mine(all, s) \cup {n + 1}
        /\ s # mine => Mine(all', s) = Mine(all, s)
  BY <1>0, <1>1, MineGrow
<1>3. \A js \in SUBSET (1..n) :
        /\ QuantityOf(all, js) \in Int /\ (js = {} => QuantityOf(all, js) = 0)
        /\ QuantityOf(all', js) = QuantityOf(all, js)
        /\ QuantityOf(all', js \cup {n + 1}) = QuantityOf(all, js) + t.qty
  <2> TAKE js \in SUBSET (1..n)
  <2>0. all \in Seq(Flow!Trade)
    BY <1>1
  <2>1. js \in SUBSET (1..Len(all))
    BY <1>0
  <2>2. /\ QuantityOf(all, js) \in Int /\ (js = {} => QuantityOf(all, js) = 0)
        /\ QuantityOf(Append(all, t), js) = QuantityOf(all, js)
        /\ QuantityOf(Append(all, t), js \cup {Len(all) + 1}) = QuantityOf(all, js) + t.qty
    BY <2>0, <2>1, QuantityGrows
  <2>3. QED
    BY <1>0, <2>2
<1>4. t \in Flow!Run /\ t.qty \in Int /\ None \notin Flow!Run /\ None \notin Flow!Trade
  <2>1. Flow!Trade \subseteq Flow!Run
    <3>1. Quantities \subseteq Int
      BY DEF Flow!IndicatorsAssumption
    <3>2. QED
      BY <3>1 DEF Flow!Trade, Flow!Run
  <2>2. None \notin Flow!Run
    BY DEF Flow!IndicatorsAssumption
  <2>3. QED
    BY <2>1, <2>2, TradeTyped
<1>5. \A s \in Flow!Sides : RunAddsUp(s, Mine(all, s)) /\ TickFollows(s, Mine(all, s), Together(all, Mine(all, s)))
  BY DEF FlowInv, SidesFollow
<1>6. /\ ks \in SUBSET (1..n) /\ n \in Nat /\ n + 1 \notin ks /\ IsFiniteSet(ks) /\ latest \in SUBSET ks
      /\ latest \in SUBSET (1..n)
      /\ ks # {} => Flow!Max(ks) \in ks /\ Flow!Min(ks) \in ks
      /\ Flow!Max(ks \cup {n + 1}) = n + 1
      /\ Flow!Min(ks \cup {n + 1}) = IF ks = {} THEN n + 1 ELSE Flow!Min(ks)
      /\ Mine(all', mine) = ks \cup {n + 1}
      /\ \A k \in 1..n : all'[k] = all[k] /\ all[k] \in Flow!Trade
      /\ all'[n + 1] = t
      /\ RunAddsUp(mine, ks) /\ TickFollows(mine, ks, latest)
  <2>1. ks \in SUBSET (1..n) /\ n \in Nat
    BY <1>0, <1>1, <1>2
  <2>2. latest \in SUBSET ks
    BY <1>0 DEF Together
  <2>3. QED
    BY <1>0, <1>1, <1>2, <1>5, <2>1, <2>2, Places
\* The runs
<1>7. /\ RunAddsUp(mine, ks \cup {n + 1})'
      /\ run' \in [Flow!Sides -> Flow!Run \cup {None}]
      /\ emitted' \in [Flow!Sides -> Int] /\ firsts' \in [Flow!Sides -> Int]
      /\ \A s \in Flow!Sides : s # mine => run'[s] = run[s] /\ emitted'[s] = emitted[s] /\ firsts'[s] = firsts[s]
  <2>1. QuantityOf(all', ks \cup {n + 1}) = QuantityOf(all, ks) + t.qty /\ QuantityOf(all, ks) \in Int
        /\ (ks = {} => QuantityOf(all, ks) = 0)
    BY <1>3, <1>6
  <2>2. CASE run[mine] = None
    <3>1. run' = [run EXCEPT ![mine] = t] /\ emitted' = emitted /\ firsts' = firsts
      BY <1>0, <2>2 DEF Flow!ImpactOnTrade
    <3>2. ks = {} /\ emitted[mine] = 0 /\ firsts[mine] = 0
      BY <1>6, <2>2 DEF RunAddsUp
    <3>3. run'[mine] = t /\ run'[mine] # None
      BY <1>1, <1>4, <3>1
    <3>4. RunAddsUp(mine, ks \cup {n + 1})'
      BY <1>4, <2>1, <3>1, <3>2, <3>3 DEF RunAddsUp
    <3>5. QED
      BY <1>1, <1>4, <3>1, <3>4
  <2>3. CASE run[mine] # None
    <3>1. run[mine] \in Flow!Run /\ run[mine].qty \in Int /\ run[mine].price \in Prices /\ emitted[mine] \in Int /\ firsts[mine] \in Int
      BY <1>1, <2>3 DEF Flow!Run
    <3>2. ks # {} /\ emitted[mine] + run[mine].qty = QuantityOf(all, ks) + firsts[mine]
      BY <1>6, <2>3 DEF RunAddsUp
    <3>3. CASE t.time = run[mine].time \/ Flow!Round(t.price) = Flow!Round(run[mine].price)
      <4>1. run' = [run EXCEPT ![mine] = Flow!TakenIn(run[mine], t)] /\ emitted' = emitted /\ firsts' = firsts
        BY <1>0, <2>3, <3>3 DEF Flow!ImpactOnTrade
      <4>3. Flow!TakenIn(run[mine], t) \in Flow!Run /\ Flow!TakenIn(run[mine], t).qty = run[mine].qty + t.qty
        BY <1>4, <3>1, TakenInOf
      <4>4. run'[mine] = Flow!TakenIn(run[mine], t) /\ run'[mine] # None
        BY <1>1, <1>4, <4>1, <4>3
      <4>5. emitted[mine] + (run[mine].qty + t.qty) = (QuantityOf(all, ks) + t.qty) + firsts[mine]
        <5>1. PICK a \in Int, b \in Int, c \in Int, d \in Int, e \in Int :
                   a = emitted[mine] /\ b = run[mine].qty /\ c = QuantityOf(all, ks) /\ d = firsts[mine] /\ e = t.qty
          BY <1>4, <2>1, <3>1
        <5>2. a + b = c + d
          BY <3>2, <5>1
        <5>3. a + (b + e) = (c + e) + d
          BY <5>2
        <5>4. QED
          BY <5>1, <5>3
      <4>6. RunAddsUp(mine, ks \cup {n + 1})'
        BY <2>1, <4>1, <4>3, <4>4, <4>5 DEF RunAddsUp
      <4>7. QED
        BY <1>1, <4>1, <4>3, <4>6
    <3>4. CASE ~(t.time = run[mine].time \/ Flow!Round(t.price) = Flow!Round(run[mine].price))
      <4>1. /\ run' = [run EXCEPT ![mine] = t]
            /\ emitted' = [emitted EXCEPT ![mine] = @ + run[mine].qty + t.qty]
            /\ firsts' = [firsts EXCEPT ![mine] = @ + t.qty]
        BY <1>0, <2>3, <3>4 DEF Flow!ImpactOnTrade
      <4>2. /\ run'[mine] = t /\ run'[mine] # None
            /\ emitted'[mine] = emitted[mine] + run[mine].qty + t.qty /\ firsts'[mine] = firsts[mine] + t.qty
            /\ emitted'[mine] \in Int /\ firsts'[mine] \in Int
        BY <1>1, <1>4, <3>1, <4>1
      <4>3. emitted[mine] + run[mine].qty + t.qty + t.qty = (QuantityOf(all, ks) + t.qty) + (firsts[mine] + t.qty)
        BY <1>4, <2>1, <3>1, <3>2
      <4>4. RunAddsUp(mine, ks \cup {n + 1})'
        BY <2>1, <4>2, <4>3 DEF RunAddsUp
      <4>5. QED
        BY <1>1, <1>4, <4>1, <4>2, <4>4
    <3>5. QED
      BY <3>3, <3>4
  <2>4. QED
    BY <2>2, <2>3
\* The ticks
<1>8. PICK old, newest : /\ old = tick[mine] /\ old \in [nb : Nat, total : Int, last : Flow!Trade \cup {None}]
                       /\ newest = Together(all', ks \cup {n + 1})
  BY <1>1
<1>9. /\ ks = {} \/ t.time # all[Flow!Max(ks)].time => newest = {n + 1}
      /\ ks # {} /\ t.time = all[Flow!Max(ks)].time => newest = latest \cup {n + 1}
  <2>1. ks \in SUBSET (1..Len(all))
    BY <1>0, <1>6
  <2>2. /\ ks # {} /\ t.time = all[Flow!Max(ks)].time =>
             Together(Append(all, t), ks \cup {Len(all) + 1}) = Together(all, ks) \cup {Len(all) + 1}
        /\ ks = {} \/ t.time # all[Flow!Max(ks)].time =>
             Together(Append(all, t), ks \cup {Len(all) + 1}) = {Len(all) + 1}
    BY <1>1, <2>1, TogetherGrows
  <2>3. QED
    BY <1>0, <1>8, <2>2
<1>10. PICK new : /\ new = CASE old.last = None -> [old EXCEPT !.last = t]
                             [] old.last # None /\ t.time = old.last.time ->
                                  [nb |-> old.nb + 1, total |-> old.total + t.qty, last |-> t]
                             [] OTHER -> [nb |-> 1, total |-> t.qty, last |-> t]
                  /\ tick' = [tick EXCEPT ![mine] = new]
  BY <1>0, <1>8 DEF Flow!TickOnTrade
<1>11. old.last = None <=> ks = {}
  <2>1. CASE ks = {}
    <3>1. old = [nb |-> 0, total |-> 0, last |-> None]
      BY <1>6, <1>8, <2>1, Zenon DEF TickFollows
    <3>2. QED
      BY <2>1, <3>1
  <2>2. CASE ks # {}
    <3>1. PICK k \in 1..n : k = Flow!Max(ks)
      BY <1>6, <2>2
    <3>2. old.last = all[k] /\ all[k] \in Flow!Trade
      BY <1>6, <1>8, <2>2, <3>1 DEF TickFollows
    <3>3. QED
      BY <1>4, <2>2, <3>2
  <2>3. QED
    BY <2>1, <2>2
<1>12. /\ new.last = t /\ new \in [nb : Nat, total : Int, last : Flow!Trade \cup {None}]
       /\ new.nb = Cardinality(newest) - (IF newest = ks \cup {n + 1} THEN 1 ELSE 0)
       /\ new.total = QuantityOf(all', newest) - (IF newest = ks \cup {n + 1} THEN all'[Flow!Min(ks \cup {n + 1})].qty ELSE 0)
  <2>1. QuantityOf(all', {} \cup {n + 1}) = t.qty /\ {} \cup {n + 1} = {n + 1} /\ Cardinality({n + 1}) = 1
    <3>1. QuantityOf(all', {} \cup {n + 1}) = QuantityOf(all, {}) + t.qty /\ QuantityOf(all, {}) = 0
      BY <1>3
    <3>2. Cardinality({n + 1}) = 1
      BY FS_Singleton
    <3>3. {} \cup {n + 1} = {n + 1}
      OBVIOUS
    <3>4. QED
      BY <1>4, <3>1, <3>2, <3>3
  <2>2. CASE ks = {}
    <3>1. new = [old EXCEPT !.last = t] /\ old.nb = 0 /\ old.total = 0
      BY <1>6, <1>8, <1>10, <1>11, <2>2 DEF TickFollows
    <3>2. newest = {n + 1} /\ newest = ks \cup {n + 1} /\ Flow!Min(ks \cup {n + 1}) = n + 1
      BY <1>6, <1>9, <2>2
    <3>3. new.last = t /\ new.nb = 0 /\ new.total = 0 /\ new \in [nb : Nat, total : Int, last : Flow!Trade \cup {None}]
      BY <1>8, <3>1
    <3>4. QuantityOf(all', newest) = t.qty /\ Cardinality(newest) = 1 /\ all'[Flow!Min(ks \cup {n + 1})] = t
      BY <1>6, <2>1, <3>2
    <3>5. new.nb = Cardinality(newest) - 1 /\ new.total = QuantityOf(all', newest) - all'[Flow!Min(ks \cup {n + 1})].qty
      BY <1>4, <3>3, <3>4
    <3>6. QED
      BY <3>2, <3>3, <3>5
  <2>3. CASE ks # {} /\ t.time = all[Flow!Max(ks)].time
    <3>1. /\ old.last = all[Flow!Max(ks)] /\ old.last # None
          /\ old.nb = Cardinality(latest) - (IF latest = ks THEN 1 ELSE 0)
          /\ old.total = QuantityOf(all, latest) - (IF latest = ks THEN all[Flow!Min(ks)].qty ELSE 0)
      BY <1>6, <1>8, <1>11, <2>3 DEF TickFollows
    <3>2. new = [nb |-> old.nb + 1, total |-> old.total + t.qty, last |-> t]
      BY <1>10, <2>3, <3>1
    <3>3. /\ newest = latest \cup {n + 1} /\ (newest = ks \cup {n + 1} <=> latest = ks)
          /\ Flow!Min(ks \cup {n + 1}) = Flow!Min(ks) /\ all'[Flow!Min(ks)] = all[Flow!Min(ks)]
      BY <1>6, <1>9, <2>3
    <3>4. Cardinality(newest) = Cardinality(latest) + 1 /\ Cardinality(latest) \in Nat
      <4>1. IsFiniteSet(latest) /\ n + 1 \notin latest
        BY <1>6, FS_Subset
      <4>2. QED
        BY <3>3, <4>1, FS_AddElement, FS_CardinalityType
    <3>5. QuantityOf(all', newest) = QuantityOf(all, latest) + t.qty /\ QuantityOf(all, latest) \in Int
      BY <1>3, <1>6, <3>3
    <3>6. all[Flow!Min(ks)].qty \in Int
      <4>1. Flow!Min(ks) \in 1..n
        BY <1>6, <2>3
      <4>2. all[Flow!Min(ks)] \in Flow!Trade
        BY <1>6, <4>1
      <4>3. QED
        BY <4>2, TradeTyped
    <3>7. new.nb = old.nb + 1 /\ new.total = old.total + t.qty /\ new.last = t /\ old.nb \in Nat /\ old.total \in Int
      BY <1>8, <3>2
    <3>8. new \in [nb : Nat, total : Int, last : Flow!Trade \cup {None}]
      <4>1. old.nb + 1 \in Nat /\ old.total + t.qty \in Int
        BY <1>4, <3>7
      <4>2. QED
        BY <3>2, <4>1
    <3>9. CASE latest = ks
      <4>1. old.nb = Cardinality(latest) - 1 /\ old.total = QuantityOf(all, latest) - all[Flow!Min(ks)].qty
        BY <3>1, <3>9
      <4>2. new.nb = Cardinality(newest) - 1 /\ new.total = QuantityOf(all', newest) - all[Flow!Min(ks)].qty
        BY <1>4, <3>4, <3>5, <3>6, <3>7, <4>1
      <4>3. newest = ks \cup {n + 1}
        BY <3>3, <3>9
      <4>4. all'[Flow!Min(ks \cup {n + 1})] = all[Flow!Min(ks)]
        BY <3>3
      <4>5. QED
        BY <3>7, <3>8, <4>2, <4>3, <4>4
    <3>10. CASE latest # ks
      BY <1>4, <3>1, <3>3, <3>4, <3>5, <3>6, <3>7, <3>8, <3>10
    <3>11. QED
      BY <3>9, <3>10
  <2>4. CASE ks # {} /\ t.time # all[Flow!Max(ks)].time
    <3>1. old.last = all[Flow!Max(ks)] /\ old.last # None
      BY <1>6, <1>8, <1>11, <2>4 DEF TickFollows
    <3>2. new = [nb |-> 1, total |-> t.qty, last |-> t]
      BY <1>10, <2>4, <3>1
    <3>3. newest = {n + 1} /\ newest # ks \cup {n + 1}
      BY <1>6, <1>9, <2>4
    <3>4. QED
      BY <1>4, <2>1, <3>2, <3>3
  <2>5. QED
    BY <2>2, <2>3, <2>4
<1>13. TickFollows(mine, ks \cup {n + 1}, newest)'
  <2>1. tick'[mine] = new /\ all'[Flow!Max(ks \cup {n + 1})] = t
    BY <1>1, <1>6, <1>10
  <2>2. QED
    BY <1>12, <2>1 DEF TickFollows
<1>14. /\ tick' \in [Flow!Sides -> [nb : Nat, total : Int, last : Flow!Trade \cup {None}]]
       /\ \A s \in Flow!Sides : s # mine => tick'[s] = tick[s]
  BY <1>1, <1>10, <1>12
<1>15. ASSUME NEW s \in Flow!Sides
       PROVE  RunAddsUp(s, Mine(all, s))' /\ TickFollows(s, Mine(all, s), Together(all, Mine(all, s)))'
  <2>1. CASE s = mine
    <3>1. Together(all', Mine(all', mine)) = newest
      BY <1>6, <1>8
    <3>2. QED
      BY <1>6, <1>7, <1>13, <2>1, <3>1 DEF RunAddsUp, TickFollows
  <2>2. CASE s # mine
    <3>1. PICK js, lasts : js = Mine(all, s) /\ lasts = Together(all, js)
      OBVIOUS
    <3>2. /\ js \in SUBSET (1..n) /\ Mine(all', s) = js /\ RunAddsUp(s, js) /\ TickFollows(s, js, lasts)
      BY <1>2, <1>5, <2>2, <3>1
    <3>3. lasts \in SUBSET js /\ lasts \in SUBSET (1..n) /\ Together(all', js) = lasts
      <4>0. all \in Seq(Flow!Trade)
        BY <1>1
      <4>1. js \in SUBSET (1..Len(all))
        BY <1>0, <3>2
      <4>2. Together(all, js) \in SUBSET js /\ Together(Append(all, t), js) = Together(all, js)
        BY <4>0, <4>1, TogetherGrows
      <4>3. QED
        BY <3>1, <3>2, <4>2
    <3>4. /\ QuantityOf(all', js) = QuantityOf(all, js) /\ QuantityOf(all', lasts) = QuantityOf(all, lasts)
      BY <1>3, <3>2, <3>3
    <3>5. js # {} => all'[Flow!Max(js)] = all[Flow!Max(js)] /\ all'[Flow!Min(js)] = all[Flow!Min(js)]
      <4>1. js # {} => Flow!Max(js) \in js /\ Flow!Min(js) \in js
        BY <1>6, <3>2, Places
      <4>2. QED
        BY <1>6, <3>2, <4>1
    <3>6. run'[s] = run[s] /\ emitted'[s] = emitted[s] /\ firsts'[s] = firsts[s] /\ tick'[s] = tick[s]
      BY <1>7, <1>14, <2>2
    <3>7. RunAddsUp(s, Mine(all, s))'
      BY <3>2, <3>4, <3>6 DEF RunAddsUp
    <3>8. TickFollows(s, Mine(all, s), Together(all, Mine(all, s)))'
      BY <3>2, <3>3, <3>4, <3>5, <3>6 DEF TickFollows
    <3>9. QED
      BY <3>7, <3>8
  <2>3. QED
    BY <2>1, <2>2
<1>16. QED
  BY <1>7, <1>14, <1>15 DEF SidesFollow

LEMMA NothingYet ==
  ASSUME NEW n PROVE Windowed(<<>>, n) = 0 /\ Deltas(<<>>, n) = 0
<1>1. /\ DOMAIN <<>> = 1..0
      /\ [k \in 1..0 |-> IF Flow!IsRecent(<<>>[k], n) THEN <<>>[k].amount ELSE 0] \in [1..0 -> Int]
      /\ [k \in 1..0 |-> IF Flow!IsRecent(<<>>[k], n) THEN <<>>[k].qty * <<>>[k].price ELSE 0] \in [1..0 -> Int]
  OBVIOUS
<1>2. /\ Windowed(<<>>, n) =
           Flow!Total([k \in 1..0 |-> IF Flow!IsRecent(<<>>[k], n) THEN <<>>[k].amount ELSE 0])
      /\ Deltas(<<>>, n) =
           Flow!Total([k \in 1..0 |-> IF Flow!IsRecent(<<>>[k], n) THEN <<>>[k].qty * <<>>[k].price ELSE 0])
  BY <1>1, Zenon DEF Windowed, Deltas
<1>3. ASSUME NEW s \in [1..0 -> Int] PROVE Flow!Total(s) = 0
  <2>1. \A k \in 1..0 : s[k] = 0
    OBVIOUS
  <2>2. 0 \in Nat
    OBVIOUS
  <2>3. QED
    BY <2>1, <2>2, TotalZero
<1>4. QED
  BY <1>1, <1>2, <1>3, Zenon

LEMMA FlowInits ==
  ASSUME Flow!IndicatorsAssumption, Flow!Init PROVE FlowInv
<1>1. /\ now = 0 /\ ltps = <<>> /\ candle = None /\ ohlc = <<>> /\ atrs = 0 /\ volume = 0 /\ uncounted = 0
      /\ window = <<>> /\ cvd = None /\ fair = None /\ book = None
      /\ run = [s \in Flow!Sides |-> None] /\ emitted = [s \in Flow!Sides |-> 0]
      /\ firsts = [s \in Flow!Sides |-> 0]
      /\ tick = [s \in Flow!Sides |-> [nb |-> 0, total |-> 0, last |-> None]] /\ all = <<>>
  BY DEF Flow!Init
<1>2. MaxTime \in Nat /\ MaxTrades \in Nat /\ OhlcLen \in Nat
  BY DEF Flow!IndicatorsAssumption
<1>3. FlowTyped
  <2>1. \A S : <<>> \in Seq(S)
    BY EmptySeq
  <2>2. now \in 0..MaxTime /\ Len(all) <= MaxTrades /\ Len(ohlc) <= OhlcLen /\ atrs \in Nat /\ ~(atrs > 0)
    BY <1>1, <1>2
  <2>3. tick \in [Flow!Sides -> [nb : Nat, total : Int, last : Flow!Trade \cup {None}]]
    BY <1>1
  <2>4. /\ run \in [Flow!Sides -> Flow!Run \cup {None}] /\ emitted \in [Flow!Sides -> Int]
        /\ firsts \in [Flow!Sides -> Int]
    BY <1>1
  <2>5. QED
    BY <1>1, <2>1, <2>2, <2>3, <2>4 DEF FlowTyped
<1>4. CandlesSpan /\ HeardInTime
  BY <1>1 DEF CandlesSpan, HeardInTime
<1>5. CandlesAddUp
  BY <1>1, NoVolume DEF CandlesAddUp, OpenVolume
<1>6. FairFollows
  BY <1>1 DEF FairFollows
<1>7. WindowAddsUp
  BY <1>1, NothingYet DEF WindowAddsUp
<1>8. SidesFollow
  <2>1. ASSUME NEW s \in Flow!Sides
        PROVE  RunAddsUp(s, Mine(all, s)) /\ TickFollows(s, Mine(all, s), Together(all, Mine(all, s)))
    <3>1. Mine(all, s) = {}
      BY <1>1 DEF Mine
    <3>2. run[s] = None /\ emitted[s] = 0 /\ firsts[s] = 0 /\ tick[s] = [nb |-> 0, total |-> 0, last |-> None]
      BY <1>1
    <3>3. QED
      BY <3>1, <3>2 DEF RunAddsUp, TickFollows
  <2>2. QED
    BY <2>1 DEF SidesFollow
<1>9. QED
  BY <1>3, <1>4, <1>5, <1>6, <1>7, <1>8 DEF FlowInv

\* A trade the imbalance hears of is in the window, or is too old to count now and later.
LEMMA WindowStep ==
  ASSUME Flow!IndicatorsAssumption, FlowInv, NEW t \in Flow!Trade, t.time \in 0..now, now' = now,
         all' = Append(all, t), Flow!ImbalanceOnTrade(t)
  PROVE  /\ WindowAddsUp' /\ window' \in Seq(Recents) /\ cvd' \in Int \cup {None}
         /\ fair' = fair /\ book' = book
<1>0. PICK x, seen, recent, now0 :
         x = [time |-> t.time, amount |-> t.qty * t.price] /\ seen = Append(window, x)
         /\ recent = Flow!Recent(seen) /\ now0 = now
  OBVIOUS
<1>1. /\ now0 \in 0..MaxTime /\ now0 \in Nat /\ MaxTime \in Nat /\ all \in Seq(Flow!Trade)
      /\ window \in Seq(Recents) /\ cvd \in Int \cup {None} /\ Window \in Nat \ {0}
      /\ now \in 0..MaxTime
  BY <1>0 DEF FlowInv, FlowTyped, Flow!IndicatorsAssumption
<1>2. x \in Recents /\ x.time = t.time /\ x.amount = t.qty * t.price /\ x.amount \in Int /\ t.time \in Nat
  <2>1. t.time \in 0..MaxTime /\ t.time \in Nat
    BY <1>1
  <2>2. t.qty * t.price \in Int
    BY TradeTyped
  <2>3. QED
    BY <1>0, <2>1, <2>2 DEF Recents
<1>3. /\ IF recent = <<>> THEN window' = seen /\ cvd' = cvd
         ELSE window' = recent /\ cvd' = Flow!Total([k \in DOMAIN recent |-> recent[k].amount])
      /\ fair' = fair /\ book' = book
  BY <1>0, Zenon DEF Flow!ImbalanceOnTrade
<1>4. seen \in Seq(Recents) /\ seen # <<>> /\ seen[Len(seen)] = x
  BY <1>0, <1>1, <1>2, AppendProperties
<1>5. ASSUME NEW n \in now0..MaxTime PROVE Windowed(seen, n) = Deltas(all', n)
  <2>1. n \in Nat
    BY <1>1
  <2>2. Windowed(window, n) = Deltas(all, n)
    BY <1>0, <1>5 DEF FlowInv, WindowAddsUp
  <2>3. Windowed(Append(window, x), n) = Windowed(window, n) + (IF Flow!IsRecent(x, n) THEN x.amount ELSE 0)
    <3>1. window \in Seq(Recents)
      BY <1>1
    <3>2. QED
      BY <1>2, <2>1, <3>1, WindowedAdds
  <2>4. Deltas(Append(all, t), n) = Deltas(all, n) + (IF Flow!IsRecent(t, n) THEN t.qty * t.price ELSE 0)
    <3>1. all \in Seq(Flow!Trade)
      BY <1>1
    <3>2. QED
      BY <2>1, <3>1, DeltasAdd
  <2>5. Flow!IsRecent(x, n) <=> Flow!IsRecent(t, n)
    BY <1>2 DEF Flow!IsRecent
  <2>6. (IF Flow!IsRecent(x, n) THEN x.amount ELSE 0) = (IF Flow!IsRecent(t, n) THEN t.qty * t.price ELSE 0)
    BY <1>2, <2>5
  <2>7. QED
    BY <1>0, <2>2, <2>3, <2>4, <2>6
<1>6. /\ recent \in Seq(Recents)
      /\ \A n \in now0..MaxTime : Windowed(recent, n) = Windowed(seen, n)
      /\ Flow!Total([k \in DOMAIN recent |-> recent[k].amount]) = Windowed(recent, now0)
      /\ Flow!IsRecent(x, now0) => recent # <<>>
  <2>1. now \in 0..MaxTime
    BY <1>1
  <2>2. /\ Flow!Recent(seen) \in Seq(Recents)
        /\ \A n \in now..MaxTime : Windowed(Flow!Recent(seen), n) = Windowed(seen, n)
        /\ Flow!Total([k \in DOMAIN Flow!Recent(seen) |-> Flow!Recent(seen)[k].amount]) = Windowed(Flow!Recent(seen), now)
        /\ seen # <<>> /\ Flow!IsRecent(seen[Len(seen)], now) => Flow!Recent(seen) # <<>>
    BY <1>4, <2>1, RecentCounts
  <2>3. QED
    BY <1>0, <1>4, <2>2
<1>7. now0 \in now0..MaxTime /\ now' = now0
  BY <1>0, <1>1
<1>8. all' # <<>> => all'[Len(all')] = t
  BY <1>1, AppendProperties
<1>9. t.time = now0 => Flow!IsRecent(x, now0)
  BY <1>1, <1>2 DEF Flow!IsRecent
<1>10. CASE recent = <<>>
  <2>1. window' = seen /\ cvd' = cvd /\ t.time # now0
    BY <1>3, <1>6, <1>9, <1>10
  <2>2. \A n \in now0..MaxTime : Windowed(window', n) = Deltas(all', n)
    BY <1>5, <2>1
  <2>3. WindowAddsUp'
    BY <1>7, <1>8, <2>1, <2>2 DEF WindowAddsUp
  <2>4. QED
    BY <1>1, <1>3, <1>4, <2>1, <2>3
<1>11. CASE recent # <<>>
  <2>1. window' = recent /\ cvd' = Flow!Total([k \in DOMAIN recent |-> recent[k].amount])
    BY <1>3, <1>11
  <2>2. \A n \in now0..MaxTime : Windowed(window', n) = Deltas(all', n)
    BY <1>5, <1>6, <2>1
  <2>3. cvd' = Windowed(recent, now0) /\ cvd' = Deltas(all', now0)
    BY <1>6, <1>7, <2>1, <2>2
  <2>4. Windowed(recent, now0) \in Int
    BY <1>1, <1>6, WindowedAdds, <1>2
  <2>5. WindowAddsUp'
    BY <1>7, <2>2, <2>3 DEF WindowAddsUp
  <2>6. QED
    BY <1>3, <1>6, <2>1, <2>3, <2>4, <2>5
<1>12. QED
  BY <1>10, <1>11

LEMMA SidesStay ==
  ASSUME SidesFollow, all' = all, run' = run, emitted' = emitted, firsts' = firsts, tick' = tick
  PROVE  SidesFollow'
<1>1. ASSUME NEW s \in Flow!Sides
      PROVE  RunAddsUp(s, Mine(all, s))' /\ TickFollows(s, Mine(all, s), Together(all, Mine(all, s)))'
  <2>1. RunAddsUp(s, Mine(all, s)) /\ TickFollows(s, Mine(all, s), Together(all, Mine(all, s)))
    BY DEF SidesFollow
  <2>2. QED
    BY <2>1 DEF RunAddsUp, TickFollows, Mine, Together, QuantityOf
<1>2. QED
  BY <1>1 DEF SidesFollow

\* What is kept of the candles are some of them, as many as are wanted at most.
LEMMA LastOnesOf ==
  ASSUME Flow!IndicatorsAssumption, NEW s \in Seq(Flow!Candle), \A k \in 1..Len(s) : Spans(s[k])
  PROVE  /\ Flow!LastOnes(s) \in Seq(Flow!Candle) /\ Len(Flow!LastOnes(s)) <= OhlcLen
         /\ \A k \in 1..Len(Flow!LastOnes(s)) : Spans(Flow!LastOnes(s)[k])
<1>1. Len(s) \in Nat /\ OhlcLen \in Nat
  BY LenProperties DEF Flow!IndicatorsAssumption
<1>2. CASE Len(s) > OhlcLen
  <2>1. PICK r : r = SubSeq(s, Len(s) - OhlcLen + 1, Len(s))
    OBVIOUS
  <2>2. /\ r \in Seq(Flow!Candle) /\ Len(r) = OhlcLen
        /\ \A k \in 1..OhlcLen : r[k] = s[Len(s) - OhlcLen + k]
    <3>1. PICK m \in 1..Len(s) + 1 : m = Len(s) - OhlcLen + 1
      <4>1. PICK n \in Nat, o \in Nat : n = Len(s) /\ o = OhlcLen
        BY <1>1
      <4>2. n > o
        BY <1>2, <4>1
      <4>3. n - o + 1 \in 1..n + 1
        BY <4>2
      <4>4. QED
        BY <4>1, <4>3
    <3>2. \A k \in m..Len(s) : k \in 1..Len(s)
      BY <1>1, <3>1
    <3>3. /\ SubSeq(s, m, Len(s)) \in Seq(Flow!Candle)
          /\ Len(SubSeq(s, m, Len(s))) = IF m <= Len(s) THEN Len(s) - m + 1 ELSE 0
          /\ \A k \in 1..Len(s) - m + 1 : SubSeq(s, m, Len(s))[k] = s[m + k - 1]
      BY <1>1, <3>1, SubSeqProperties
    <3>4. Len(s) - m + 1 = OhlcLen /\ (m <= Len(s) <=> OhlcLen > 0) /\ \A k \in Nat : m + k - 1 = Len(s) - OhlcLen + k
      BY <1>1, <3>1
    <3>5. QED
      BY <1>1, <2>1, <3>1, <3>3, <3>4
  <2>3. \A k \in 1..OhlcLen : Len(s) - OhlcLen + k \in 1..Len(s)
    <3>1. PICK n \in Nat, m \in Nat : n = Len(s) /\ m = OhlcLen
      BY <1>1
    <3>2. n > m
      BY <1>2, <3>1
    <3>3. \A k \in 1..m : n - m + k \in 1..n
      BY <3>2
    <3>4. QED
      BY <3>1, <3>3
  <2>4. \A k \in 1..Len(r) : Spans(r[k])
    BY <2>2, <2>3
  <2>5. Flow!LastOnes(s) = r
    BY <1>2, <2>1 DEF Flow!LastOnes
  <2>6. QED
    BY <1>1, <2>2, <2>4, <2>5
<1>3. CASE ~(Len(s) > OhlcLen)
  BY <1>1, <1>3 DEF Flow!LastOnes
<1>4. QED
  BY <1>2, <1>3

LEMMA CandleSteps ==
  ASSUME Flow!IndicatorsAssumption, FlowInv, Flow!CloseCandle \/ Flow!ResetLtps \/ Flow!NoCandle
  PROVE  FlowInv'
<1>0. /\ FlowTyped /\ CandlesSpan /\ CandlesAddUp /\ FairFollows /\ WindowAddsUp /\ SidesFollow /\ HeardInTime
  BY DEF FlowInv
<1>1. /\ now' = now /\ all' = all /\ window' = window /\ cvd' = cvd /\ fair' = fair /\ book' = book
      /\ run' = run /\ emitted' = emitted /\ firsts' = firsts /\ tick' = tick
  BY DEF Flow!CloseCandle, Flow!ResetLtps, Flow!NoCandle, Flow!cvdVars, Flow!impactVars
<1>2. FairFollows' /\ HeardInTime'
  BY <1>0, <1>1 DEF FairFollows, HeardInTime
<1>3. WindowAddsUp'
  BY <1>0, <1>1 DEF WindowAddsUp
<1>4. SidesFollow'
  BY <1>0, <1>1, SidesStay
<1>5. /\ candle \in Flow!Candle \cup {None} /\ ohlc \in Seq(Flow!Candle) /\ atrs \in Nat
      /\ ltps \in Seq(Flow!Trade) /\ all \in Seq(Flow!Trade) /\ volume \in Int /\ uncounted \in Int
      /\ (atrs > 0 => Len(ohlc) >= AtrLen) /\ Len(ohlc) <= OhlcLen
  BY <1>0 DEF FlowTyped
<1>6. SUFFICES /\ candle' \in Flow!Candle \cup {None} /\ ohlc' \in Seq(Flow!Candle) /\ Len(ohlc') <= OhlcLen
               /\ ltps' \in Seq(Flow!Trade) /\ volume' \in Int /\ uncounted' \in Int
               /\ CandlesSpan' /\ CandlesAddUp'
  <2>1. (atrs' = atrs /\ ohlc' = ohlc) \/ atrs' = IF Len(ohlc') >= AtrLen THEN atrs + 1 ELSE 0
    BY DEF Flow!CloseCandle, Flow!ResetLtps, Flow!NoCandle
  <2>2. atrs' \in Nat /\ (atrs' > 0 => Len(ohlc') >= AtrLen)
    BY <1>5, <2>1
  <2>3. FlowTyped'
    BY <1>0, <1>1, <1>6, <2>2 DEF FlowTyped
  <2>4. QED
    BY <1>2, <1>3, <1>4, <1>6, <2>3 DEF FlowInv
<1>7. CASE Flow!CloseCandle
  <2>1. /\ candle = None /\ ltps # <<>> /\ candle' = Flow!FromLtps(ltps) /\ ltps' = ltps
        /\ ohlc' = ohlc /\ volume' = volume /\ uncounted' = uncounted
    BY <1>7 DEF Flow!CloseCandle
  <2>2. Flow!FromLtps(ltps) \in Flow!Candle /\ Spans(Flow!FromLtps(ltps))
    BY <1>5, <2>1, CandleOf
  <2>3. CandlesSpan'
    BY <1>0, <2>1, <2>2 DEF CandlesSpan
  <2>4. CandlesAddUp'
    <3>1. Flow!FromLtps(ltps).volume = Flow!Volume(ltps)
      BY DEF Flow!FromLtps
    <3>2. Flow!FromLtps(ltps) # None
      BY <2>2 DEF Flow!IndicatorsAssumption
    <3>3. OpenVolume = Flow!Volume(ltps) /\ OpenVolume' = Flow!Volume(ltps)
      BY <2>1, <3>1, <3>2 DEF OpenVolume
    <3>4. QED
      BY <1>0, <1>1, <2>1, <3>3 DEF CandlesAddUp
  <2>5. QED
    BY <1>5, <2>1, <2>2, <2>3, <2>4
<1>8. CASE Flow!ResetLtps
  <2>1. PICK more : /\ more = Append(ohlc, candle) /\ candle # None /\ ohlc' = Flow!LastOnes(more)
                    /\ volume' = volume + candle.volume /\ uncounted' = uncounted
                    /\ ltps' = <<>> /\ candle' = None
    BY <1>8 DEF Flow!ResetLtps
  <2>2. candle \in Flow!Candle /\ candle.volume \in Int /\ Spans(candle)
    BY <1>0, <1>5, <2>1 DEF Flow!Candle, CandlesSpan
  <2>3. more \in Seq(Flow!Candle) /\ \A k \in 1..Len(more) : Spans(more[k])
    <3>1. /\ Len(more) = Len(ohlc) + 1 /\ more[Len(ohlc) + 1] = candle /\ Len(ohlc) \in Nat
          /\ \A k \in 1..Len(ohlc) : more[k] = ohlc[k]
      BY <1>5, <2>1, <2>2, AppendProperties, LenProperties
    <3>2. \A k \in 1..Len(ohlc) : Spans(ohlc[k])
      BY <1>0 DEF CandlesSpan
    <3>3. more \in Seq(Flow!Candle)
      BY <1>5, <2>1, <2>2, AppendProperties
    <3>4. ASSUME NEW k \in 1..Len(more) PROVE Spans(more[k])
      <4>1. k \in 1..Len(ohlc) \/ k = Len(ohlc) + 1
        BY <3>1
      <4>2. QED
        BY <2>2, <3>1, <3>2, <4>1
    <3>5. QED
      BY <3>3, <3>4
  <2>4. /\ ohlc' \in Seq(Flow!Candle) /\ Len(ohlc') <= OhlcLen /\ \A k \in 1..Len(ohlc') : Spans(ohlc'[k])
    BY <2>1, <2>3, LastOnesOf
  <2>5. OpenVolume = candle.volume /\ OpenVolume' = 0
    BY <2>1, NoVolume DEF OpenVolume
  <2>6. CandlesAddUp'
    <3>1. volume + uncounted + candle.volume = Flow!Volume(all)
      BY <1>0, <2>5 DEF CandlesAddUp
    <3>2. volume' + uncounted' + 0 = Flow!Volume(all)
      BY <1>5, <2>1, <2>2, <3>1
    <3>3. QED
      BY <1>1, <2>5, <3>2 DEF CandlesAddUp
  <2>7. CandlesSpan'
    BY <2>1, <2>4 DEF CandlesSpan
  <2>8. volume' \in Int /\ uncounted' \in Int /\ ltps' \in Seq(Flow!Trade)
    BY <1>5, <2>1, <2>2, <2>5, EmptySeq
  <2>9. QED
    BY <2>1, <2>4, <2>6, <2>7, <2>8
<1>9. CASE Flow!NoCandle
  <2>1. /\ candle' = candle /\ ltps' = ltps /\ ohlc' = ohlc /\ volume' = volume /\ uncounted' = uncounted
    BY <1>9 DEF Flow!NoCandle
  <2>2. CandlesSpan'
    BY <1>0, <2>1 DEF CandlesSpan
  <2>3. CandlesAddUp'
    BY <1>0, <1>1, <2>1 DEF CandlesAddUp, OpenVolume
  <2>4. QED
    BY <1>5, <2>1, <2>2, <2>3
<1>10. QED
  BY <1>7, <1>8, <1>9

LEMMA FlowTrade ==
  ASSUME Flow!IndicatorsAssumption, FlowInv, Flow!OnTrade
  PROVE  FlowInv'
<1>0. /\ FlowTyped /\ CandlesSpan /\ CandlesAddUp /\ FairFollows /\ WindowAddsUp /\ SidesFollow /\ HeardInTime
  BY DEF FlowInv
<1>1. /\ now \in 0..MaxTime /\ now \in Nat /\ MaxTime \in Nat /\ MaxTrades \in Nat
      /\ ltps \in Seq(Flow!Trade) /\ all \in Seq(Flow!Trade) /\ volume \in Int /\ uncounted \in Int
  BY <1>0 DEF FlowTyped, Flow!IndicatorsAssumption
<1>2. PICK time \in 0..now, price \in Prices, qty \in Quantities :
         LET t == [time |-> time, price |-> price, qty |-> qty]
         IN  /\ all' = Append(all, t) /\ ltps' = Append(ltps, t)
             /\ uncounted' = uncounted + (IF candle = None THEN 0 ELSE Flow!Magnitude(qty))
             /\ Flow!ImbalanceOnTrade(t) /\ Flow!ImpactOnTrade(t) /\ Flow!TickOnTrade(t)
  BY DEF Flow!OnTrade
<1>3. PICK t \in Flow!Trade : t = [time |-> time, price |-> price, qty |-> qty]
  <2>1. time \in 0..MaxTime
    BY <1>1
  <2>2. QED
    BY <2>1 DEF Flow!Trade
<1>4. /\ all' = Append(all, t) /\ ltps' = Append(ltps, t) /\ t.time \in 0..now
      /\ uncounted' = uncounted + (IF candle = None THEN 0 ELSE Flow!Magnitude(t.qty))
      /\ Flow!ImbalanceOnTrade(t) /\ Flow!ImpactOnTrade(t) /\ Flow!TickOnTrade(t)
  BY <1>2, <1>3
<1>5. /\ now' = now /\ candle' = candle /\ ohlc' = ohlc /\ atrs' = atrs /\ volume' = volume
      /\ Len(all) < MaxTrades
  BY DEF Flow!OnTrade
<1>6. /\ WindowAddsUp' /\ window' \in Seq(Recents) /\ cvd' \in Int \cup {None}
      /\ fair' = fair /\ book' = book
  BY <1>4, <1>5, WindowStep
<1>7. /\ SidesFollow'
      /\ run' \in [Flow!Sides -> Flow!Run \cup {None}]
      /\ emitted' \in [Flow!Sides -> Int] /\ firsts' \in [Flow!Sides -> Int]
      /\ tick' \in [Flow!Sides -> [nb : Nat, total : Int, last : Flow!Trade \cup {None}]]
  BY <1>4, SidesStep
<1>8. /\ all' \in Seq(Flow!Trade) /\ ltps' \in Seq(Flow!Trade) /\ Len(all') = Len(all) + 1 /\ Len(all) \in Nat
      /\ all'[Len(all) + 1] = t /\ \A k \in 1..Len(all) : all'[k] = all[k]
  BY <1>1, <1>4, AppendProperties, LenProperties
<1>9. CandlesAddUp'
  <2>1. /\ Flow!Volume(Append(ltps, t)) = Flow!Volume(ltps) + Flow!Magnitude(t.qty)
        /\ Flow!Volume(ltps) \in Int /\ Flow!Magnitude(t.qty) \in Int
    BY <1>1, VolumeAdds
  <2>2. Flow!Volume(Append(all, t)) = Flow!Volume(all) + Flow!Magnitude(t.qty) /\ Flow!Volume(all) \in Int
    BY <1>1, VolumeAdds
  <2>3. volume + uncounted + OpenVolume = Flow!Volume(all)
    BY <1>0 DEF CandlesAddUp
  <2>4. CASE candle = None
    <3>1. /\ OpenVolume = Flow!Volume(ltps) /\ uncounted' = uncounted
          /\ OpenVolume' = Flow!Volume(ltps) + Flow!Magnitude(t.qty)
      BY <1>1, <1>4, <1>5, <2>1, <2>4 DEF OpenVolume
    <3>2. volume' + uncounted' + OpenVolume' = Flow!Volume(all')
      BY <1>1, <1>4, <1>5, <2>1, <2>2, <2>3, <3>1
    <3>3. QED
      BY <3>2 DEF CandlesAddUp
  <2>5. CASE candle # None
    <3>1. /\ OpenVolume = candle.volume /\ OpenVolume' = candle.volume
          /\ uncounted' = uncounted + Flow!Magnitude(t.qty)
      BY <1>4, <1>5, <2>5 DEF OpenVolume
    <3>2. candle.volume \in Int
      BY <1>0, <2>5 DEF FlowTyped, Flow!Candle
    <3>3. volume' + uncounted' + OpenVolume' = Flow!Volume(all')
      BY <1>1, <1>4, <1>5, <2>1, <2>2, <2>3, <3>1, <3>2
    <3>4. QED
      BY <3>3 DEF CandlesAddUp
  <2>6. QED
    BY <2>4, <2>5
<1>10. uncounted' \in Int
  <2>1. Flow!Magnitude(t.qty) \in Int
    BY <1>1, VolumeAdds
  <2>2. QED
    BY <1>1, <1>4, <2>1
<1>11. HeardInTime'
  <2>1. ASSUME NEW k \in 1..Len(all') PROVE all'[k].time \in 0..now'
    <3>1. k \in 1..Len(all) \/ k = Len(all) + 1
      BY <1>8
    <3>2. QED
      BY <1>0, <1>4, <1>5, <1>8, <3>1 DEF HeardInTime
  <2>2. QED
    BY <2>1 DEF HeardInTime
<1>12. FlowTyped'
  BY <1>0, <1>1, <1>5, <1>6, <1>7, <1>8, <1>10 DEF FlowTyped
<1>13. CandlesSpan' /\ FairFollows'
  BY <1>0, <1>5, <1>6 DEF CandlesSpan, FairFollows
<1>14. QED
  BY <1>6, <1>7, <1>9, <1>11, <1>12, <1>13 DEF FlowInv

LEMMA FlowStep ==
  ASSUME Flow!IndicatorsAssumption, FlowInv, [Flow!Next]_(Flow!vars)
  PROVE  FlowInv'
<1>0. /\ FlowTyped /\ CandlesSpan /\ CandlesAddUp /\ FairFollows /\ WindowAddsUp /\ SidesFollow /\ HeardInTime
      /\ MaxTime \in Nat /\ None \notin Books
  BY DEF FlowInv, Flow!IndicatorsAssumption
<1>1. CASE Flow!Clock \/ Flow!OnOrderBook \/ UNCHANGED Flow!vars
  <2>1. /\ ltps' = ltps /\ candle' = candle /\ ohlc' = ohlc /\ atrs' = atrs /\ volume' = volume
        /\ uncounted' = uncounted /\ window' = window /\ cvd' = cvd /\ all' = all
        /\ run' = run /\ emitted' = emitted /\ firsts' = firsts /\ tick' = tick
    BY <1>1 DEF Flow!Clock, Flow!OnOrderBook, Flow!vars, Flow!candleVars, Flow!cvdVars, Flow!impactVars
  <2>2. now' = now \/ (now < MaxTime /\ now' = now + 1)
    BY <1>1 DEF Flow!Clock, Flow!OnOrderBook, Flow!vars, Flow!candleVars, Flow!cvdVars, Flow!impactVars
  <2>3. (fair' = fair /\ book' = book) \/ \E b \in Books : book' = b /\ fair' = Flow!FairMid(b)
    BY <1>1 DEF Flow!Clock, Flow!OnOrderBook, Flow!vars, Flow!cvdVars
  <2>4. /\ now \in 0..MaxTime /\ now \in Nat /\ now' \in 0..MaxTime /\ now' \in Nat /\ now <= now'
        /\ book \in Books \cup {None} /\ book' \in Books \cup {None}
    BY <1>0, <2>2, <2>3 DEF FlowTyped
  <2>5. FlowTyped'
    BY <1>0, <2>1, <2>4 DEF FlowTyped
  <2>6. CandlesSpan' /\ CandlesAddUp'
    BY <1>0, <2>1 DEF CandlesSpan, CandlesAddUp, OpenVolume
  <2>7. FairFollows'
    <3>1. CASE fair' = fair /\ book' = book
      BY <1>0, <3>1 DEF FairFollows
    <3>2. CASE \E b \in Books : book' = b /\ fair' = Flow!FairMid(b)
      <4>1. PICK b \in Books : book' = b /\ fair' = Flow!FairMid(b)
        BY <3>2
      <4>2. b # None
        BY <1>0
      <4>3. QED
        BY <4>1, <4>2 DEF FairFollows
    <3>3. QED
      BY <2>3, <3>1, <3>2
  <2>8. SidesFollow'
    BY <1>0, <2>1, SidesStay
  <2>9. HeardInTime'
    BY <1>0, <2>1, <2>4 DEF HeardInTime
  <2>10. WindowAddsUp'
    <3>1. \A n \in now'..MaxTime : n \in now..MaxTime
      BY <1>0, <2>4
    <3>2. \A n \in now'..MaxTime : Windowed(window, n) = Deltas(all, n)
      BY <1>0, <3>1 DEF WindowAddsUp
    <3>3. ASSUME all # <<>>, all[Len(all)].time = now' PROVE now' = now
      <4>1. Len(all) \in 1..Len(all)
        BY <1>0, <3>3, EmptySeq, LenProperties DEF FlowTyped
      <4>2. all[Len(all)].time \in 0..now
        BY <1>0, <4>1 DEF HeardInTime
      <4>3. QED
        BY <2>4, <3>3, <4>2
    <3>4. all # <<>> /\ all[Len(all)].time = now' => cvd = Deltas(all, now')
      BY <1>0, <3>3 DEF WindowAddsUp
    <3>5. QED
      BY <2>1, <3>2, <3>4 DEF WindowAddsUp
  <2>11. QED
    BY <2>5, <2>6, <2>7, <2>8, <2>9, <2>10 DEF FlowInv
<1>2. CASE Flow!CloseCandle \/ Flow!ResetLtps \/ Flow!NoCandle
  BY <1>2, CandleSteps
<1>3. CASE Flow!OnTrade
  BY <1>3, FlowTrade
<1>4. QED
  BY <1>1, <1>2, <1>3 DEF Flow!Next

\* Cardinality is one operator, whichever module instantiates it.
LEMMA FlowCardinality == ASSUME NEW S PROVE Flow!Cardinality(S) = Cardinality(S)
  BY DEF Flow!Cardinality, Cardinality

LEMMA FlowTypes ==
  ASSUME Flow!IndicatorsAssumption, FlowInv PROVE Flow!TypeOK
<1>1. FlowTyped /\ CandlesSpan /\ FairFollows
  BY DEF FlowInv
<1>2. ohlc \in Seq(Flow!Candle) /\ DOMAIN ohlc = 1..Len(ohlc)
  BY <1>1, LenProperties DEF FlowTyped
<1>3. \A k \in DOMAIN ohlc : ohlc[k].low <= ohlc[k].close /\ ohlc[k].close <= ohlc[k].high
  BY <1>1, <1>2 DEF CandlesSpan, Spans
<1>4. fair = None <=> book = None
  <2>1. CASE book = None
    BY <1>1, <2>1 DEF FairFollows
  <2>2. CASE book # None
    <3>1. book \in Books
      BY <1>1, <2>2 DEF FlowTyped
    <3>2. fair = Flow!FairMid(book)
      BY <1>1, <2>2 DEF FairFollows
    <3>3. QED
      BY <2>2, <3>1, <3>2, FairOf
  <2>3. QED
    BY <2>1, <2>2
<1>5. ASSUME NEW s \in Flow!Sides
      PROVE  /\ run[s] = None \/ (run[s].price \in Prices /\ run[s].time \in 0..MaxTime)
             /\ emitted[s] \in Int /\ tick[s].nb \in Nat
  <2>1. run[s] \in Flow!Run \cup {None} /\ emitted[s] \in Int /\ tick[s] \in [nb : Nat, total : Int, last : Flow!Trade \cup {None}]
    BY <1>1 DEF FlowTyped
  <2>2. QED
    BY <2>1 DEF Flow!Run
<1>6. QED
  BY <1>1, <1>3, <1>4, <1>5 DEF FlowTyped, Flow!TypeOK

LEMMA FlowSafe ==
  ASSUME Flow!IndicatorsAssumption, FlowInv PROVE Flow!FlowsExact
<1>1. /\ FlowTyped /\ CandlesSpan /\ CandlesAddUp /\ FairFollows /\ WindowAddsUp /\ SidesFollow
      /\ None \notin Books
  BY DEF FlowInv, Flow!IndicatorsAssumption
<1>2. /\ ohlc \in Seq(Flow!Candle) /\ DOMAIN ohlc = 1..Len(ohlc) /\ all \in Seq(Flow!Trade)
      /\ Len(all) \in Nat /\ DOMAIN all = 1..Len(all) /\ now \in 0..MaxTime /\ now \in now..MaxTime
  BY <1>1, LenProperties DEF FlowTyped, Flow!IndicatorsAssumption
<1>3. fair # None /\ Len(book.bids) = 1 /\ Len(book.asks) = 1 =>
        (Head(book.bids)[2] > Head(book.asks)[2]
           <=> 2 * fair.num > (Head(book.bids)[1] + Head(book.asks)[1]) * fair.den)
  <2>1. SUFFICES ASSUME fair # None, Len(book.bids) = 1, Len(book.asks) = 1
                 PROVE  Head(book.bids)[2] > Head(book.asks)[2]
                          <=> 2 * fair.num > (Head(book.bids)[1] + Head(book.asks)[1]) * fair.den
    OBVIOUS
  <2>2. book # None /\ fair = Flow!FairMid(book)
    BY <1>1, <2>1 DEF FairFollows
  <2>3. book \in Books
    BY <1>1, <2>2 DEF FlowTyped
  <2>4. QED
    BY <2>1, <2>2, <2>3, FairOf
<1>4. volume + uncounted + (IF candle = None THEN Flow!Volume(ltps) ELSE candle.volume)
        = Flow!Volume(all)
  BY <1>1 DEF CandlesAddUp, OpenVolume
<1>5. \A k \in DOMAIN ohlc : ohlc[k].low <= ohlc[k].open /\ ohlc[k].open <= ohlc[k].high
  BY <1>1, <1>2 DEF CandlesSpan, Spans
<1>6. all # <<>> /\ Flow!Last(all).time = now => cvd = Flow!Delta(now)
  <2>1. Flow!Delta(now) = Deltas(all, now)
    BY DEF Flow!Delta, Deltas
  <2>2. Flow!Last(all) = all[Len(all)]
    BY DEF Flow!Last
  <2>3. QED
    BY <1>1, <2>1, <2>2 DEF WindowAddsUp
<1>7. ASSUME NEW s \in Flow!Sides, NEW trades, NEW together, trades = Flow!OfSide(s),
             together = Flow!LastTogether(trades), trades # {}
      PROVE  /\ emitted[s] + run[s].qty = Flow!Quantity(trades) + firsts[s]
             /\ tick[s].nb = Flow!Cardinality(together) - (IF together = trades THEN 1 ELSE 0)
             /\ tick[s].total = Flow!Quantity(together)
                                  - (IF together = trades THEN all[Flow!Min(trades)].qty ELSE 0)
  <2>1. trades = Mine(all, s) /\ together = Together(all, trades)
    BY <1>7 DEF Flow!OfSide, Flow!LastTogether, Mine, Together
  <2>2. Flow!Quantity(trades) = QuantityOf(all, trades) /\ Flow!Quantity(together) = QuantityOf(all, together)
    BY DEF Flow!Quantity, QuantityOf
  <2>3. RunAddsUp(s, trades) /\ TickFollows(s, trades, together)
    BY <1>1, <2>1 DEF SidesFollow
  <2>4. Flow!Cardinality(together) = Cardinality(together)
    BY FlowCardinality
  <2>5. emitted[s] + run[s].qty = QuantityOf(all, trades) + firsts[s]
    BY <1>7, <2>3 DEF RunAddsUp
  <2>6. /\ tick[s].nb = Cardinality(together) - (IF together = trades THEN 1 ELSE 0)
        /\ tick[s].total = QuantityOf(all, together) - (IF together = trades THEN all[Flow!Min(trades)].qty ELSE 0)
    BY <1>7, <2>3 DEF TickFollows
  <2>7. QED
    BY <2>2, <2>4, <2>5, <2>6
<1>8. QED
  BY <1>3, <1>4, <1>5, <1>6, <1>7 DEF Flow!FlowsExact

LEMMA FeedsKeepFlows ==
  ASSUME FeedsAssumption, FlowInv, [FeedsNext]_feeds
  PROVE  FlowInv'
<1>1. Flow!IndicatorsAssumption
  BY DEF FeedsAssumption
<1>2. Flow!Next \/ UNCHANGED flows
  BY DEF FeedsNext, feeds
<1>3. [Flow!Next]_(Flow!vars)
  BY <1>2 DEF flows, Flow!vars, Flow!candleVars, Flow!cvdVars, Flow!impactVars
<1>4. QED
  BY <1>1, <1>3, FlowStep

\* Each number made of the trades counts each of them as often as it should (the candles, the
\* imbalance, the price impact and the ticks of sentinels/ and watchers/), whatever comes while
\* a candle is closed and however late a trade is; and a pair is traded against its spread.
THEOREM NumbersAlwaysExact == ASSUME FeedsAssumption PROVE FeedsSpec => []NumbersExact
<1> DEFINE Inv == PairInv /\ FlowInv
<1>1. FeedsInit => Inv
  BY PairInit, FlowInits DEF FeedsInit, FeedsAssumption
<1>2. Inv /\ [FeedsNext]_feeds => Inv'
  BY FeedsKeepPairs, FeedsKeepFlows
<1>3. Inv => NumbersExact
  BY PairsSafe, FlowSafe DEF FeedsAssumption, NumbersExact
<1>4. QED
  BY <1>1, <1>2, <1>3, PTL DEF FeedsSpec

-----------------------------------------------------------------------------
LEMMA FeedsKeepGrid == ASSUME FeedsAssumption, IInv, [FeedsNext]_feeds PROVE IInv'
<1>1. GridAssumption
  BY DEF FeedsAssumption
<1>2. [Next]_vars
  BY DEF FeedsNext, feeds
<1>3. QED
  BY <1>1, <1>2, GridNext

\* Whichever component runs, its variables are typed: no message is of a kind its reader does
\* not know, and no number computed from one is missing (the handlers of FeedsNext).
THEOREM FeedsAreTyped == ASSUME FeedsAssumption PROVE FeedsSpec => []FeedsTyped
<1> DEFINE Inv == IInv /\ SessionInv /\ PairInv /\ RouteInv /\ FeedInv /\ ReportsInv /\ FlowInv
           Runs == who \in {"grid", "feed", "reports", "routes", "session", "flows", "pairs"}
<1>1. FeedsInit => Inv /\ Runs
  BY GridInit, SessionInit, PairInit, RouteInit, FeedInits, ReportsInit, FlowInits
     DEF FeedsInit, FeedsAssumption
<1>2. Inv /\ [FeedsNext]_feeds => Inv'
  BY FeedsKeepGrid, FeedsKeepSessions, FeedsKeepPairs, FeedsKeepRoutes, FeedsKeepFeed,
     FeedsKeepReports, FeedsKeepFlows
<1>3. Runs /\ [FeedsNext]_feeds => Runs'
  BY DEF FeedsNext, feeds
<1>4. Inv /\ Runs => FeedsTyped
  <2> SUFFICES ASSUME Inv, Runs PROVE FeedsTyped
    OBVIOUS
  <2>1. TypeOK /\ Session!TypeOK /\ Pair!TypeOK
    BY DEF IInv, SessionInv, PairInv, PairsTyped
  <2>2. Route!TypeOK
    BY DEF RouteInv, RolesTyped, GivenToRun, Route!TypeOK
  <2>3. Feed!TypeOK
    BY FeedTypes DEF FeedsAssumption
  <2>4. Report!TypeOK
    BY ReportsTypes DEF FeedsAssumption
  <2>5. Flow!TypeOK
    BY FlowTypes DEF FeedsAssumption
  <2>6. QED
    BY <2>1, <2>2, <2>3, <2>4, <2>5 DEF FeedsTyped
<1>5. QED
  BY <1>1, <1>2, <1>3, <1>4, PTL DEF FeedsSpec
=============================================================================
