-------------------------------- MODULE Daemons --------------------------------
(***************************************************************************)
(* Starting and stopping the feed handlers and the exchange APIs.  A       *)
(* command resolves instruments, and for each exchange, and each group of  *)
(* channels, kills by a pattern on the command line what ran before and    *)
(* starts daemons, a feed for each chunk of the instruments.  Exchanges,   *)
(* one after the other, and the groups of each are gone through in the     *)
(* order of a set: in any order.                                           *)
(*                                                                         *)
(* The pattern of a feed has its exchange between spaces and its channels  *)
(* anywhere, that of an API has its exchange as a prefix.  A killed        *)
(* process leaves no word of it: the handlers of an ordinary exit do not   *)
(* run on a signal.  Commands are given one at a time.                     *)
(***************************************************************************)
EXTENDS Integers, FiniteSets, SequencesExt

CONSTANTS
  Exchanges,
  Longer,              \* Longer[e]: the exchanges whose code begins with that of e
  Instruments,         \* instrument ids
  ExchangeOf,          \* the exchange of each
  Expired,             \* those whose expiry has passed
  Public, Private,     \* the channels
  Trades, Liquidations,
  Supported,           \* <<exchange, public or not>>: there is a class for it
  MaxPerHandler,       \* the channels of a feed handler: 150
  Asks,                \* <<channels, modes>> a command may name
  MaxCommands, MaxMishaps  \* bounds

DaemonsAssumption ==
  /\ \A e \in Exchanges : e \in Longer[e] /\ Longer[e] \subseteq Exchanges
  /\ ExchangeOf \in [Instruments -> Exchanges] /\ Expired \subseteq Instruments
  /\ Trades \in Public /\ Liquidations \in Public /\ Public \cap Private = {}
  /\ IsFiniteSet(Instruments) /\ IsFiniteSet(Public \cup Private)
  /\ \A ask \in Asks : ask[1] \subseteq Public \cup Private
  /\ MaxPerHandler \in Nat \ {0} /\ MaxCommands \in Nat /\ MaxMishaps \in Nat

VARIABLES
  active,      \* the instruments the database has as active
  feeds, apis, \* the processes that run
  todo,        \* what is left of the command: <<exchange, channels>>
  command,     \* the command that is carried out
  given,       \* commands given so far
  mishaps,     \* processes that died and instruments delisted so far
  unkilled,    \* history: a command was given that kills nothing
  bereft       \* history: what a death, or a delisting, has taken from the last command

vars == <<active, feeds, apis, todo, command, given, mishaps, unkilled, bereft>>

Channels == Public \cup Private
None == "none"
Idle == [kind |-> None, ids |-> {}, kill |-> FALSE, first |-> None, asked |-> {}, clear |-> {}]
Process == [nr : 0..MaxCommands, exchange : Exchanges, chans : SUBSET Channels,
            ids : SUBSET Instruments]

TypeOK ==
  /\ active \subseteq Instruments
  /\ feeds \subseteq Process /\ apis \subseteq Process
  /\ todo \subseteq Exchanges \X SUBSET Channels
  /\ command.kind \in {None, "feeds", "stop_feeds", "apis", "stop_apis"}
  /\ command.ids \subseteq Instruments /\ command.kill \in BOOLEAN
  /\ command.first \in Exchanges \cup {None} /\ command.clear \subseteq Exchanges
  /\ command.asked \subseteq Exchanges \X SUBSET Channels
  /\ given \in 0..MaxCommands /\ mishaps \in 0..MaxMishaps
  /\ unkilled \in BOOLEAN /\ bereft \in BOOLEAN

Init ==
  /\ active = Instruments
  /\ feeds = {} /\ apis = {} /\ todo = {} /\ command = Idle
  /\ given = 0 /\ mishaps = 0 /\ unkilled = FALSE /\ bereft = FALSE

-----------------------------------------------------------------------------
(* What a command is about                                                   *)

\* resolve_instruments: ids are taken if active, a search also leaves the expired out.
FromIds(ids) == ids \cap active
FromInfos(exchs) == {i \in active \ Expired : ExchangeOf[i] \in exchs}

GroupOf(c) == CASE c \in Private -> Private
                [] c = Trades -> {Trades, Liquidations}
                [] OTHER -> {c}

OfModes(modes) == (IF "public" \in modes THEN Public ELSE {})
                    \cup (IF "private" \in modes THEN Private ELSE {})

\* Of two mentions of the liquidations, remove takes one away.  The modes add their channels to
\* those of the command in place, if it names any: the first exchange has two mentions if the
\* command and a mode name them, and every later one has those of the exchanges before as well.
Twice(chans, modes, first) ==
  "public" \in modes /\ chans # {} /\ (first => Liquidations \in chans)

\* get_channels_groups, build_channels_groups, of the first exchange or of a later one
ChannelsGroups(chans, modes, stop, first) ==
  LET named == IF stop /\ chans = {} /\ modes = {} THEN Channels ELSE chans \cup OfModes(modes)
      alone == Trades \notin named \/ stop \/ Twice(chans, modes, first)
  IN  {GroupOf(c) : c \in IF alone THEN named ELSE named \ {Liquidations}}

\* get_instr_id_groups: np.array_split, whose first pieces are the longer ones
InstrIdGroups(chans, ids) ==
  LET list == SetToSeq(ids)
      n == (Cardinality(chans) * Cardinality(ids)) \div MaxPerHandler + 1
      size == Len(list) \div n
      longer == Len(list) % n
      first(k) == (k - 1) * size + (IF k - 1 < longer THEN k - 1 ELSE longer) + 1
  IN  {{list[j] : j \in first(k)..first(k + 1) - 1} : k \in 1..n}

Give(kind, ids, kill, first, asked, clear) ==
  /\ todo = {} /\ given < MaxCommands /\ given' = given + 1
  /\ todo' = asked
  /\ command' = [kind |-> kind, ids |-> ids, kill |-> kill, first |-> first,
                 asked |-> asked, clear |-> clear]
  /\ bereft' = FALSE
  /\ UNCHANGED <<active, feeds, apis, mishaps>>

\* start_fh, of which some exchange is the first: clear where the liquidations are named once.
\* Without an instrument it does nothing.
StartFeeds(ids, chans, modes, no_kill) ==
  LET exchs == {ExchangeOf[i] : i \in ids}
      groups(isfirst) == ChannelsGroups(chans, modes, FALSE, isfirst)
  IN  /\ todo = {}
      /\ \E first \in exchs :
           Give("feeds", ids, ~no_kill, first,
                ({first} \X groups(TRUE)) \cup ((exchs \ {first}) \X groups(FALSE)),
                {e \in exchs : ~Twice(chans, modes, e = first)})
      /\ unkilled' = (unkilled \/ no_kill)

\* start_fh --stop
StopFeeds(exchs, chans, modes) ==
  /\ Give("stop_feeds", {}, TRUE, None, exchs \X ChannelsGroups(chans, modes, TRUE, TRUE), {})
  /\ UNCHANGED unkilled

\* start_api: clear where the code of an exchange does not begin with that of another.
StartApis(ids) ==
  LET exchs == {ExchangeOf[i] : i \in ids}
  IN  /\ Give("apis", ids, TRUE, None, exchs \X {{}},
              {e \in exchs : \A f \in exchs : e \in Longer[f] => f = e})
      /\ UNCHANGED unkilled

\* stop_api, of all exchanges if none is named
StopApis(exchs) ==
  /\ Give("stop_apis", {}, TRUE, None, exchs \X {{}}, {})
  /\ UNCHANGED unkilled

-----------------------------------------------------------------------------
(* The steps of a command                                                    *)

\* The first exchange before the others, and one that is begun before the next
InTurn(e) == \A work \in todo : work[1] # e =>
  /\ work[1] # command.first
  /\ \A other \in command.asked : other[1] = work[1] => other \in todo

\* Mutant: the pattern takes no account of the channels.
KilledFeedsOfExchange(e, chans) == {p \in feeds : p.exchange = e}

\* pkill: the channels of a pattern are part of those of the command line.
KilledFeeds(e, chans) == {p \in feeds : p.exchange = e /\ chans \subseteq p.chans}

\* feed_handler resolves its ids again, and ends without instruments or without a class.
Feed(e, chans, ids) ==
  {p \in {[nr |-> given, exchange |-> e, chans |-> chans, ids |-> ids \cap active]} :
     p.ids # {} /\ <<e, chans \subseteq Public>> \in Supported}

\* spawn_daemon of start_fh, of one exchange and one group
SpawnFeeds(e, chans) ==
  LET ids == {i \in command.ids : ExchangeOf[i] = e}
      left == IF command.kill THEN feeds \ KilledFeeds(e, chans) ELSE feeds
      new == IF command.kind = "feeds"
             THEN UNION {Feed(e, chans, g) : g \in InstrIdGroups(chans, ids)} ELSE {}
  IN  /\ command.kind \in {"feeds", "stop_feeds"} /\ <<e, chans>> \in todo /\ InTurn(e)
      /\ todo' = todo \ {<<e, chans>>}
      /\ feeds' = left \cup new
      /\ UNCHANGED <<active, apis, command, given, mishaps, unkilled, bereft>>

\* spawn_daemon of start_api, and the kill of stop_api: by the prefix of the exchange
SpawnApi(e) ==
  LET ids == {i \in command.ids : ExchangeOf[i] = e}
      new == IF command.kind = "apis"
             THEN {[nr |-> given, exchange |-> e, chans |-> {}, ids |-> ids \cap active]} ELSE {}
  IN  /\ command.kind \in {"apis", "stop_apis"} /\ <<e, {}>> \in todo
      /\ todo' = todo \ {<<e, {}>>}
      /\ apis' = {p \in apis : p.exchange \notin Longer[e]} \cup {p \in new : p.ids # {}}
      /\ UNCHANGED <<active, feeds, command, given, mishaps, unkilled, bereft>>

Die(p) ==
  /\ p \in feeds \cup apis /\ mishaps < MaxMishaps /\ mishaps' = mishaps + 1
  /\ feeds' = feeds \ {p} /\ apis' = apis \ {p}
  /\ bereft' = (bereft \/ p.nr = given)
  /\ UNCHANGED <<active, todo, command, given, unkilled>>

Delist(i) ==
  /\ i \in active /\ mishaps < MaxMishaps /\ mishaps' = mishaps + 1
  /\ active' = active \ {i}
  /\ bereft' = (bereft \/ todo # {})
  /\ UNCHANGED <<feeds, apis, todo, command, given, unkilled>>

Next ==
  \/ \E ids \in SUBSET Instruments, ask \in Asks, no_kill \in BOOLEAN :
       StartFeeds(FromIds(ids), ask[1], ask[2], no_kill)
  \/ \E ask \in Asks : StartFeeds(FromInfos(Exchanges), ask[1], ask[2], FALSE)
  \/ \E exchs \in SUBSET Exchanges, ask \in Asks : StopFeeds(exchs, ask[1], ask[2])
  \/ \E exchs \in SUBSET Exchanges : StartApis(FromInfos(exchs))
  \/ \E exchs \in SUBSET Exchanges : StopApis(IF exchs = {} THEN Exchanges ELSE exchs)
  \/ \E work \in todo : SpawnFeeds(work[1], work[2]) \/ SpawnApi(work[1])
  \/ \E p \in feeds \cup apis : Die(p)
  \/ \E i \in Instruments : Delist(i)

Spec == Init /\ [][Next]_vars

-----------------------------------------------------------------------------
Feeding(e, c, i) == {p \in feeds : p.exchange = e /\ c \in p.chans /\ i \in p.ids}

\* Once a start command is over, every channel it asked of every instrument that was active
\* is served, by a process of this command: it has killed what ran before and nothing of its
\* own.  But for the trades, which the kill for the liquidations may end, at an exchange where
\* these are named twice: by a channel and a mode, or at any exchange after the first if a mode
\* adds to channels; and but for the API of an exchange whose code begins with that of another
\* of the command.  Whatever the commands, an exchange has one API, and no channel is fed
\* twice, unless a command was told to kill nothing: but for the liquidations, that the
\* command for the trades starts again beside a feed of their own.
StartedOnce ==
  /\ todo = {} /\ ~bereft =>
       \A work \in command.asked, i \in command.ids : ExchangeOf[i] = work[1] =>
         /\ command.kind = "feeds" /\ <<work[1], work[2] \subseteq Public>> \in Supported =>
              \A c \in work[2] : work[1] \in command.clear \/ c # Trades =>
                \E p \in Feeding(work[1], c, i) : p.nr = given
         /\ command.kind = "apis" /\ work[1] \in command.clear =>
              \E p \in apis : p.exchange = work[1] /\ i \in p.ids /\ p.nr = given
  /\ \A p, q \in apis : p.exchange = q.exchange => p = q
  /\ ~unkilled => \A p, q \in feeds :
       p # q /\ p.exchange = q.exchange => p.chans \cap q.chans \subseteq {Liquidations}
                                             \/ p.ids \cap q.ids = {}
=============================================================================
