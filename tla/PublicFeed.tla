------------------------------ MODULE PublicFeed ------------------------------
(***************************************************************************)
(* The market data of an exchange on its way to a process that reads it: a *)
(* feed handler turns what the exchange sends into records, publishes each *)
(* on redis, and stores the funding rates, but neither books nor trades.   *)
(* A `pro' feed (ccxt) watches each instrument in a task of its own and    *)
(* completes a ticker with what the earlier ones said; the other one       *)
(* (cryptofeed) gets the whole funding each time.  The reader loads the    *)
(* hash when it is built, subscribes, loads it again, and then listens.    *)
(*                                                                         *)
(* A book and a trade are numbers that grow.  The statuses the callbacks   *)
(* announce are StatusBoard's.                                             *)
(***************************************************************************)
EXTENDS Integers, FiniteSets, Sequences

CONSTANTS
  Instruments,
  Given,        \* those the feed was started with
  Listed,       \* those the database finds by their code
  None,
  Rates, Times, \* 0 is a rate
  Multiplier,   \* funding_multiplier
  MaxChanges, MaxErrors, MaxKills, MaxReaders   \* bounds

Kinds == {"funding", "book", "trade"}
Funding == [rate : Int \cup {None}, next : Times \cup {None}]
Messages == [kind : {"funding"}, instr : Instruments, val : Funding]
              \cup [kind : Kinds \ {"funding"}, instr : Instruments, val : Nat]

\* A feed has a list of instruments; a rate of 1 is that of the exchange at the start.
PublicFeedAssumption ==
  /\ Given \subseteq Listed /\ Listed \subseteq Instruments /\ IsFiniteSet(Given)
  /\ {0, 1} \subseteq Rates /\ Rates \subseteq Nat /\ Times \subseteq Nat \ {0} /\ Times # {}
  /\ None \notin Int \cup Messages /\ Multiplier \in [Instruments -> Nat \ {0}]
  /\ {MaxChanges, MaxErrors, MaxKills, MaxReaders} \subseteq Nat

VARIABLES
  pro,
  venue,     \* what the exchange has of each instrument
  wire,      \* messages on their way to the feed
  feed,      \* "off" or "on"
  mapping,   \* code_mapping
  fundings,  \* instruments_fundings
  storing,   \* the funding that is published and not yet stored
  hash,      \* the funding redis has
  reader, queue, view,
  last,      \* history: the last record published
  since,     \* history: the last one since the reader subscribed
  missed,    \* history: instruments whose funding was on its way while the reader loaded,
             \* until the next one
  cut,       \* history: instruments the feed was killed at, until it stores the next one
  made, errors, kills, readers

feeding == <<pro, venue, wire, feed, mapping, fundings, storing, hash, last, cut, made, errors,
             kills>>
reading == <<reader, queue, view, since, missed, readers>>
vars == <<feeding, reading>>

Nothing == [rate |-> None, next |-> None]
Blank == [k \in Kinds |-> [i \in Instruments |-> None]]

TypeOK ==
  /\ pro \in BOOLEAN /\ feed \in {"off", "on"}
  /\ \A i \in Instruments :
       /\ venue[i].rate \in Rates /\ venue[i].next \in Times
       /\ fundings[i] \in Funding /\ hash[i] \in Funding \cup {None}
       /\ view["funding"][i] \in Funding \cup {None}
       /\ view["book"][i] \in Nat \cup {None} /\ view["trade"][i] \in Nat \cup {None}
  /\ \A k \in DOMAIN queue : queue[k].kind \in Kinds /\ queue[k].instr \in Listed
  /\ mapping \subseteq Listed
  /\ reader \in {"out", "built", "subscribed", "running"}
  /\ made \in 0..MaxChanges /\ errors \in 0..MaxErrors
  /\ kills \in 0..MaxKills /\ readers \in 0..MaxReaders

Message(kind, i, val) == [kind |-> kind, instr |-> i, val |-> val]

Init ==
  /\ pro \in BOOLEAN
  /\ venue \in [Instruments -> [rate : {1}, next : {CHOOSE t \in Times : TRUE}]]
  /\ wire = <<>> /\ feed = "off" /\ mapping = {} /\ storing = None
  /\ fundings = [i \in Instruments |-> Nothing] /\ hash = [i \in Instruments |-> None]
  /\ reader = "out" /\ queue = <<>> /\ view = Blank /\ last = Blank /\ since = Blank
  /\ missed = {} /\ cut = {} /\ made = 0 /\ errors = 0 /\ kills = 0 /\ readers = 0

-----------------------------------------------------------------------------
(* The exchange: a subscription is answered with all of a funding, and a     *)
(* change with at least what changed.                                        *)

Snapshots == {Message("funding", i, venue[i]) : i \in Given}

Change(i, rate, next) ==
  LET told == IF pro THEN {[rate |-> r, next |-> n] :
                              r \in {rate} \cup (IF rate = venue[i].rate THEN {None} ELSE {}),
                              n \in {next} \cup (IF next = venue[i].next THEN {None} ELSE {})}
                     ELSE {[rate |-> rate, next |-> next]}
  IN  /\ made < MaxChanges /\ made' = made + 1
      /\ <<rate, next>> # <<venue[i].rate, venue[i].next>>
      /\ venue' = [venue EXCEPT ![i] = [rate |-> rate, next |-> next]]
      /\ \E t \in told : wire' = IF feed = "on" THEN Append(wire, Message("funding", i, t)) ELSE wire
      /\ UNCHANGED <<pro, feed, mapping, fundings, storing, hash, last, cut, errors, kills, reading>>

Trade(kind, i) ==
  /\ kind # "funding" /\ feed = "on" /\ made < MaxChanges /\ made' = made + 1
  /\ wire' = Append(wire, Message(kind, i, made'))
  /\ UNCHANGED <<pro, venue, feed, mapping, fundings, storing, hash, last, cut, errors, kills,
                 reading>>

-----------------------------------------------------------------------------
(* The feed handler                                                          *)

Idle == feed = "on" /\ storing = None

\* _build_mapping: the codes of the instruments the feed is given
BuiltMapping == Given

Start ==
  /\ feed = "off" /\ feed' = "on"
  /\ mapping' = BuiltMapping
  /\ fundings' = [i \in Instruments |-> Nothing]
  /\ \E list \in [1..Cardinality(Given) -> Snapshots] :
       wire' = list /\ \A m \in Snapshots : \E k \in DOMAIN list : list[k] = m
  /\ UNCHANGED <<pro, venue, storing, hash, last, cut, made, errors, kills, reading>>

\* The connection fails: what was on its way is lost, and watch is called again at once.
WatchFails ==
  /\ Idle /\ errors < MaxErrors /\ errors' = errors + 1
  /\ \E list \in [1..Cardinality(Given) -> Snapshots] :
       wire' = list /\ \A m \in Snapshots : \E k \in DOMAIN list : list[k] = m
  /\ UNCHANGED <<pro, venue, feed, mapping, fundings, storing, hash, last, cut, made, kills,
                 reading>>

\* get_instr_from_code: an unknown code is looked for in the database.
Found(i) == i \in mapping \cup Listed

Publish(kind, i, val) ==
  /\ last' = [last EXCEPT ![kind][i] = val]
  /\ LET hears == reader \in {"subscribed", "running"}
     IN  /\ queue' = IF hears THEN Append(queue, Message(kind, i, val)) ELSE queue
         /\ since' = IF hears THEN [since EXCEPT ![kind][i] = val] ELSE since
  /\ UNCHANGED <<reader, view, missed, readers>>

\* set_orderbook, set_last_trade: published, not stored.
OnMarketData ==
  /\ Idle /\ wire # <<>> /\ wire[1].kind # "funding" /\ Found(wire[1].instr)
  /\ mapping' = mapping \cup {wire[1].instr}
  /\ Publish(wire[1].kind, wire[1].instr, wire[1].val)
  /\ wire' = Tail(wire)
  /\ UNCHANGED <<pro, venue, feed, fundings, storing, hash, cut, made, errors, kills>>

\* x or y
Or(x, y) == IF x \in {None, 0} THEN y ELSE x

\* Mutant: the new ticker is not completed.
CompletedNot(i, said) == said

\* The ticker, completed with what earlier ones said.
Completed(i, said) ==
  [rate |-> Or(said.rate, fundings[i].rate), next |-> Or(said.next, fundings[i].next)]

SetFundingRate(i, funding) == Publish("funding", i, funding) /\ storing' = Message("funding", i, funding)

\* on_funding_cb of the pro feed
OnFundingPro ==
  LET i == wire[1].instr
      new == Completed(i, wire[1].val)
  IN  /\ pro /\ Idle /\ wire # <<>> /\ wire[1].kind = "funding" /\ Found(i)
      /\ mapping' = mapping \cup {i}
      /\ IF Or(new.rate, None) # None /\ new.next # None /\ new # fundings[i]
         THEN SetFundingRate(i, new)
         ELSE UNCHANGED <<storing, last, reading>>
      /\ fundings' = [fundings EXCEPT ![i] = new]
      /\ wire' = Tail(wire)
      /\ UNCHANGED <<pro, venue, feed, hash, cut, made, errors, kills>>

\* on_funding_cb
OnFunding ==
  LET i == wire[1].instr
      new == [wire[1].val EXCEPT !.rate = Or(@, 0) * Multiplier[i]]
  IN  /\ ~pro /\ Idle /\ wire # <<>> /\ wire[1].kind = "funding" /\ Found(i)
      /\ mapping' = mapping \cup {i}
      /\ SetFundingRate(i, new)
      /\ wire' = Tail(wire)
      /\ UNCHANGED <<pro, venue, feed, fundings, hash, cut, made, errors, kills>>

\* set_funding_rate: the hash is written after the event is sent.
StoreFunding ==
  /\ feed = "on" /\ storing # None
  /\ hash' = [hash EXCEPT ![storing.instr] = storing.val]
  /\ storing' = None /\ cut' = cut \ {storing.instr}
  /\ UNCHANGED <<pro, venue, wire, feed, mapping, fundings, last, made, errors, kills, reading>>

\* The database does not know the code: outside of the try, so that one task of the pro feed
\* ends all of them.  The other feed drops the connection, and opens it again.
UnknownCode ==
  /\ Idle /\ wire # <<>> /\ ~Found(wire[1].instr)
  /\ feed' = IF pro THEN "off" ELSE feed
  /\ wire' = IF pro THEN <<>> ELSE Tail(wire)
  /\ UNCHANGED <<pro, venue, mapping, fundings, storing, hash, last, cut, made, errors, kills,
                 reading>>

Kill ==
  /\ feed = "on" /\ kills < MaxKills /\ kills' = kills + 1
  /\ feed' = "off" /\ wire' = <<>> /\ storing' = None
  /\ cut' = IF storing = None THEN cut ELSE cut \cup {storing.instr}
  /\ UNCHANGED <<pro, venue, mapping, fundings, hash, last, made, errors, reading>>

-----------------------------------------------------------------------------
(* The reader                                                                *)

Loaded == [Blank EXCEPT !["funding"] = hash]

\* RedisManager.__init__
Build ==
  /\ reader = "out" /\ readers < MaxReaders /\ readers' = readers + 1
  /\ reader' = "built" /\ view' = Loaded
  /\ UNCHANGED <<queue, since, missed, feeding>>

Subscribe ==
  /\ reader = "built" /\ reader' = "subscribed"
  /\ queue' = <<>> /\ since' = Blank
  /\ UNCHANGED <<view, missed, readers, feeding>>

\* Mutant: what was loaded in the constructor is kept.
RunKeeps ==
  /\ reader = "subscribed" /\ reader' = "running"
  /\ missed' = {i \in Instruments : storing # None /\ storing.instr = i /\ since["funding"][i] = None}
  /\ UNCHANGED <<view, queue, since, readers, feeding>>

\* run
Run ==
  /\ reader = "subscribed" /\ reader' = "running"
  /\ view' = Loaded
  /\ missed' = {i \in Instruments : storing # None /\ storing.instr = i /\ since["funding"][i] = None}
  /\ UNCHANGED <<queue, since, readers, feeding>>

OnEvent ==
  /\ reader = "running" /\ queue # <<>>
  /\ LET m == Head(queue)
     IN  /\ view' = [view EXCEPT ![m.kind][m.instr] = m.val]
         /\ missed' = IF m.kind = "funding" THEN missed \ {m.instr} ELSE missed
  /\ queue' = Tail(queue)
  /\ UNCHANGED <<reader, since, readers, feeding>>

Leave ==
  /\ reader # "out" /\ reader' = "out"
  /\ queue' = <<>> /\ view' = Blank /\ since' = Blank /\ missed' = {}
  /\ UNCHANGED <<readers, feeding>>

Next ==
  \/ \E i \in Instruments, rate \in Rates, next \in Times : Change(i, rate, next)
  \/ \E kind \in Kinds, i \in Instruments : Trade(kind, i)
  \/ Start \/ WatchFails \/ OnMarketData \/ OnFundingPro \/ OnFunding \/ StoreFunding
  \/ UnknownCode \/ Kill
  \/ Build \/ Subscribe \/ Run \/ OnEvent \/ Leave

Spec == Init /\ [][Next]_vars

-----------------------------------------------------------------------------
Quiet == storing = None /\ queue = <<>> /\ (feed = "on" => wire = <<>>)

\* Once all is delivered, a reader has the book and the trade published last since it
\* subscribed, and no older one, and the funding redis has, which is the last one published:
\* but for a funding the feed was killed over, or that was published before the reader
\* subscribed and stored after it loaded.  And what redis has is what the exchange says, but
\* for a rate of zero, which a pro feed takes for one that is missing.
ReaderFollows ==
  Quiet => \A i \in Instruments :
    /\ i \notin cut => hash[i] = last["funding"][i]
    /\ reader = "running" =>
         /\ \A k \in Kinds \ {"funding"} : view[k][i] = since[k][i]
         /\ i \notin missed \cup cut => view["funding"][i] = hash[i]
    /\ feed = "on" /\ i \in Given /\ i \notin cut =>
         /\ pro /\ venue[i].rate # 0 => hash[i] = venue[i]
         /\ ~pro => hash[i] = [venue[i] EXCEPT !.rate = @ * Multiplier[i]]
=============================================================================
